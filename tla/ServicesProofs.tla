----------------------------- MODULE ServicesProofs -----------------------------
(***************************************************************************)
(* Proofs about MCMeetingServices, a meeting and what runs beside it, for  *)
(* any number of meetings, starts, sources, events, passes and jobs, and   *)
(* any bounds.  Each part has an inductive invariant of its own: the       *)
(* generation of avatars, the delivery of webhooks, the avatar of a        *)
(* meeting, the control plane of one.  The last section puts them          *)
(* together: one part moves, and the others are as they begin.             *)
(***************************************************************************)
EXTENDS MCMeetingServices, MeetingLifecycleProofs, RtmpPublisherProofs, FiniteSetTheorems,
        SequenceTheorems, WellFoundedInduction

-----------------------------------------------------------------------------
(* The generation of avatars                                               *)

JobRecord == [state: JobState, retries: 0..WorkerAttempts, since: Nat]
RunPc == {"new", "queued", "patching", "patched", "attempt", "generating", "polling",
          "hydrated", "ended"}
RunChange == [state: JobState \cup {"same"}, retries: 0..WorkerAttempts,
              next: {"new", "attempt", "hydrated", "ended"}]
Run == [pc: RunPc, attempt: 0..WorkerAttempts, born: Nat, read: JobRecord \cup {NoRecord},
        change: RunChange]

GenerationTypes ==
    /\ time \in Nat
    /\ record \in [Jobs -> JobRecord \cup {NoRecord}]
    /\ run \in [Jobs -> Run]
    /\ posted \in [Jobs -> 0..WorkerAttempts]
    /\ listed \in [Jobs -> JobRecord \cup {NoRecord}]
    /\ swept \subseteq Jobs

\* What is known of a record of j wherever it is: it is not older than the job, and says of
\* no request that was not made.
Plausible(j, r) == r # NoRecord => r.since >= run[j].born /\ r.retries <= posted[j]

\* The requests that were made, by where runJob is.
PostsCounted(j) ==
    LET r      == run[j]
        change == r.pc \in {"patching", "patched"}
    IN  /\ r.attempt <= posted[j]
        /\ r.pc \in {"new", "queued"} => posted[j] = 0
        /\ r.pc = "attempt" \/ (change /\ r.change.next = "attempt")
              => posted[j] = r.attempt /\ r.attempt < WorkerAttempts
        /\ r.pc \in {"generating", "polling"}
              => posted[j] = r.attempt + 1 /\ r.attempt < WorkerAttempts
        /\ change => r.change.retries <= posted[j] /\ r.change.next # "new"
        /\ change /\ r.change.state \in Final => r.change.next = "ended"
        /\ r.pc = "patched" => r.read # NoRecord /\ r.read.state \notin Final

\* runJob is over soon after the deadline.
RunsInTime(j) ==
    /\ run[j].pc \notin {"new", "ended"} => time <= run[j].born + Wall + 1
    /\ run[j].pc = "generating" => time <= run[j].born + Wall
    /\ run[j].pc = "new" => record[j] = NoRecord /\ listed[j] = NoRecord

\* What the sweeper has found of a job that is out of time is what is there.
ListedIsFresh(j) ==
    listed[j] # NoRecord /\ time > run[j].born + Wall + 1 => record[j] = listed[j]

\* Only a job that nobody works on has come to its end.
FinalIsEnded(j) ==
    (record[j] # NoRecord /\ record[j].state \in Final) \/ j \in swept => run[j].pc = "ended"

JobInv(j) ==
    /\ Plausible(j, record[j]) /\ Plausible(j, listed[j]) /\ Plausible(j, run[j].read)
    /\ PostsCounted(j) /\ RunsInTime(j) /\ ListedIsFresh(j) /\ FinalIsEnded(j)

GenerationInv == GenerationTypes /\ \A j \in Jobs : JobInv(j)

-----------------------------------------------------------------------------
\* A job whose part of the state a step leaves alone stays as it should be.
LEMMA OtherJobs ==
    ASSUME NEW k \in Jobs, JobInv(k), time' = time, record'[k] = record[k],
           run'[k] = run[k], posted'[k] = posted[k], listed'[k] = listed[k],
           k \in swept' => k \in swept
    PROVE  JobInv(k)'
  BY DEF JobInv, Plausible, PostsCounted, RunsInTime, ListedIsFresh, FinalIsEnded

\* What runJob is when it is about to change the record.
LEMMA PatchesType ==
    ASSUME GenerationTypes, NEW j \in Jobs, NEW state \in JobState \cup {"same"},
           NEW retries \in 0..WorkerAttempts, NEW next \in {"new", "attempt", "hydrated",
           "ended"},
           Patches(j, state, retries, next)
    PROVE  run' \in [Jobs -> Run]
  <1>1. Change(state, retries, next) \in RunChange
    BY DEF Change, RunChange
  <1> DEFINE change == Change(state, retries, next)
  <1>2. run' = [run EXCEPT ![j].pc = "patching", ![j].change = change]
    BY DEF Patches
  <1> HIDE DEF change
  <1>3. change \in RunChange /\ "patching" \in RunPc
    BY <1>1 DEF change, RunPc
  <1>4. run[j] \in Run
    BY DEF GenerationTypes
  <1>5. [run[j] EXCEPT !.pc = "patching", !.change = change] \in Run
    BY <1>3, <1>4 DEF Run
  <1>6. run' = [run EXCEPT ![j] = [run[j] EXCEPT !.pc = "patching", !.change = change]]
    BY <1>2 DEF GenerationTypes
  <1> DEFINE moved == [run[j] EXCEPT !.pc = "patching", !.change = change]
  <1>7. moved \in Run /\ run' = [run EXCEPT ![j] = moved] /\ run \in [Jobs -> Run]
    BY <1>5, <1>6 DEF GenerationTypes
  <1> HIDE DEF moved
  <1> QED
    BY <1>7

\* A job comes in: nothing was asked of the worker yet.
LEMMA EnqueueJobKeeps ==
    ASSUME GenerationInv, NEW j \in Jobs, enqueue(j)
    PROVE  GenerationInv'
  <1>1. GenerationTypes'
    <2> DEFINE new == [state |-> "queued", retries |-> 0, since |-> time]
    <2>1. new \in JobRecord
      BY DEF GenerationInv, GenerationTypes, JobRecord, JobState, WorkerAttempts
    <2>2. record' \in {record, [record EXCEPT ![j] = new]}
      BY DEF enqueue, save
    <2> HIDE DEF new
    <2>3. record' \in [Jobs -> JobRecord \cup {NoRecord}]
      BY <2>1, <2>2 DEF GenerationInv, GenerationTypes
    <2>4. run' \in [Jobs -> Run]
      <3> DEFINE moved == [run[j] EXCEPT !.pc = "queued", !.born = time]
      <3>1. run[j] \in Run /\ time \in Nat /\ run \in [Jobs -> Run]
        BY DEF GenerationInv, GenerationTypes
      <3>2. moved \in Run
        BY <3>1 DEF Run, RunPc
      <3>3. run' = [run EXCEPT ![j] = moved]
        BY <3>1 DEF enqueue
      <3> HIDE DEF moved
      <3> QED
        BY <3>1, <3>2, <3>3
    <2>5. time' = time /\ posted' = posted /\ listed' = listed /\ swept' = swept
      BY DEF enqueue
    <2>6. GenerationTypes
      BY DEF GenerationInv
    <2> QED
      BY <2>3, <2>4, <2>5, <2>6 DEF GenerationTypes
  <1>2. ASSUME NEW k \in Jobs, k # j
        PROVE  JobInv(k)'
    BY <1>2, OtherJobs DEF GenerationInv, GenerationTypes, enqueue, save
  <1>3. JobInv(j)'
    BY GenerationAssumption
    DEF GenerationInv, GenerationTypes, JobRecord, Run, RunPc, RunChange, JobState, Final,
        WorkerAttempts, JobInv, Plausible, PostsCounted, RunsInTime, ListedIsFresh,
        FinalIsEnded, enqueue, save
  <1> QED
    BY <1>1, <1>2, <1>3 DEF GenerationInv

\* runJob begins, or drops a job whose record it does not find.
LEMMA RunJobKeeps ==
    ASSUME GenerationInv, NEW j \in Jobs, runJob(j)
    PROVE  GenerationInv'
  <1>1. GenerationTypes'
    <2>1. CASE Goes(j, "ended")
      <3>1. run \in [Jobs -> Run] /\ run[j] \in Run /\ run' = [run EXCEPT ![j].pc = "ended"]
        BY <2>1 DEF GenerationInv, GenerationTypes, Goes
      <3>2. run' \in [Jobs -> Run]
        BY <3>1 DEF Run, RunPc
      <3>3. time' = time /\ record' = record /\ posted' = posted
            /\ listed' = listed /\ swept' = swept
        BY DEF runJob
      <3>4. GenerationTypes
        BY DEF GenerationInv
      <3> QED
        BY <3>2, <3>3, <3>4 DEF GenerationTypes
    <2>2. CASE Patches(j, "processing", 0, "attempt")
      <3>1. run' \in [Jobs -> Run]
        BY <2>2, PatchesType DEF GenerationInv, JobState, WorkerAttempts
      <3>2. time' = time /\ record' = record /\ posted' = posted
            /\ listed' = listed /\ swept' = swept
        BY DEF runJob
      <3>3. GenerationTypes
        BY DEF GenerationInv
      <3> QED
        BY <3>1, <3>2, <3>3 DEF GenerationTypes
    <2> QED
      BY <2>1, <2>2 DEF runJob
  <1>2. ASSUME NEW k \in Jobs, k # j
        PROVE  JobInv(k)'
    BY <1>2, OtherJobs DEF GenerationInv, GenerationTypes, runJob, Goes, Patches, Change, Got
  <1>3. JobInv(j)'
    <2>1. GenerationTypes /\ JobInv(j) /\ run[j] \in Run /\ run[j].pc = "queued"
      BY DEF GenerationInv, GenerationTypes, runJob
    <2>2. /\ time' = time /\ record' = record /\ posted' = posted
          /\ listed' = listed /\ swept' = swept
      BY DEF runJob
    <2>3. /\ run'[j].born = run[j].born /\ run'[j].attempt = run[j].attempt
          /\ run'[j].read = run[j].read
          /\ \/ run'[j].pc = "ended"
             \/ /\ run'[j].pc = "patching"
                /\ run'[j].change = Change("processing", 0, "attempt")
      BY <2>1 DEF GenerationTypes, Run, runJob, Goes, Patches
    <2> QED
      BY <2>1, <2>2, <2>3
      DEF GenerationTypes, Run, Change, Final, WorkerAttempts, JobInv, Plausible, PostsCounted,
          RunsInTime, ListedIsFresh, FinalIsEnded
  <1> QED
    BY <1>1, <1>2, <1>3 DEF GenerationInv

\* patch reads a record that is plausible.
LEMMA PatchReadsKeeps ==
    ASSUME GenerationInv, NEW j \in Jobs, patchReads(j)
    PROVE  GenerationInv'
  <1>1. GenerationTypes'
    BY GenerationAssumption
    DEF GenerationInv, GenerationTypes, JobRecord, Run, RunPc, RunChange, JobState, Final,
        WorkerAttempts, JobInv, Plausible, PostsCounted, RunsInTime, ListedIsFresh,
        FinalIsEnded, patchReads, Got
  <1>2. ASSUME NEW k \in Jobs, k # j
        PROVE  JobInv(k)'
    BY <1>2, OtherJobs DEF GenerationInv, GenerationTypes, patchReads, Got
  <1>3. JobInv(j)'
    BY GenerationAssumption
    DEF GenerationInv, GenerationTypes, JobRecord, Run, RunPc, RunChange, JobState, Final,
        WorkerAttempts, JobInv, Plausible, PostsCounted, RunsInTime, ListedIsFresh,
        FinalIsEnded, patchReads, Got
  <1> QED
    BY <1>1, <1>2, <1>3 DEF GenerationInv

\* patch writes what it read, changed: no request is made up.
LEMMA PatchWritesKeeps ==
    ASSUME GenerationInv, NEW j \in Jobs, patchWrites(j)
    PROVE  GenerationInv'
  <1>1. GenerationTypes'
    BY GenerationAssumption
    DEF GenerationInv, GenerationTypes, JobRecord, Run, RunPc, RunChange, JobState, Final,
        WorkerAttempts, JobInv, Plausible, PostsCounted, RunsInTime, ListedIsFresh,
        FinalIsEnded, patchWrites, save, Patched
  <1>2. ASSUME NEW k \in Jobs, k # j
        PROVE  JobInv(k)'
    BY <1>2, OtherJobs DEF GenerationInv, GenerationTypes, patchWrites, save, Patched
  <1>3. JobInv(j)'
    BY GenerationAssumption
    DEF GenerationInv, GenerationTypes, JobRecord, Run, RunPc, RunChange, JobState, Final,
        WorkerAttempts, JobInv, Plausible, PostsCounted, RunsInTime, ListedIsFresh,
        FinalIsEnded, patchWrites, save, Patched
  <1> QED
    BY <1>1, <1>2, <1>3 DEF GenerationInv

\* The deadline ends the job wherever runJob is.
LEMMA OutOfTimeKeeps ==
    ASSUME GenerationInv, NEW j \in Jobs, outOfTime(j)
    PROVE  GenerationInv'
  <1>1. GenerationTypes'
    <2>1. Patches(j, "failed", run[j].attempt, "ended")
      BY DEF outOfTime
    <2>2. run[j].attempt \in 0..WorkerAttempts /\ "failed" \in JobState
      BY DEF GenerationInv, GenerationTypes, Run, JobState, Final
    <2>3. run' \in [Jobs -> Run]
      BY <2>1, <2>2, PatchesType DEF GenerationInv
    <2> QED
      BY <2>3 DEF GenerationInv, GenerationTypes, outOfTime
  <1>2. ASSUME NEW k \in Jobs, k # j
        PROVE  JobInv(k)'
    BY <1>2, OtherJobs
    DEF GenerationInv, GenerationTypes, outOfTime, Over, Deadline, Patches, Change
  <1>3. JobInv(j)'
    BY GenerationAssumption
    DEF GenerationInv, GenerationTypes, JobRecord, Run, RunPc, RunChange, JobState, Final,
        WorkerAttempts, JobInv, Plausible, PostsCounted, RunsInTime, ListedIsFresh,
        FinalIsEnded, outOfTime, Over, Deadline, Patches, Change
  <1> QED
    BY <1>1, <1>2, <1>3 DEF GenerationInv

\* A request to the worker is counted before it is made.
LEMMA GenerateKeeps ==
    ASSUME GenerationInv, NEW j \in Jobs, generate(j)
    PROVE  GenerationInv'
  <1>1. GenerationTypes'
    <2>1. posted[j] \in 0..WorkerAttempts /\ posted[j] < WorkerAttempts
      BY DEF GenerationInv, GenerationTypes, JobInv, PostsCounted, generate
    <2>2. posted' \in [Jobs -> 0..WorkerAttempts]
      BY <2>1 DEF GenerationInv, GenerationTypes, WorkerAttempts, generate
    <2>3. run' \in [Jobs -> Run]
      BY DEF GenerationInv, GenerationTypes, Run, RunPc, generate, Goes
    <2> QED
      BY <2>2, <2>3 DEF GenerationInv, GenerationTypes, generate
  <1>2. ASSUME NEW k \in Jobs, k # j
        PROVE  JobInv(k)'
    BY <1>2, OtherJobs DEF GenerationInv, GenerationTypes, generate, Goes, Over, Deadline
  <1>3. JobInv(j)'
    <2>1. /\ run'[j] = [run[j] EXCEPT !.pc = "generating"] /\ run[j].pc = "attempt"
          /\ posted'[j] = posted[j] + 1 /\ time < run[j].born + Wall
      BY GenerationAssumption
      DEF GenerationInv, GenerationTypes, Run, generate, Goes, Over, Deadline
    <2>2. /\ run'[j].pc = "generating" /\ run'[j].attempt = run[j].attempt
          /\ run'[j].born = run[j].born /\ run'[j].read = run[j].read
      BY <2>1 DEF GenerationInv, GenerationTypes, Run
    <2>3. UNCHANGED <<time, record, listed, swept>>
      BY DEF generate
    <2>4. posted[j] \in Nat /\ run[j].attempt \in Nat /\ run[j].born \in Nat /\ time \in Nat
      BY DEF GenerationInv, GenerationTypes, Run
    <2>5. Plausible(j, record[j])' /\ Plausible(j, listed[j])' /\ Plausible(j, run[j].read)'
      <3>1. /\ JobInv(j) /\ record[j] \in JobRecord \cup {NoRecord}
            /\ listed[j] \in JobRecord \cup {NoRecord}
            /\ run[j].read \in JobRecord \cup {NoRecord}
        BY DEF GenerationInv, GenerationTypes, Run
      <3>2. ASSUME NEW r \in JobRecord \cup {NoRecord}, Plausible(j, r)
            PROVE  r # NoRecord => r.since >= run'[j].born /\ r.retries <= posted'[j]
        BY <2>1, <2>2, <2>4, <3>2 DEF JobRecord, Plausible, WorkerAttempts
      <3> QED
        BY <2>2, <2>3, <3>1, <3>2 DEF JobInv, Plausible
    <2>6. PostsCounted(j)'
      BY <2>1, <2>2, <2>4 DEF GenerationInv, JobInv, PostsCounted
    <2>7. RunsInTime(j)' /\ ListedIsFresh(j)' /\ FinalIsEnded(j)'
      BY <2>1, <2>2, <2>3, <2>4, GenerationAssumption
      DEF GenerationInv, JobInv, RunsInTime, ListedIsFresh, FinalIsEnded
    <2> QED
      BY <2>5, <2>6, <2>7 DEF JobInv
  <1> QED
    BY <1>1, <1>2, <1>3 DEF GenerationInv

\* An attempt fails: the next one may ask again, if there is one.
LEMMA TryAgainKeeps ==
    ASSUME GenerationInv, NEW j \in Jobs, tryAgain(j)
    PROVE  GenerationInv'
  <1>1. GenerationTypes'
    BY GenerationAssumption
    DEF GenerationInv, GenerationTypes, JobRecord, Run, RunPc, RunChange, JobState, Final,
        WorkerAttempts, JobInv, Plausible, PostsCounted, RunsInTime, ListedIsFresh,
        FinalIsEnded, tryAgain, LastAttempt, Change
  <1>2. ASSUME NEW k \in Jobs, k # j
        PROVE  JobInv(k)'
    BY <1>2, OtherJobs DEF GenerationInv, GenerationTypes, tryAgain, LastAttempt, Change
  <1>3. JobInv(j)'
    BY GenerationAssumption
    DEF GenerationInv, GenerationTypes, JobRecord, Run, RunPc, RunChange, JobState, Final,
        WorkerAttempts, JobInv, Plausible, PostsCounted, RunsInTime, ListedIsFresh,
        FinalIsEnded, tryAgain, LastAttempt, Change
  <1> QED
    BY <1>1, <1>2, <1>3 DEF GenerationInv

\* The worker has answered with a job of its own, which is polled.
LEMMA WorkerJobKeeps ==
    ASSUME GenerationInv, NEW j \in Jobs, workerJob(j)
    PROVE  GenerationInv'
  <1>1. GenerationTypes'
    BY GenerationAssumption
    DEF GenerationInv, GenerationTypes, JobRecord, Run, RunPc, RunChange, JobState, Final,
        WorkerAttempts, JobInv, Plausible, PostsCounted, RunsInTime, ListedIsFresh,
        FinalIsEnded, workerJob, Goes
  <1>2. ASSUME NEW k \in Jobs, k # j
        PROVE  JobInv(k)'
    BY <1>2, OtherJobs DEF GenerationInv, GenerationTypes, workerJob, Goes
  <1>3. JobInv(j)'
    BY GenerationAssumption
    DEF GenerationInv, GenerationTypes, JobRecord, Run, RunPc, RunChange, JobState, Final,
        WorkerAttempts, JobInv, Plausible, PostsCounted, RunsInTime, ListedIsFresh,
        FinalIsEnded, workerJob, Goes
  <1> QED
    BY <1>1, <1>2, <1>3 DEF GenerationInv

\* The worker has no video: the attempt has failed.
LEMMA NoVideoKeeps ==
    ASSUME GenerationInv, NEW j \in Jobs, noVideo(j)
    PROVE  GenerationInv'
  <1>1. GenerationTypes'
    <2>1. Patches(j, "failed", run[j].attempt, "ended")
      BY DEF noVideo
    <2>2. run[j].attempt \in 0..WorkerAttempts /\ "failed" \in JobState
      BY DEF GenerationInv, GenerationTypes, Run, JobState, Final
    <2>3. run' \in [Jobs -> Run]
      BY <2>1, <2>2, PatchesType DEF GenerationInv
    <2> QED
      BY <2>3 DEF GenerationInv, GenerationTypes, noVideo
  <1>2. ASSUME NEW k \in Jobs, k # j
        PROVE  JobInv(k)'
    BY <1>2, OtherJobs DEF GenerationInv, GenerationTypes, noVideo, Patches, Change
  <1>3. JobInv(j)'
    BY GenerationAssumption
    DEF GenerationInv, GenerationTypes, JobRecord, Run, RunPc, RunChange, JobState, Final,
        WorkerAttempts, JobInv, Plausible, PostsCounted, RunsInTime, ListedIsFresh,
        FinalIsEnded, noVideo, Patches, Change
  <1> QED
    BY <1>1, <1>2, <1>3 DEF GenerationInv

\* The worker has the video.
LEMMA VideoKeeps ==
    ASSUME GenerationInv, NEW j \in Jobs, video(j)
    PROVE  GenerationInv'
  <1>1. GenerationTypes'
    <2>1. Patches(j, "hydrating", run[j].attempt, "hydrated")
      BY DEF video
    <2>2. run[j].attempt \in 0..WorkerAttempts /\ "hydrating" \in JobState
      BY DEF GenerationInv, GenerationTypes, Run, JobState, Final
    <2>3. run' \in [Jobs -> Run]
      BY <2>1, <2>2, PatchesType DEF GenerationInv
    <2> QED
      BY <2>3 DEF GenerationInv, GenerationTypes, video
  <1>2. ASSUME NEW k \in Jobs, k # j
        PROVE  JobInv(k)'
    BY <1>2, OtherJobs DEF GenerationInv, GenerationTypes, video, Patches, Change
  <1>3. JobInv(j)'
    BY GenerationAssumption
    DEF GenerationInv, GenerationTypes, JobRecord, Run, RunPc, RunChange, JobState, Final,
        WorkerAttempts, JobInv, Plausible, PostsCounted, RunsInTime, ListedIsFresh,
        FinalIsEnded, video, Patches, Change
  <1> QED
    BY <1>1, <1>2, <1>3 DEF GenerationInv

\* The job is completed and runJob over.
LEMMA CompleteKeeps ==
    ASSUME GenerationInv, NEW j \in Jobs, complete(j)
    PROVE  GenerationInv'
  <1>1. GenerationTypes'
    <2>1. Patches(j, "completed", run[j].attempt, "ended")
      BY DEF complete
    <2>2. run[j].attempt \in 0..WorkerAttempts /\ "completed" \in JobState
      BY DEF GenerationInv, GenerationTypes, Run, JobState, Final
    <2>3. run' \in [Jobs -> Run]
      BY <2>1, <2>2, PatchesType DEF GenerationInv
    <2> QED
      BY <2>3 DEF GenerationInv, GenerationTypes, complete
  <1>2. ASSUME NEW k \in Jobs, k # j
        PROVE  JobInv(k)'
    BY <1>2, OtherJobs DEF GenerationInv, GenerationTypes, complete, Patches, Change
  <1>3. JobInv(j)'
    BY GenerationAssumption
    DEF GenerationInv, GenerationTypes, JobRecord, Run, RunPc, RunChange, JobState, Final,
        WorkerAttempts, JobInv, Plausible, PostsCounted, RunsInTime, ListedIsFresh,
        FinalIsEnded, complete, Patches, Change
  <1> QED
    BY <1>1, <1>2, <1>3 DEF GenerationInv

\* The sweeper fails what it has found stale: its runJob is over.
LEMMA SweepKeeps ==
    ASSUME GenerationInv, NEW j \in Jobs, sweep(j)
    PROVE  GenerationInv'
  <1>0. /\ GenerationTypes /\ JobInv(j) /\ run[j] \in Run
        /\ listed[j] \in JobRecord /\ listed[j] # NoRecord
    BY DEF GenerationInv, GenerationTypes, sweep
  <1> DEFINE failed == [listed[j] EXCEPT !.state = "failed"]
  <1>1. /\ failed \in JobRecord /\ failed.state = "failed"
        /\ failed.since = listed[j].since /\ failed.retries = listed[j].retries
    BY <1>0 DEF JobRecord, JobState, Final
  <1>2. \/ /\ record' = [record EXCEPT ![j] = failed] /\ swept' = swept \cup {j}
           /\ IsStale(listed[j])
        \/ record' = record /\ swept' = swept
    BY DEF sweep
  <1>3. /\ listed' = [listed EXCEPT ![j] = NoRecord]
        /\ time' = time /\ run' = run /\ posted' = posted
    BY DEF sweep
  <1> HIDE DEF failed
  <1>4. GenerationTypes'
    BY <1>0, <1>1, <1>2, <1>3 DEF GenerationTypes
  <1>5. ASSUME NEW k \in Jobs, k # j
        PROVE  JobInv(k)'
    BY <1>0, <1>2, <1>3, <1>5, OtherJobs DEF GenerationInv, GenerationTypes
  <1>6. listed'[j] = NoRecord /\ record'[j] \in {record[j], failed}
    BY <1>0, <1>2, <1>3 DEF GenerationTypes
  <1>7. IsStale(listed[j]) => run[j].pc = "ended"
    BY <1>0, GenerationAssumption
    DEF IsStale, GenerationTypes, JobRecord, Run, RunPc, JobInv, Plausible, RunsInTime
  <1>8. Plausible(j, record[j])' /\ Plausible(j, listed[j])' /\ Plausible(j, run[j].read)'
    BY <1>0, <1>1, <1>3, <1>6 DEF JobInv, Plausible
  <1>9. PostsCounted(j)'
    BY <1>0, <1>3 DEF JobInv, PostsCounted
  <1>10. RunsInTime(j)'
    BY <1>0, <1>2, <1>3, <1>6 DEF JobInv, RunsInTime
  <1>11. ListedIsFresh(j)'
    BY <1>6 DEF ListedIsFresh
  <1>12. FinalIsEnded(j)'
    BY <1>0, <1>2, <1>3, <1>6, <1>7 DEF JobInv, FinalIsEnded, GenerationTypes
  <1> QED
    BY <1>4, <1>5, <1>8, <1>9, <1>10, <1>11, <1>12 DEF GenerationInv, JobInv

\* The write of the sweeper is lost.
LEMMA LostSweepKeeps ==
    ASSUME GenerationInv, NEW j \in Jobs, sweepIsLost(j)
    PROVE  GenerationInv'
  <1>1. GenerationTypes'
    BY GenerationAssumption
    DEF GenerationInv, GenerationTypes, JobRecord, Run, RunPc, RunChange, JobState, Final,
        WorkerAttempts, JobInv, Plausible, PostsCounted, RunsInTime, ListedIsFresh,
        FinalIsEnded, sweepIsLost
  <1>2. ASSUME NEW k \in Jobs, k # j
        PROVE  JobInv(k)'
    BY <1>2, OtherJobs DEF GenerationInv, GenerationTypes, sweepIsLost
  <1>3. JobInv(j)'
    BY GenerationAssumption
    DEF GenerationInv, GenerationTypes, JobRecord, Run, RunPc, RunChange, JobState, Final,
        WorkerAttempts, JobInv, Plausible, PostsCounted, RunsInTime, ListedIsFresh,
        FinalIsEnded, sweepIsLost
  <1> QED
    BY <1>1, <1>2, <1>3 DEF GenerationInv

\* Time passes, but not over the deadline of a job that is run.
LEMMA TimePassesKeeps ==
    ASSUME GenerationInv, TimePasses
    PROVE  GenerationInv'
  <1>1. GenerationTypes'
    BY DEF GenerationInv, GenerationTypes, TimePasses
  <1>2. ASSUME NEW k \in Jobs
        PROVE  JobInv(k)'
    <2>1. /\ time' = time + 1 /\ InTime(k) /\ listed[k] = NoRecord
          /\ UNCHANGED <<record, run, posted, listed, swept>>
      BY DEF TimePasses
    <2>2. JobInv(k) /\ time \in Nat /\ run[k].born \in Nat /\ Wall \in Nat /\ run[k].pc \in RunPc
      BY GenerationAssumption DEF GenerationInv, GenerationTypes, Run
    <2>3. RunsInTime(k)'
      BY <2>1, <2>2 DEF JobInv, RunsInTime, InTime, Deadline, RunPc
    <2> QED
      BY <2>1, <2>2, <2>3 DEF JobInv, Plausible, PostsCounted, ListedIsFresh, FinalIsEnded
  <1> QED
    BY <1>1, <1>2 DEF GenerationInv

\* The process is gone: whatever ran is over, the records stay.
LEMMA CrashKeeps ==
    ASSUME GenerationInv, Crash
    PROVE  GenerationInv'
  <1>1. ASSUME NEW k \in Jobs
        PROVE  run'[k] = IF run[k].pc = "new" THEN run[k] ELSE [run[k] EXCEPT !.pc = "ended"]
    BY DEF Crash
  <1>2. ASSUME NEW k \in Jobs
        PROVE  run'[k] \in Run
    <2>1. run[k] \in Run
      BY DEF GenerationInv, GenerationTypes
    <2>2. [run[k] EXCEPT !.pc = "ended"] \in Run
      BY <2>1 DEF Run, RunPc
    <2> QED
      BY <1>1, <2>1, <2>2
  <1>3. GenerationTypes'
    BY <1>2 DEF GenerationInv, GenerationTypes, Crash
  <1>4. ASSUME NEW k \in Jobs
        PROVE  JobInv(k)'
    <2>1. /\ UNCHANGED <<time, record, posted, swept>> /\ listed'[k] = NoRecord
      BY DEF Crash
    <2>2. run[k] \in Run /\ JobInv(k)
      BY DEF GenerationInv, GenerationTypes
    <2>3. CASE run[k].pc = "new"
      BY <1>1, <2>1, <2>2, <2>3 DEF JobInv, Plausible, PostsCounted, RunsInTime, ListedIsFresh,
                                   FinalIsEnded
    <2>4. CASE run[k].pc # "new"
      <3>1. /\ run'[k].pc = "ended" /\ run'[k].born = run[k].born
            /\ run'[k].attempt = run[k].attempt /\ run'[k].read = run[k].read
        BY <1>1, <2>2, <2>4 DEF Run
      <3> QED
        BY <2>1, <2>2, <3>1 DEF JobInv, Plausible, PostsCounted, RunsInTime, ListedIsFresh,
                                FinalIsEnded
    <2> QED
      BY <2>3, <2>4
  <1> QED
    BY <1>3, <1>4 DEF GenerationInv

\* The sweeper finds what is there.
LEMMA ListJobsKeeps ==
    ASSUME GenerationInv, listJobs
    PROVE  GenerationInv'
  <1>1. GenerationTypes'
    BY DEF GenerationInv, GenerationTypes, listJobs
  <1>2. ASSUME NEW k \in Jobs
        PROVE  JobInv(k)'
    BY DEF GenerationInv, JobInv, Plausible, PostsCounted, RunsInTime, ListedIsFresh,
           FinalIsEnded, listJobs
  <1> QED
    BY <1>1, <1>2 DEF GenerationInv

\* No job has come.
LEMMA GenerationInvInit == GenerationInit => GenerationInv
  <1> SUFFICES ASSUME GenerationInit
               PROVE  GenerationInv
    OBVIOUS
  <1> DEFINE new == [pc |-> "new", attempt |-> 0, born |-> 0, read |-> NoRecord,
                     change |-> NoChange]
  <1>1. NoChange \in RunChange
    BY DEF NoChange, Change, RunChange, JobState, WorkerAttempts
  <1>2. new \in Run
    BY <1>1 DEF Run, RunPc, WorkerAttempts
  <1>3. GenerationTypes
    BY <1>2 DEF GenerationInit, GenerationTypes, WorkerAttempts
  <1>4. ASSUME NEW k \in Jobs
        PROVE  JobInv(k)
    BY DEF GenerationInit, JobInv, Plausible, PostsCounted, RunsInTime, ListedIsFresh,
           FinalIsEnded
  <1> QED
    BY <1>3, <1>4 DEF GenerationInv

\* Every step of a generation, and a crash, keep the invariant.
LEMMA GenerationInvNext == GenerationInv /\ [GenerationNext]_generationVars => GenerationInv'
  <1> SUFFICES ASSUME GenerationInv, [GenerationNext]_generationVars
               PROVE  GenerationInv'
    OBVIOUS
  <1>1. CASE UNCHANGED generationVars
    BY <1>1 DEF generationVars, GenerationInv, GenerationTypes, JobInv, Plausible, PostsCounted,
                RunsInTime, ListedIsFresh, FinalIsEnded
  <1>2. CASE GenerationNext
    BY <1>2, TimePassesKeeps, CrashKeeps, ListJobsKeeps, EnqueueJobKeeps, RunJobKeeps,
       PatchReadsKeeps, PatchWritesKeeps, OutOfTimeKeeps, GenerateKeeps, TryAgainKeeps,
       WorkerJobKeeps, NoVideoKeeps, VideoKeeps, CompleteKeeps, SweepKeeps,
       LostSweepKeeps DEF GenerationNext
  <1> QED
    BY <1>1, <1>2

\* What the invariant says of the properties.
LEMMA GenerationInvMeans ==
    GenerationInv => GenerationTypeOK /\ WorkerAskedThrice /\ SweptWereAbandoned
  <1> SUFFICES ASSUME GenerationInv
               PROVE  GenerationTypeOK /\ WorkerAskedThrice /\ SweptWereAbandoned
    OBVIOUS
  <1>1. GenerationTypeOK
    BY DEF GenerationInv, GenerationTypes, JobRecord, GenerationTypeOK
  <1>2. WorkerAskedThrice
    BY DEF GenerationInv, GenerationTypes, JobInv, Plausible, WorkerAskedThrice, WorkerAttempts
  <1>3. SweptWereAbandoned
    BY DEF GenerationInv, GenerationTypes, JobInv, FinalIsEnded, SweptWereAbandoned
  <1> QED
    BY <1>1, <1>2, <1>3

\* A record that is final stays.
LEMMA FinalStep ==
    ASSUME GenerationInv, [GenerationNext]_generationVars, NEW j \in Jobs,
           record[j] # NoRecord, record[j].state \in Final
    PROVE  record'[j] = record[j]
  <1>1. run[j].pc = "ended"
    BY DEF GenerationInv, JobInv, FinalIsEnded
  <1>2. CASE UNCHANGED generationVars
    BY <1>2 DEF generationVars
  <1>3. CASE TimePasses \/ Crash \/ listJobs
    BY <1>3 DEF TimePasses, Crash, listJobs
  <1>4. ASSUME NEW k \in Jobs,
               runJob(k) \/ patchReads(k) \/ outOfTime(k) \/ generate(k) \/ tryAgain(k)
               \/ workerJob(k) \/ noVideo(k) \/ video(k) \/ complete(k) \/ sweepIsLost(k)
        PROVE  record' = record
    BY <1>4 DEF runJob, patchReads, outOfTime, generate, tryAgain, workerJob, noVideo, video,
                complete, sweepIsLost
  <1>5. ASSUME NEW k \in Jobs, enqueue(k) \/ patchWrites(k)
        PROVE  record'[j] = record[j]
    BY <1>1, <1>5 DEF GenerationInv, GenerationTypes, enqueue, patchWrites, save
  <1>6. ASSUME NEW k \in Jobs, sweep(k)
        PROVE  record'[j] = record[j]
    <2>1. CASE k = j /\ IsStale(listed[j])
      <3>1. /\ listed[j] # NoRecord /\ listed[j] \in JobRecord /\ time \in Nat
            /\ listed[j].state = "processing" /\ time - listed[j].since >= Stale
            /\ run[j].born \in Nat
        BY <2>1 DEF IsStale, GenerationInv, GenerationTypes, Run
      <3>2. listed[j].since >= run[j].born /\ listed[j].since \in Nat
        BY <3>1 DEF GenerationInv, JobInv, Plausible, JobRecord
      <3>3. time > run[j].born + Wall + 1
        BY <3>1, <3>2, GenerationAssumption
      <3>4. record[j] = listed[j]
        BY <3>1, <3>3 DEF GenerationInv, JobInv, ListedIsFresh
      <3> QED
        BY <3>1, <3>4 DEF Final
    <2>2. CASE ~(k = j /\ IsStale(listed[j]))
      BY <1>6, <2>2 DEF sweep, GenerationInv, GenerationTypes
    <2> QED
      BY <2>1, <2>2
  <1> QED
    BY <1>2, <1>3, <1>4, <1>5, <1>6 DEF GenerationNext

-----------------------------------------------------------------------------
(* The delivery of webhooks                                                *)

ItemStatus == {"absent", "pending", "delivered", "terminal_failed"}
Item == [status: ItemStatus, attemptCount: Nat, due: BOOLEAN, responseStatusCode: 0..599]

DeliveryTypes ==
    /\ items \in [Events -> Item]
    /\ order \in Seq(Events)
    /\ todo \in [Passes -> Seq(Events)]
    /\ saved \in [Events -> Item]
    /\ enabled \in BOOLEAN
    /\ deliveryExcused \subseteq Events

\* The item a pass is posting is still ready, and no other pass is posting it; with
\* webhooks disabled nothing is posted.
Posting ==
    /\ \A i \in Passes :
          todo[i] # <<>> /\ Head(todo[i]) \notin deliveryExcused => IsReady(items[Head(todo[i])])
    /\ \A i, j \in Passes :
          i # j /\ todo[i] # <<>> /\ todo[j] # <<>> /\ Head(todo[i]) = Head(todo[j])
              => Head(todo[i]) \in deliveryExcused
    /\ ~enabled => \A i \in Passes : todo[i] = <<>>

\* The items there are, in Redis too, are the finitely many that were enqueued.
Known == {e \in Events : items[e] # NoItem \/ saved[e] # NoItem}
FinitelyMany == IsFiniteSet(Known)

DeliveryInv == DeliveryTypes /\ Posting /\ FinitelyMany /\ RetryPolicy

-----------------------------------------------------------------------------
\* A set of positions that is not empty has a first one.
LEMMA FirstOf ==
    ASSUME NEW S, S # {}, S \subseteq Nat
    PROVE  Min(S) \in S /\ \A k \in S : Min(S) <= k
  <1> DEFINE R == OpToRel(<, Nat)
  <1>0. \A x, y \in Nat : y < x => <<y, x>> \in R
    BY DEF OpToRel
  <1>1. \E x \in S : \A y \in S : ~(<<y, x>> \in R)
    BY NatLessThanWellFounded, WFMin
  <1> HIDE DEF R
  <1>2. \E x \in S : \A y \in S : x <= y
    <2>1. PICK x \in S : \A y \in S : ~(<<y, x>> \in R)
      BY <1>1
    <2>2. ASSUME NEW y \in S
          PROVE  x <= y
      <3>1. x \in Nat /\ y \in Nat /\ ~(y < x)
        BY <1>0, <2>1
      <3> QED
        BY <3>1
    <2> QED
      BY <2>2
  <1> QED
    BY <1>2 DEF Min

\* dispatch goes on with an item that is ready.
LEMMA NextIsReady ==
    ASSUME NEW list \in Seq(Events), NEW its
    PROVE  /\ FromNextReady(list, its) \in Seq(Events)
           /\ FromNextReady(list, its) # <<>>
                 => /\ Head(FromNextReady(list, its)) \in Events
                    /\ IsReady(its[Head(FromNextReady(list, its))])
  <1> DEFINE ready == {k \in 1..Len(list) : IsReady(its[list[k]])}
             k == Min(ready)
  <1>0. FromNextReady(list, its) = IF ready = {} THEN <<>> ELSE SubSeq(list, k, Len(list))
    BY DEF FromNextReady
  <1>1. CASE ready = {}
    BY <1>0, <1>1
  <1>2. CASE ready # {}
    <2>0. ready \subseteq Nat
      OBVIOUS
    <2>1. k \in ready
      <3> HIDE DEF ready
      <3> QED
        BY <1>2, <2>0, FirstOf
    <2>2. k \in 1..Len(list) /\ IsReady(its[list[k]])
      BY <2>1
    <2> HIDE DEF k, ready
    <2>3. /\ SubSeq(list, k, Len(list)) \in Seq(Events)
          /\ Len(SubSeq(list, k, Len(list))) = Len(list) - k + 1
          /\ SubSeq(list, k, Len(list))[1] = list[k]
      BY <2>2, SubSeqProperties
    <2>4. Head(SubSeq(list, k, Len(list))) = list[k] /\ list[k] \in Events
      BY <2>2, <2>3
    <2> QED
      BY <1>0, <1>2, <2>2, <2>3, <2>4
  <1> QED
    BY <1>1, <1>2

\* What a pass does when it goes on, in a state where only it and its item change.
LEMMA GoOnPosts ==
    ASSUME DeliveryTypes, NEW i \in Passes, NEW list \in Seq(Events), NEW its,
           GoOn(i, list, its),
           \A a, b \in Passes \ {i} :
              a # b /\ todo[a] # <<>> /\ todo[b] # <<>> /\ Head(todo[a]) = Head(todo[b])
                  => Head(todo[a]) \in deliveryExcused,
           \A a \in Passes \ {i} :
              todo[a] # <<>> /\ Head(todo[a]) \notin deliveryExcused => IsReady(its[Head(todo[a])])
    PROVE  /\ todo' \in [Passes -> Seq(Events)]
           /\ deliveryExcused \subseteq deliveryExcused' /\ deliveryExcused' \subseteq Events
           /\ \A a \in Passes :
                 todo'[a] # <<>> /\ Head(todo'[a]) \notin deliveryExcused'
                     => IsReady(its[Head(todo'[a])])
           /\ \A a, b \in Passes :
                 a # b /\ todo'[a] # <<>> /\ todo'[b] # <<>> /\ Head(todo'[a]) = Head(todo'[b])
                     => Head(todo'[a]) \in deliveryExcused'
  <1> DEFINE rest  == FromNextReady(list, its)
             next  == IF rest = <<>> THEN {} ELSE {Head(rest)}
             other == {Head(todo[j]) : j \in {k \in Passes \ {i} : todo[k] # <<>>}}
  <1>1. /\ todo' = [todo EXCEPT ![i] = rest]
        /\ deliveryExcused' = deliveryExcused \cup (next \cap other)
    BY DEF GoOn
  <1>2. /\ rest \in Seq(Events)
        /\ rest # <<>> => Head(rest) \in Events /\ IsReady(its[Head(rest)])
    BY NextIsReady
  <1> HIDE DEF rest
  <1>3. todo' \in [Passes -> Seq(Events)]
    BY <1>1, <1>2 DEF DeliveryTypes
  <1>4. deliveryExcused \subseteq deliveryExcused' /\ deliveryExcused' \subseteq Events
    BY <1>1, <1>2 DEF DeliveryTypes
  <1>5. ASSUME NEW a \in Passes, todo'[a] # <<>>, Head(todo'[a]) \notin deliveryExcused'
        PROVE  IsReady(its[Head(todo'[a])])
    <2>1. CASE a = i
      BY <1>1, <1>2, <1>5, <2>1 DEF DeliveryTypes
    <2>2. CASE a # i
      BY <1>1, <1>4, <1>5, <2>2 DEF DeliveryTypes
    <2> QED
      BY <2>1, <2>2
  <1>6. ASSUME NEW a \in Passes, NEW b \in Passes, a # b, todo'[a] # <<>>, todo'[b] # <<>>,
               Head(todo'[a]) = Head(todo'[b])
        PROVE  Head(todo'[a]) \in deliveryExcused'
    <2>1. CASE a # i /\ b # i
      BY <1>1, <1>4, <1>6, <2>1 DEF DeliveryTypes
    <2>2. CASE a = i
      <3>1. todo'[a] = rest /\ todo'[b] = todo[b]
        BY <1>1, <1>6, <2>2 DEF DeliveryTypes
      <3>2. Head(rest) \in next /\ Head(rest) \in other
        BY <1>6, <2>2, <3>1
      <3> QED
        BY <1>1, <3>1, <3>2
    <2>3. CASE b = i
      <3>1. todo'[b] = rest /\ todo'[a] = todo[a]
        BY <1>1, <1>6, <2>3 DEF DeliveryTypes
      <3>2. Head(rest) \in next /\ Head(rest) \in other
        BY <1>6, <2>3, <3>1
      <3> QED
        BY <1>1, <1>6, <3>1, <3>2
    <2> QED
      BY <2>1, <2>2, <2>3
  <1> QED
    BY <1>3, <1>4, <1>5, <1>6

\* What an item may be, with its last answer, unless something is excused.
Policy(item) ==
    /\ item.status = "delivered" <=> item.responseStatusCode \in 200..299
    /\ item.status = "terminal_failed" =>
          item.responseStatusCode \in (300..499) \ {429} \/ item.attemptCount = MaxAttempts
    /\ item.status = "pending" =>
          item.responseStatusCode \in {429, NetworkError} \cup 500..599
          /\ item.attemptCount < MaxAttempts

\* The retry policy, said of one item at a time.
LEMMA PolicyIs == RetryPolicy <=> (enabled => \A e \in Events \ deliveryExcused : Policy(items[e]))
  BY DEF RetryPolicy, Policy

\* The ready items can be put in a sequence, as can what Redis has.
LEMMA SequencesOfKnown ==
    ASSUME DeliveryTypes, FinitelyMany, NEW S \in SUBSET Events,
           \A e \in S : items[e] # NoItem \/ saved[e] # NoItem,
           NEW s \in SetToSeqs(S)
    PROVE  s \in Seq(Events)
  <1>1. S \subseteq Known
    BY DEF Known
  <1>2. Cardinality(S) \in Nat
    BY <1>1, FS_Subset, FS_CardinalityType DEF FinitelyMany
  <1>3. s \in [1..Cardinality(S) -> S]
    BY DEF SetToSeqs
  <1> QED
    BY <1>2, <1>3

\* No item vanishes, and at most one comes.
LEMMA StaysFinite ==
    ASSUME FinitelyMany, NEW e \in Events, saved' = saved,
           \A x \in Events \ {e} : items'[x] = items[x],
           items'[e] # NoItem
    PROVE  FinitelyMany'
  <1>1. Known' \subseteq Known \cup {e}
    BY DEF Known
  <1>2. IsFiniteSet(Known \cup {e})
    BY FS_AddElement DEF FinitelyMany
  <1>3. IsFiniteSet(Known')
    BY <1>1, <1>2, FS_Subset
  <1> QED
    BY <1>3 DEF FinitelyMany

\* What the answer makes of an item.
LEMMA AnsweredFact ==
    ASSUME NEW item \in Item, NEW answer \in Answers
    PROVE  /\ Answered(item, answer) \in Item /\ Answered(item, answer) # NoItem
           /\ IsReady(item) /\ Policy(item) => Policy(Answered(item, answer))
  <1>1. answer = 0 \/ answer \in 200..599
    BY DeliveryAssumption DEF Answers, NetworkError
  <1> DEFINE outcome == IF answer = NetworkError THEN "retry" ELSE classifyForRetry(answer)
  <1>2. /\ outcome \in {"delivered", "terminal", "retry"}
        /\ outcome = "delivered" <=> answer \in 200..299
        /\ outcome = "terminal" <=> answer \in (300..499) \ {429}
    BY <1>1 DEF classifyForRetry, NetworkError
  <1>3. Answered(item, answer) =
          IF outcome = "delivered" THEN markDelivered(item, answer)
          ELSE IF outcome = "terminal" \/ Exhausted(item) THEN markTerminalFailure(item, answer)
          ELSE markPendingRetry(item, answer)
    BY DEF Answered
  <1> HIDE DEF outcome
  <1>4. item.attemptCount \in Nat /\ item.status \in ItemStatus /\ MaxAttempts \in Nat
    BY DeliveryAssumption DEF Item
  <1>5. PICK n \in Nat : n = item.attemptCount + 1
    BY <1>4
  <1>6. item.attemptCount + 1 \in Nat /\ answer \in 0..599
    BY <1>1, <1>4
  <1>a. item.attemptCount + 1 # 0
    BY <1>4
  <1>7. CASE outcome = "delivered"
    <2>1. Answered(item, answer) = markDelivered(item, answer)
      BY <1>3, <1>7
    <2>2. /\ Answered(item, answer) \in Item
          /\ Answered(item, answer).status = "delivered"
          /\ Answered(item, answer).responseStatusCode = answer
      <3> DEFINE changed == [item EXCEPT !.status = "delivered",
                                         !.responseStatusCode = answer, !.attemptCount = n]
      <3>1. markDelivered(item, answer) = changed
        BY <1>5 DEF markDelivered
      <3>2. /\ changed \in Item /\ changed.status = "delivered"
            /\ changed.responseStatusCode = answer /\ changed.attemptCount = n
        BY <1>6 DEF Item, ItemStatus
      <3> HIDE DEF changed
      <3> QED
        BY <1>5, <2>1, <3>1, <3>2
    <2> QED
      BY <1>2, <1>7, <2>2 DEF Policy, NoItem
  <1>8. CASE outcome # "delivered" /\ (outcome = "terminal" \/ Exhausted(item))
    <2>1. Answered(item, answer) = markTerminalFailure(item, answer)
      BY <1>3, <1>8
    <2>2. ASSUME IsReady(item), Policy(item)
          PROVE  outcome = "terminal" \/ item.attemptCount + 1 = MaxAttempts
      BY <1>4, <1>8, <2>2 DEF Exhausted, Policy, IsReady
    <2>3. /\ Answered(item, answer) \in Item
          /\ Answered(item, answer).status = "terminal_failed"
          /\ Answered(item, answer).responseStatusCode = answer
          /\ Answered(item, answer).attemptCount = item.attemptCount + 1
      <3> DEFINE changed == [item EXCEPT !.status = "terminal_failed",
                                         !.responseStatusCode = answer, !.attemptCount = n]
      <3>1. markTerminalFailure(item, answer) = changed
        BY <1>5 DEF markTerminalFailure
      <3>2. /\ changed \in Item /\ changed.status = "terminal_failed"
            /\ changed.responseStatusCode = answer /\ changed.attemptCount = n
        BY <1>6 DEF Item, ItemStatus
      <3> HIDE DEF changed
      <3> QED
        BY <1>5, <2>1, <3>1, <3>2
    <2> QED
      BY <1>2, <1>8, <2>2, <2>3 DEF Policy, NoItem
  <1>9. CASE outcome # "delivered" /\ outcome # "terminal" /\ ~Exhausted(item)
    <2>1. Answered(item, answer) = markPendingRetry(item, answer)
      BY <1>3, <1>9
    <2>2. item.attemptCount + 1 < MaxAttempts
      BY <1>4, <1>9 DEF Exhausted
    <2>3. answer \in {429, 0} \cup 500..599
      BY <1>1, <1>2, <1>9
    <2>4. /\ Answered(item, answer) \in Item
          /\ Answered(item, answer).status = item.status
          /\ Answered(item, answer).responseStatusCode = answer
          /\ Answered(item, answer).attemptCount = item.attemptCount + 1
      <3> DEFINE changed == [item EXCEPT !.due = FALSE, !.responseStatusCode = answer,
                                         !.attemptCount = n]
      <3>1. markPendingRetry(item, answer) = changed
        BY <1>5 DEF markPendingRetry
      <3>2. /\ changed \in Item /\ changed.status = item.status
            /\ changed.responseStatusCode = answer /\ changed.attemptCount = n
        BY <1>6 DEF Item
      <3> HIDE DEF changed
      <3> QED
        BY <1>5, <2>1, <3>1, <3>2
    <2> QED
      BY <1>a, <1>2, <1>9, <2>2, <2>3, <2>4 DEF Policy, NetworkError, IsReady, NoItem
  <1> QED
    BY <1>7, <1>8, <1>9

-----------------------------------------------------------------------------
\* The outbox is empty.
LEMMA DeliveryInvInit == DeliveryInit => DeliveryInv
  <1> SUFFICES ASSUME DeliveryInit
               PROVE  DeliveryInv
    OBVIOUS
  <1>1. NoItem \in Item
    BY DEF NoItem, Item, ItemStatus, NetworkError
  <1>2. DeliveryTypes
    BY <1>1 DEF DeliveryInit, DeliveryTypes
  <1>3. Posting
    BY DEF DeliveryInit, Posting
  <1>4. RetryPolicy
    <2>1. Policy(NoItem)
      BY DEF Policy, NoItem, NetworkError
    <2> QED
      BY <2>1, PolicyIs DEF DeliveryInit
  <1>5. FinitelyMany
    <2>1. Known = {}
      BY DEF DeliveryInit, Known
    <2> QED
      BY <2>1, FS_EmptySet DEF FinitelyMany
  <1> QED
    BY <1>2, <1>3, <1>4, <1>5 DEF DeliveryInv

\* A new event has an item that is not on its way.
LEMMA EnqueueKeeps ==
    ASSUME DeliveryInv, NEW e \in Events, Enqueue(e)
    PROVE  DeliveryInv'
  <1>1. NewItem \in Item /\ NewItem.status = "pending" /\ Policy(NewItem) /\ IsReady(NewItem)
    BY DeliveryAssumption DEF NewItem, Item, ItemStatus, NetworkError, Policy, IsReady
  <1>2. DeliveryTypes /\ Posting /\ FinitelyMany /\ RetryPolicy
    BY DEF DeliveryInv
  <1>3. items' = [items EXCEPT ![e] = NewItem] /\ order' = Append(order, e)
        /\ UNCHANGED <<todo, saved, enabled, deliveryExcused>>
    BY DEF Enqueue
  <1>4. DeliveryTypes'
    BY <1>1, <1>2, <1>3 DEF DeliveryTypes
  <1>5. Posting'
    BY <1>1, <1>2, <1>3 DEF DeliveryTypes, Posting
  <1>6. RetryPolicy'
    <2>1. enabled' => \A x \in Events \ deliveryExcused' : Policy(items'[x])
      BY <1>1, <1>2, <1>3, PolicyIs DEF DeliveryTypes
    <2> QED
      BY <2>1 DEF RetryPolicy, Policy
  <1>7. FinitelyMany'
    <2>1. NewItem # NoItem
      BY DEF NewItem, NoItem
    <2> QED
      BY <1>2, <1>3, <2>1, StaysFinite DEF DeliveryTypes
  <1> QED
    BY <1>4, <1>5, <1>6, <1>7 DEF DeliveryInv

\* An item is due again.
LEMMA DueKeeps ==
    ASSUME DeliveryInv, NEW e \in Events, Due(e)
    PROVE  DeliveryInv'
  <1>1. items[e] \in Item /\ items \in [Events -> Item]
    BY DEF DeliveryInv, DeliveryTypes
  <1> DEFINE new == [items[e] EXCEPT !.due = TRUE]
  <1>2. /\ new \in Item /\ new.status = items[e].status /\ new.due = TRUE
        /\ new.attemptCount = items[e].attemptCount
        /\ new.responseStatusCode = items[e].responseStatusCode
    BY <1>1 DEF Item
  <1>3. items' = [items EXCEPT ![e] = new] /\ items[e].status = "pending"
        /\ UNCHANGED <<order, todo, saved, enabled, deliveryExcused>>
    BY <1>1 DEF Due
  <1> HIDE DEF new
  <1>4. DeliveryTypes /\ Posting /\ FinitelyMany /\ RetryPolicy
    BY DEF DeliveryInv
  <1>5. DeliveryTypes'
    BY <1>2, <1>3, <1>4 DEF DeliveryTypes
  <1>6. Posting'
    BY <1>2, <1>3, <1>4 DEF DeliveryTypes, Posting, IsReady
  <1>7. RetryPolicy'
    <2>1. Policy(items[e]) => Policy(new)
      BY <1>2 DEF Policy
    <2>2. enabled' => \A x \in Events \ deliveryExcused' : Policy(items'[x])
      BY <1>1, <1>3, <1>4, <2>1, PolicyIs
    <2> QED
      BY <2>2 DEF RetryPolicy, Policy
  <1>8. FinitelyMany'
    <2>1. new # NoItem
      BY <1>2, <1>3 DEF NoItem
    <2> QED
      BY <1>1, <1>3, <1>4, <2>1, StaysFinite
  <1> QED
    BY <1>5, <1>6, <1>7, <1>8 DEF DeliveryInv

\* A pass begins.
LEMMA StartPassKeeps ==
    ASSUME DeliveryInv, NEW i \in Passes, StartPass(i)
    PROVE  DeliveryInv'
  <1>1. DeliveryTypes /\ Posting /\ FinitelyMany /\ RetryPolicy
    BY DEF DeliveryInv
  <1>2. PICK ready \in SetToSeqs({e \in Events : IsReady(items[e])}) : GoOn(i, ready, items)
    BY DEF StartPass
  <1>3. enabled /\ UNCHANGED <<items, order, saved, enabled>>
    BY DEF StartPass
  <1>a. ready \in Seq(Events)
    <2> DEFINE S == {e \in Events : IsReady(items[e])}
    <2>1. S \in SUBSET Events /\ \A e \in S : items[e] # NoItem
      BY DEF IsReady, NoItem
    <2> HIDE DEF S
    <2> QED
      BY <1>1, <1>2, <2>1, SequencesOfKnown DEF S
  <1>4. /\ todo' \in [Passes -> Seq(Events)]
        /\ deliveryExcused \subseteq deliveryExcused' /\ deliveryExcused' \subseteq Events
        /\ \A a \in Passes :
              todo'[a] # <<>> /\ Head(todo'[a]) \notin deliveryExcused'
                  => IsReady(items[Head(todo'[a])])
        /\ \A a, b \in Passes :
              a # b /\ todo'[a] # <<>> /\ todo'[b] # <<>> /\ Head(todo'[a]) = Head(todo'[b])
                  => Head(todo'[a]) \in deliveryExcused'
    BY <1>1, <1>2, <1>3, <1>a, GoOnPosts DEF Posting
  <1>5. DeliveryTypes'
    BY <1>1, <1>3, <1>4 DEF DeliveryTypes
  <1>6. Posting'
    BY <1>3, <1>4 DEF Posting
  <1>7. RetryPolicy'
    BY <1>1, <1>3, <1>4 DEF RetryPolicy
  <1>8. FinitelyMany'
    BY <1>1, <1>3 DEF FinitelyMany, Known
  <1> QED
    BY <1>5, <1>6, <1>7, <1>8 DEF DeliveryInv

\* A request is answered, and the pass goes on with the next item.
LEMMA AnswerKeeps ==
    ASSUME DeliveryInv, NEW i \in Passes, NEW answer \in Answers, Answer(i, answer)
    PROVE  /\ DeliveryInv'
           /\ deliveryExcused \subseteq deliveryExcused'
           /\ items' = [items EXCEPT ![Head(todo[i])] = Answered(@, answer)]
  <1> DEFINE e == Head(todo[i])
             new == Answered(items[e], answer)
  <1>1. DeliveryTypes /\ Posting /\ FinitelyMany /\ RetryPolicy
    BY DEF DeliveryInv
  <1>2. todo[i] # <<>> /\ todo[i] \in Seq(Events) /\ e \in Events /\ Tail(todo[i]) \in Seq(Events)
    BY <1>1 DEF Answer, DeliveryTypes
  <1>3. /\ items' = [items EXCEPT ![e] = new] /\ GoOn(i, Tail(todo[i]), items')
        /\ UNCHANGED <<order, saved, enabled>>
    BY DEF Answer
  <1>4. items[e] \in Item
    BY <1>1, <1>2 DEF DeliveryTypes
  <1>5. new \in Item /\ (IsReady(items[e]) /\ Policy(items[e]) => Policy(new)) /\ new # NoItem
    BY <1>4, AnsweredFact
  <1>6. e \notin deliveryExcused => IsReady(items[e])
    BY <1>1, <1>2 DEF Posting
  <1>7. ASSUME NEW a \in Passes \ {i}, todo[a] # <<>>, Head(todo[a]) \notin deliveryExcused
        PROVE  IsReady(items'[Head(todo[a])])
    <2>1. Head(todo[a]) # e
      BY <1>1, <1>2, <1>7 DEF Posting
    <2>2. Head(todo[a]) \in Events /\ IsReady(items[Head(todo[a])])
      BY <1>1, <1>7 DEF Posting, DeliveryTypes
    <2> HIDE DEF new, e
    <2> QED
      BY <1>1, <1>3, <2>1, <2>2 DEF DeliveryTypes
  <1> HIDE DEF new, e
  <1>8. \A a, b \in Passes \ {i} :
           a # b /\ todo[a] # <<>> /\ todo[b] # <<>> /\ Head(todo[a]) = Head(todo[b])
               => Head(todo[a]) \in deliveryExcused
    BY <1>1 DEF Posting
  <1>9. /\ todo' \in [Passes -> Seq(Events)]
        /\ deliveryExcused \subseteq deliveryExcused' /\ deliveryExcused' \subseteq Events
        /\ \A a \in Passes :
              todo'[a] # <<>> /\ Head(todo'[a]) \notin deliveryExcused'
                  => IsReady(items'[Head(todo'[a])])
        /\ \A a, b \in Passes :
              a # b /\ todo'[a] # <<>> /\ todo'[b] # <<>> /\ Head(todo'[a]) = Head(todo'[b])
                  => Head(todo'[a]) \in deliveryExcused'
    BY <1>1, <1>2, <1>3, <1>7, <1>8, GoOnPosts
  <1>10. DeliveryTypes'
    BY <1>1, <1>2, <1>3, <1>5, <1>9 DEF DeliveryTypes
  <1>11. Posting'
    BY <1>1, <1>2, <1>3, <1>9 DEF Posting
  <1>12. RetryPolicy'
    <2>1. enabled' => \A x \in Events \ deliveryExcused' : Policy(items'[x])
      BY <1>1, <1>2, <1>3, <1>5, <1>6, <1>9, PolicyIs DEF DeliveryTypes
    <2> QED
      BY <2>1 DEF RetryPolicy, Policy
  <1>13. FinitelyMany'
    BY <1>1, <1>2, <1>3, <1>5, StaysFinite DEF DeliveryTypes
  <1> QED
    BY <1>3, <1>9, <1>10, <1>11, <1>12, <1>13 DEF DeliveryInv, new, e

\* With webhooks disabled nothing is posted, and no policy is kept.
LEMMA DisabledKeeps ==
    ASSUME DeliveryInv, PassWhileDisabled
    PROVE  DeliveryInv'
  <1>1. DeliveryTypes /\ Posting /\ FinitelyMany /\ RetryPolicy
    BY DEF DeliveryInv
  <1>2. /\ ~enabled /\ UNCHANGED <<order, todo, saved, enabled, deliveryExcused>>
        /\ items' = [e \in Events |-> IF IsReady(items[e]) THEN markDelivered(items[e], 204)
                                      ELSE items[e]]
    BY DEF PassWhileDisabled
  <1>3. ASSUME NEW e \in Events
        PROVE  items'[e] \in Item
    <2>0. PICK item \in Item : item = items[e]
      BY <1>1 DEF DeliveryTypes
    <2>1. PICK n \in Nat : n = item.attemptCount + 1
      BY DEF Item
    <2> DEFINE changed == [item EXCEPT !.status = "delivered",
                                           !.responseStatusCode = 204, !.attemptCount = n]
    <2>2. markDelivered(item, 204) = changed
      BY <2>1 DEF markDelivered
    <2>3. changed \in Item
      <3>1. \A code \in 0..599 : [item EXCEPT !.status = "delivered",
                                  !.responseStatusCode = code, !.attemptCount = n] \in Item
        BY DEF Item, ItemStatus
      <3> QED
        BY <3>1
    <2> HIDE DEF changed
    <2> QED
      BY <1>2, <2>0, <2>2, <2>3
  <1>4. items' \in [Events -> Item]
    BY <1>2, <1>3
  <1>5. DeliveryTypes'
    BY <1>1, <1>2, <1>4 DEF DeliveryTypes
  <1>6. Posting'
    BY <1>1, <1>2 DEF Posting
  <1>7. RetryPolicy'
    BY <1>2 DEF RetryPolicy
  <1>8. FinitelyMany'
    <2>1. ASSUME NEW e \in Events
          PROVE  items'[e] # NoItem <=> items[e] # NoItem
      <3>1. CASE IsReady(items[e])
        <4>1. items[e] \in Item /\ items'[e] = markDelivered(items[e], 204)
          BY <1>1, <1>2, <3>1 DEF DeliveryTypes
        <4>2. items'[e].status = "delivered"
          BY <4>1 DEF markDelivered, Item
        <4> QED
          BY <3>1, <4>2 DEF NoItem, IsReady
      <3> QED
        BY <1>2, <3>1
    <2>2. Known' = Known /\ saved' = saved
      BY <1>2, <2>1 DEF Known
    <2> QED
      BY <1>1, <2>1, <2>2 DEF FinitelyMany
  <1> QED
    BY <1>5, <1>6, <1>7, <1>8 DEF DeliveryInv

\* Redis has the item.
LEMMA PersistKeeps ==
    ASSUME DeliveryInv, NEW e \in Events, Persist(e)
    PROVE  DeliveryInv'
  <1>1. DeliveryTypes'
    BY DEF DeliveryInv, DeliveryTypes, Persist, gateway
  <1>2. Posting' /\ RetryPolicy'
    BY DEF DeliveryInv, Posting, RetryPolicy, Persist, gateway
  <1>3. FinitelyMany'
    <2>1. Known' \subseteq Known
      BY DEF DeliveryInv, DeliveryTypes, Known, Persist, gateway
    <2> QED
      BY <2>1, FS_Subset DEF DeliveryInv, FinitelyMany
  <1> QED
    BY <1>1, <1>2, <1>3 DEF DeliveryInv

\* What Redis does not have is excused.
LEMMA RestartKeeps ==
    ASSUME DeliveryInv, Restart
    PROVE  DeliveryInv' /\ deliveryExcused \subseteq deliveryExcused'
           /\ \A e \in Events \ deliveryExcused' : items'[e] = items[e]
  <1>1. DeliveryTypes /\ Posting /\ FinitelyMany /\ RetryPolicy
    BY DEF DeliveryInv
  <1>0. PICK unread \in SUBSET {e \in Events : saved[e] # NoItem} :
            items' = [e \in Events |-> IF e \in unread THEN NoItem ELSE saved[e]]
    BY DEF Restart
  <1>2. /\ UNCHANGED <<saved, enabled>>
        /\ order' \in SetToSeqs({e \in Events : items'[e] # NoItem})
        /\ todo' = [i \in Passes |-> <<>>]
        /\ deliveryExcused' = deliveryExcused \cup InFlight
                                 \cup {e \in Events : items'[e] # items[e]}
    BY DEF Restart
  <1>b. /\ NoItem \in Item
        /\ \A e \in Events : items'[e] = saved[e] \/ items'[e] = NoItem
    BY <1>0 DEF NoItem, Item, ItemStatus, NetworkError
  <1>3. InFlight \subseteq Events
    BY <1>1 DEF InFlight, DeliveryTypes
  <1>4. order' \in Seq(Events)
    <2> DEFINE S == {e \in Events : items'[e] # NoItem}
    <2>1. S \in SUBSET Events /\ \A e \in S : items[e] # NoItem \/ saved[e] # NoItem
      BY <1>b
    <2> HIDE DEF S
    <2> QED
      BY <1>1, <1>2, <2>1, SequencesOfKnown DEF S
  <1>5. DeliveryTypes'
    <2>1. items' \in [Events -> Item]
      BY <1>0, <1>1, <1>b DEF DeliveryTypes
    <2> QED
      BY <1>1, <1>2, <1>3, <1>4, <2>1 DEF DeliveryTypes
  <1>6. Posting'
    BY <1>2 DEF Posting
  <1>7. \A e \in Events \ deliveryExcused' : items'[e] = items[e]
    BY <1>2
  <1>8. RetryPolicy'
    <2>1. enabled' => \A x \in Events \ deliveryExcused' : Policy(items'[x])
      BY <1>1, <1>2, <1>7, PolicyIs
    <2> QED
      BY <2>1 DEF RetryPolicy, Policy
  <1>9. FinitelyMany'
    <2>1. Known' \subseteq Known
      BY <1>2, <1>b DEF Known
    <2> QED
      BY <1>1, <2>1, FS_Subset DEF FinitelyMany
  <1> QED
    BY <1>2, <1>5, <1>6, <1>7, <1>8, <1>9 DEF DeliveryInv

\* Every step of the delivery, and a restart, keep the invariant.
LEMMA DeliveryInvNext == DeliveryInv /\ [DeliveryNext]_deliveryVars => DeliveryInv'
  <1> SUFFICES ASSUME DeliveryInv, [DeliveryNext]_deliveryVars
               PROVE  DeliveryInv'
    OBVIOUS
  <1>1. CASE UNCHANGED deliveryVars
    BY <1>1 DEF deliveryVars, gateway, DeliveryInv, DeliveryTypes, Posting,
                FinitelyMany, Known, RetryPolicy
  <1>2. CASE DeliveryNext
    BY <1>2, EnqueueKeeps, DueKeeps, PersistKeeps, StartPassKeeps, AnswerKeeps, DisabledKeeps,
       RestartKeeps DEF DeliveryNext
  <1> QED
    BY <1>1, <1>2

\* What has become of an item that is not excused stays.
LEMMA SettledStep ==
    ASSUME DeliveryInv, [DeliveryNext]_deliveryVars, NEW e \in Events,
           items[e].status \in {"delivered", "terminal_failed"}, e \notin deliveryExcused'
    PROVE  items'[e].status = items[e].status
  <1>1. CASE UNCHANGED deliveryVars \/ \E x \in Events : Persist(x)
    BY <1>1 DEF deliveryVars, gateway, Persist
  <1>2. ASSUME NEW x \in Events, Enqueue(x) \/ Due(x)
        PROVE  items'[e].status = items[e].status
    BY <1>2 DEF Enqueue, Due, DeliveryInv, DeliveryTypes
  <1>3. ASSUME NEW i \in Passes, StartPass(i)
        PROVE  items'[e].status = items[e].status
    BY <1>3 DEF StartPass
  <1>4. ASSUME NEW i \in Passes, NEW answer \in Answers, Answer(i, answer)
        PROVE  items'[e].status = items[e].status
    <2>1. /\ items' = [items EXCEPT ![Head(todo[i])] = Answered(@, answer)]
          /\ e \notin deliveryExcused /\ todo[i] # <<>>
      BY <1>4, AnswerKeeps DEF Answer
    <2>2. e # Head(todo[i])
      BY <2>1 DEF DeliveryInv, Posting, IsReady
    <2> QED
      BY <2>1, <2>2 DEF DeliveryInv, DeliveryTypes
  <1>5. ASSUME PassWhileDisabled
        PROVE  items'[e].status = items[e].status
    BY <1>5 DEF PassWhileDisabled, IsReady
  <1>6. ASSUME Restart
        PROVE  items'[e].status = items[e].status
    BY <1>6, RestartKeeps
  <1> QED
    BY <1>1, <1>2, <1>3, <1>4, <1>5, <1>6 DEF DeliveryNext

-----------------------------------------------------------------------------
(* The avatar of a meeting                                                 *)

Entry == [session: Sessions, phase: Phase \cup {"starting"}, avatarReady: BOOLEAN]
Kick == {"none", "provisioning", "creating", "created", "lost", "done"}
Question == [index: -1..MaxIndex, lastSource: Sources \cup {NoSource}]
AvatarExcuse == {"lost", "raced", "foreign", "again"}

AvatarTypes ==
    /\ entry \in [Meetings -> Entry \cup {NoEntry}]
    /\ kick \in [Meetings -> Kick]
    /\ pod \in [Meetings -> SUBSET Sessions] /\ ran \in [Meetings -> SUBSET Sessions]
    /\ deletes \subseteq Meetings \X Sessions
    /\ question \in [Meetings -> Question]
    /\ heard \in [Meetings -> SUBSET (Sources \cup {NoSource})]
    /\ avatarExcused \in [Meetings -> SUBSET AvatarExcuse]

\* The store knows the avatar of an open meeting, by this process's session unless a
\* callback of another one came; the flag says what the phase says.
EntryInOrder(m) ==
    /\ entry[m] # NoEntry <=> status[m] \in Open
    /\ entry[m].avatarReady <=> entry[m].phase = "ready"
    /\ entry[m] # NoEntry /\ "foreign" \notin avatarExcused[m] => entry[m].session = "own"

\* The pod runs this process's session once, after it was asked to; of an ended meeting it
\* will be deleted, or has been after it ran, unless something is excused.
PodInOrder(m) ==
    /\ status[m] = Absent => kick[m] = "none"
    /\ "own" \in pod[m] => kick[m] \in {"created", "done"}
    /\ status[m] \in Terminal /\ avatarExcused[m] \cap {"lost", "raced", "foreign"} = {}
           => \/ <<m, "own">> \in deletes
              \/ "own" \notin pod[m] /\ kick[m] \in {"created", "done"}

\* The question counts what it has heard.
QuestionInOrder(m) ==
    /\ IsFiniteSet(heard[m])
    /\ "again" \notin avatarExcused[m] => question[m].index + 1 = Cardinality(heard[m])

AvatarOf(m) == EntryInOrder(m) /\ PodInOrder(m) /\ QuestionInOrder(m)

AvatarInv == TypeOK /\ AvatarTypes /\ \A m \in Meetings : AvatarOf(m)

-----------------------------------------------------------------------------
\* What a stop or a fail does to the statuses: a meeting that has ended keeps its end.
LEMMA EndsStatus ==
    ASSUME TypeOK, NEW m \in Meetings, NEW to \in Finished \cup FailStatus, NEW why,
           RecordTransition(m, to, why)
    PROVE  /\ status' = [status EXCEPT ![m] = to] /\ status[m] \in MeetingStatus
           /\ to \in Terminal /\ to \notin Open
           /\ status[m] \in Terminal => to = status[m]
  <1>1. status[m] \in MeetingStatus /\ assertTransition(status[m], to)
    BY DEF TypeOK, RecordTransition, MeetingStatus
  <1>2. status[m] \in Terminal => to = status[m]
    BY <1>1, TerminalHasNoExit
  <1> QED
    BY <1>1, <1>2 DEF RecordTransition, Terminal, Finished, FailStatus, Open

\* A meeting that a step leaves alone stays as it should be.
LEMMA OtherMeetings ==
    ASSUME NEW k \in Meetings, AvatarOf(k), status'[k] = status[k], entry'[k] = entry[k],
           kick'[k] = kick[k], pod'[k] = pod[k], question'[k] = question[k],
           heard'[k] = heard[k], avatarExcused'[k] = avatarExcused[k],
           <<k, "own">> \in deletes => <<k, "own">> \in deletes'
    PROVE  AvatarOf(k)'
  BY DEF AvatarOf, EntryInOrder, PodInOrder, QuestionInOrder

\* What recordEvent makes of an entry.
LEMMA RecordedEntry ==
    ASSUME AvatarTypes, NEW m \in Meetings, NEW s, NEW phase \in Phase,
           EntryInOrder(m), entry' = recordEvent(m, s, phase)
    PROVE  /\ entry' \in [Meetings -> Entry \cup {NoEntry}]
           /\ \A k \in Meetings \ {m} : entry'[k] = entry[k]
           /\ entry'[m] = NoEntry <=> entry[m] = NoEntry
           /\ entry'[m].avatarReady <=> entry'[m].phase = "ready"
           /\ entry'[m].session = entry[m].session
  <1>1. CASE entry[m] = NoEntry
    BY <1>1 DEF AvatarTypes, EntryInOrder, recordEvent
  <1>2. CASE entry[m] # NoEntry
    <2> DEFINE new == [entry[m] EXCEPT !.phase = phase, !.avatarReady = phase = "ready"]
    <2>1. entry[m] \in Entry /\ entry \in [Meetings -> Entry \cup {NoEntry}]
      BY <1>2 DEF AvatarTypes
    <2>2. /\ new \in Entry /\ new.phase = phase /\ new.avatarReady = (phase = "ready")
          /\ new.session = entry[m].session /\ new.session \in Sessions
      BY <2>1 DEF Entry
    <2>3. new # NoEntry
      BY <2>2 DEF NoEntry, Sessions
    <2>4. entry' = [entry EXCEPT ![m] = new]
      BY <1>2, <2>1 DEF recordEvent
    <2> HIDE DEF new
    <2> QED
      BY <1>2, <2>1, <2>2, <2>3, <2>4
  <1> QED
    BY <1>1, <1>2

\* Where the question goes.
LEMMA AdvancedQuestion ==
    ASSUME AvatarTypes, NEW m \in Meetings, QuestionInOrder(m),
           NEW source \in Sources \cup {NoSource}, AdvanceQuestion(m, source)
    PROVE  /\ question' \in [Meetings -> Question]
           /\ heard' \in [Meetings -> SUBSET (Sources \cup {NoSource})]
           /\ avatarExcused' \in [Meetings -> SUBSET AvatarExcuse]
           /\ \A k \in Meetings \ {m} : /\ question'[k] = question[k] /\ heard'[k] = heard[k]
                                        /\ avatarExcused'[k] = avatarExcused[k]
           /\ avatarExcused[m] \subseteq avatarExcused'[m]
           /\ avatarExcused'[m] \subseteq avatarExcused[m] \cup {"again"}
           /\ QuestionInOrder(m)'
  <1>1. CASE AlreadyAdvanced(m, source)
    BY <1>1 DEF AvatarTypes, AdvanceQuestion, QuestionInOrder
  <1>2. CASE ~AlreadyAdvanced(m, source)
    <2> DEFINE new == [index |-> question[m].index + 1, lastSource |-> source]
    <2>1. /\ question' = [question EXCEPT ![m] = new] /\ question[m].index < MaxIndex
          /\ heard' = [heard EXCEPT ![m] = heard[m] \cup {source}]
          /\ avatarExcused' = [avatarExcused EXCEPT ![m] =
                IF Forgotten(m, source) THEN avatarExcused[m] \cup {"again"}
                ELSE avatarExcused[m]]
      BY <1>2 DEF AdvanceQuestion
    <2>2. question[m].index \in -1..MaxIndex /\ MaxIndex \in Nat
      BY SourceAssumption DEF AvatarTypes, Question
    <2>3. new \in Question /\ new.index = question[m].index + 1
      BY <2>1, <2>2 DEF Question
    <2> HIDE DEF new
    <2>4. question' \in [Meetings -> Question] /\ question'[m] = new
      BY <2>1, <2>3 DEF AvatarTypes
    <2>5. /\ heard' \in [Meetings -> SUBSET (Sources \cup {NoSource})]
          /\ heard'[m] = heard[m] \cup {source}
      BY <2>1 DEF AvatarTypes
    <2>6. /\ avatarExcused' \in [Meetings -> SUBSET AvatarExcuse]
          /\ avatarExcused'[m] = IF Forgotten(m, source) THEN avatarExcused[m] \cup {"again"}
                                 ELSE avatarExcused[m]
      BY <2>1 DEF AvatarTypes, AvatarExcuse
    <2>7. IsFiniteSet(heard[m]) /\ Cardinality(heard[m]) \in Nat
      BY FS_CardinalityType DEF QuestionInOrder
    <2>8. /\ IsFiniteSet(heard[m] \cup {source})
          /\ source \notin heard[m]
                 => Cardinality(heard[m] \cup {source}) = Cardinality(heard[m]) + 1
      BY <2>7, FS_AddElement
    <2>9. ASSUME "again" \notin avatarExcused'[m]
          PROVE  question'[m].index + 1 = Cardinality(heard'[m])
      <3>1. ~Forgotten(m, source) /\ "again" \notin avatarExcused[m]
        BY <2>6, <2>9
      <3>2. source \notin heard[m]
        BY <1>2, <3>1 DEF Forgotten, AlreadyAdvanced
      <3>3. question[m].index + 1 = Cardinality(heard[m])
        BY <3>1 DEF QuestionInOrder
      <3> QED
        BY <2>2, <2>3, <2>4, <2>5, <2>8, <3>2, <3>3
    <2>10. QuestionInOrder(m)'
      BY <2>5, <2>8, <2>9 DEF QuestionInOrder
    <2>11. \A k \in Meetings \ {m} : /\ question'[k] = question[k] /\ heard'[k] = heard[k]
                                     /\ avatarExcused'[k] = avatarExcused[k]
      BY <2>1 DEF AvatarTypes
    <2> QED
      BY <2>4, <2>5, <2>6, <2>10, <2>11
  <1> QED
    BY <1>1, <1>2

-----------------------------------------------------------------------------
\* Nothing is known of any avatar, and the pod may run sessions of an earlier process.
LEMMA AvatarInvInit == AvatarInit => AvatarInv
  <1> SUFFICES ASSUME AvatarInit
               PROVE  AvatarInv
    OBVIOUS
  <1>1. TypeOK
    BY TypeInit DEF AvatarInit
  <1>2. [index |-> -1, lastSource |-> NoSource] \in Question
    BY SourceAssumption DEF Question
  <1>3. AvatarTypes
    BY <1>2 DEF AvatarInit, AvatarTypes, Kick, Sessions, AvatarExcuse
  <1>4. ASSUME NEW m \in Meetings
        PROVE  AvatarOf(m)
    <2>1. /\ status[m] = Absent /\ entry[m] = NoEntry /\ pod[m] \in {{}, {"old"}}
          /\ question[m].index = -1 /\ heard[m] = {}
      BY DEF AvatarInit, Init
    <2>2. EntryInOrder(m)
      BY <2>1 DEF EntryInOrder, NoEntry, Absent, Open
    <2>3. PodInOrder(m)
      BY <2>1 DEF AvatarInit, PodInOrder, Absent, Terminal, FailStatus, Finished
    <2>4. QuestionInOrder(m)
      BY <2>1, FS_EmptySet DEF QuestionInOrder
    <2> QED
      BY <2>2, <2>3, <2>4 DEF AvatarOf
  <1> QED
    BY <1>1, <1>3, <1>4 DEF AvatarInv

\* A meeting starts, and its avatar is asked for.
LEMMA StartWithAvatarKeeps ==
    ASSUME AvatarInv, NEW m \in Meetings, StartWithAvatar(m)
    PROVE  AvatarTypes' /\ \A k \in Meetings : AvatarOf(k)'
  <1>1. /\ status[m] = Absent /\ status' = [status EXCEPT ![m] = "in_meeting"]
        /\ kick' = [kick EXCEPT ![m] = "provisioning"]
        /\ UNCHANGED <<pod, ran, deletes, question, heard, avatarExcused>>
    BY DEF StartWithAvatar, StartMeeting
  <1> DEFINE new == [session |-> "own", phase |-> "starting", avatarReady |-> FALSE]
  <1>2. /\ new \in Entry /\ new # NoEntry /\ new.session = "own" /\ ~new.avatarReady
        /\ new.phase # "ready"
    BY DEF Entry, NoEntry, Sessions
  <1>3. entry' = [entry EXCEPT ![m] = new]
    BY DEF StartWithAvatar, upsertStart
  <1> HIDE DEF new
  <1>4. AvatarTypes'
    BY <1>1, <1>2, <1>3 DEF AvatarInv, AvatarTypes, Kick
  <1>5. ASSUME NEW k \in Meetings, k # m
        PROVE  AvatarOf(k)'
    BY <1>1, <1>3, <1>5, OtherMeetings DEF AvatarInv, AvatarTypes, TypeOK
  <1>6. AvatarOf(m)'
    <2>1. status'[m] = "in_meeting" /\ entry'[m] = new /\ entry[m] = NoEntry
      BY <1>1, <1>3 DEF AvatarInv, AvatarTypes, TypeOK, AvatarOf, EntryInOrder, Absent, Open
    <2>2. EntryInOrder(m)'
      BY <1>2, <2>1 DEF EntryInOrder, Open
    <2>3. "own" \notin pod[m]
      BY <1>1 DEF AvatarInv, AvatarOf, PodInOrder
    <2>4. PodInOrder(m)'
      BY <1>1, <2>1, <2>3 DEF PodInOrder, Absent, Terminal, FailStatus, Finished
    <2>5. QuestionInOrder(m)'
      BY <1>1 DEF AvatarInv, AvatarOf, QuestionInOrder
    <2> QED
      BY <2>2, <2>4, <2>5 DEF AvatarOf
  <1> QED
    BY <1>4, <1>5, <1>6

\* A meeting ends, or is ended again: its avatar is forgotten, and deleted on the pod.
LEMMA TeardownKeeps ==
    ASSUME AvatarInv, NEW m \in Meetings, NEW to \in Finished \cup FailStatus, NEW why,
           RecordTransition(m, to, why), Teardown(m)
    PROVE  AvatarTypes' /\ \A k \in Meetings : AvatarOf(k)'
  <1>1. TypeOK /\ AvatarTypes /\ AvatarOf(m)
    BY DEF AvatarInv
  <1>2. /\ status' = [status EXCEPT ![m] = to] /\ status[m] \in MeetingStatus
        /\ to \in Terminal /\ to \notin Open
        /\ status[m] \in Terminal => to = status[m]
    BY <1>1, EndsStatus
  <1>3. /\ entry' = [entry EXCEPT ![m] = NoEntry]
        /\ deletes' = deletes \cup (IF entry[m] = NoEntry THEN {} ELSE {<<m, entry[m].session>>})
        /\ UNCHANGED <<kick, pod, ran, question, heard, avatarExcused>>
    BY DEF Teardown
  <1>4. entry[m] # NoEntry => entry[m] \in Entry /\ entry[m].session \in Sessions
    BY <1>1 DEF AvatarTypes, Entry
  <1>5. AvatarTypes'
    BY <1>1, <1>3, <1>4 DEF AvatarTypes
  <1>6. ASSUME NEW k \in Meetings, k # m
        PROVE  AvatarOf(k)'
    BY <1>1, <1>2, <1>3, <1>6, OtherMeetings DEF AvatarInv, AvatarTypes, TypeOK
  <1>7. AvatarOf(m)'
    <2>1. status'[m] = to /\ entry'[m] = NoEntry
      BY <1>1, <1>2, <1>3 DEF AvatarTypes, TypeOK
    <2>2. EntryInOrder(m)'
      BY <1>2, <2>1 DEF EntryInOrder, NoEntry
    <2>3. PodInOrder(m)'
      <3>1. CASE status[m] \in Open
        <4>1. entry[m] # NoEntry /\ (entry[m].session = "own" \/ "foreign" \in avatarExcused[m])
          BY <1>1, <3>1 DEF AvatarOf, EntryInOrder
        <4>2. <<m, "own">> \in deletes' \/ "foreign" \in avatarExcused'[m]
          BY <1>3, <4>1
        <4> QED
          BY <1>1, <1>2, <1>3, <2>1, <4>2 DEF AvatarOf, PodInOrder, MeetingStatus, Absent, Open,
             Terminal, FailStatus, Finished
      <3>2. CASE status[m] \in Terminal
        <4>1. <<m, "own">> \in deletes => <<m, "own">> \in deletes'
          BY <1>3
        <4> QED
          BY <1>1, <1>2, <1>3, <2>1, <3>2, <4>1 DEF AvatarOf, PodInOrder
      <3> QED
        BY <1>2, <3>1, <3>2 DEF MeetingStatus
    <2>4. QuestionInOrder(m)'
      BY <1>1, <1>3 DEF AvatarOf, QuestionInOrder
    <2> QED
      BY <2>2, <2>3, <2>4 DEF AvatarOf
  <1> QED
    BY <1>5, <1>6, <1>7

\* kickoffAvatar goes on, and the pod creates the session.
LEMMA KickoffKeeps ==
    ASSUME AvatarInv, NEW m \in Meetings,
           Provisioned(m) \/ SessionCreated(m) \/ KickoffAccepted(m) \/ NeverExecuted(m)
    PROVE  AvatarTypes' /\ \A k \in Meetings : AvatarOf(k)'
  <1>1. TypeOK /\ AvatarTypes /\ AvatarOf(m)
    BY DEF AvatarInv
  <1>2. /\ status' = status /\ entry' = entry /\ deletes' = deletes /\ question' = question
        /\ heard' = heard /\ avatarExcused' = avatarExcused
    BY DEF Provisioned, SessionCreated, KickoffAccepted, NeverExecuted, vars
  <1>3. PICK next \in Kick : kick' = [kick EXCEPT ![m] = next]
    <2>1. CASE Provisioned(m)
      BY <2>1 DEF Provisioned, Kick
    <2>2. CASE SessionCreated(m)
      <3>1. kick' = [kick EXCEPT ![m] = IF kick[m] = "creating" THEN "created" ELSE "done"]
        BY <2>2 DEF SessionCreated
      <3> QED
        BY <3>1 DEF Kick
    <2>3. CASE KickoffAccepted(m) \/ NeverExecuted(m)
      BY <2>3 DEF KickoffAccepted, NeverExecuted, Kick
    <2> QED
      BY <2>1, <2>2, <2>3
  <1>4. /\ pod' \in [Meetings -> SUBSET Sessions] /\ ran' \in [Meetings -> SUBSET Sessions]
        /\ \A k \in Meetings \ {m} : pod'[k] = pod[k]
    BY <1>1 DEF AvatarTypes, Sessions, Provisioned, SessionCreated, KickoffAccepted, NeverExecuted
  <1>5. AvatarTypes'
    BY <1>1, <1>2, <1>3, <1>4 DEF AvatarTypes
  <1>6. ASSUME NEW k \in Meetings, k # m
        PROVE  AvatarOf(k)'
    BY <1>1, <1>2, <1>3, <1>4, <1>6, OtherMeetings DEF AvatarInv, AvatarTypes
  <1>7. PodInOrder(m)'
    <2>1. kick[m] # "none" /\ status[m] # Absent
      BY <1>1 DEF AvatarOf, PodInOrder, Provisioned, SessionCreated, KickoffAccepted,
                  NeverExecuted
    <2>2. CASE Provisioned(m)
      BY <1>1, <1>2, <2>1, <2>2 DEF AvatarOf, AvatarTypes, PodInOrder, Provisioned
    <2>3. CASE SessionCreated(m)
      BY <1>1, <1>2, <2>1, <2>3 DEF AvatarOf, AvatarTypes, PodInOrder, SessionCreated
    <2>4. CASE KickoffAccepted(m)
      BY <1>1, <1>2, <2>1, <2>4 DEF AvatarOf, AvatarTypes, PodInOrder, KickoffAccepted
    <2>5. CASE NeverExecuted(m)
      BY <1>1, <1>2, <2>1, <2>5 DEF AvatarOf, AvatarTypes, PodInOrder, NeverExecuted
    <2> QED
      BY <2>2, <2>3, <2>4, <2>5
  <1>8. EntryInOrder(m)' /\ QuestionInOrder(m)'
    BY <1>1, <1>2 DEF AvatarOf, EntryInOrder, QuestionInOrder
  <1> QED
    BY <1>5, <1>6, <1>7, <1>8 DEF AvatarOf

\* The kickoff fails: the entry says so, if it is still there.
LEMMA KickoffFailedKeeps ==
    ASSUME AvatarInv, NEW m \in Meetings, KickoffFailed(m)
    PROVE  AvatarTypes' /\ \A k \in Meetings : AvatarOf(k)'
  <1>1. TypeOK /\ AvatarTypes /\ AvatarOf(m)
    BY DEF AvatarInv
  <1>2. /\ entry' = recordEvent(m, "own", "failed") /\ "failed" \in Phase
        /\ status' = status /\ pod' = pod /\ ran' = ran /\ deletes' = deletes
        /\ question' = question /\ heard' = heard /\ avatarExcused' = avatarExcused
    BY DEF KickoffFailed, Phase, vars
  <1>3. /\ entry' \in [Meetings -> Entry \cup {NoEntry}]
        /\ \A k \in Meetings \ {m} : entry'[k] = entry[k]
        /\ entry'[m] = NoEntry <=> entry[m] = NoEntry
        /\ entry'[m].avatarReady <=> entry'[m].phase = "ready"
        /\ entry'[m].session = entry[m].session
    BY <1>1, <1>2, RecordedEntry DEF AvatarOf
  <1>4. /\ kick[m] \in {"provisioning", "creating", "created"}
        /\ \/ kick' = [kick EXCEPT ![m] = "done"]
           \/ kick[m] = "creating" /\ kick' = [kick EXCEPT ![m] = "lost"]
    BY DEF KickoffFailed
  <1>5. AvatarTypes'
    BY <1>1, <1>2, <1>3, <1>4 DEF AvatarTypes, Kick
  <1>6. ASSUME NEW k \in Meetings, k # m
        PROVE  AvatarOf(k)'
    BY <1>1, <1>2, <1>3, <1>4, <1>6, OtherMeetings DEF AvatarInv, AvatarTypes
  <1>7. PodInOrder(m)'
    BY <1>1, <1>2, <1>4 DEF AvatarOf, AvatarTypes, PodInOrder
  <1>8. EntryInOrder(m)'
    BY <1>1, <1>2, <1>3 DEF AvatarOf, EntryInOrder
  <1>9. QuestionInOrder(m)'
    BY <1>1, <1>2 DEF AvatarOf, QuestionInOrder
  <1> QED
    BY <1>5, <1>6, <1>7, <1>8, <1>9 DEF AvatarOf

\* A DELETE is executed, or lost.
LEMMA DeleteKeeps ==
    ASSUME AvatarInv, NEW m \in Meetings, NEW s \in Sessions, Deleted(m, s) \/ DeleteLost(m, s)
    PROVE  AvatarTypes' /\ \A k \in Meetings : AvatarOf(k)'
  <1>1. TypeOK /\ AvatarTypes /\ AvatarOf(m)
    BY DEF AvatarInv
  <1>2. /\ status' = status /\ entry' = entry /\ kick' = kick /\ ran' = ran
        /\ question' = question /\ heard' = heard /\ deletes' = deletes \ {<<m, s>>}
    BY DEF Deleted, DeleteLost, vars
  <1>3. /\ pod' \in [Meetings -> SUBSET Sessions]
        /\ avatarExcused' \in [Meetings -> SUBSET AvatarExcuse]
        /\ \A k \in Meetings \ {m} : pod'[k] = pod[k] /\ avatarExcused'[k] = avatarExcused[k]
    BY <1>1 DEF AvatarTypes, AvatarExcuse, Deleted, DeleteLost
  <1>4. AvatarTypes'
    BY <1>1, <1>2, <1>3 DEF AvatarTypes
  <1>5. ASSUME NEW k \in Meetings, k # m
        PROVE  AvatarOf(k)'
    BY <1>1, <1>2, <1>3, <1>5, OtherMeetings DEF AvatarInv
  <1>6. /\ avatarExcused[m] \subseteq avatarExcused'[m]
        /\ avatarExcused'[m] \subseteq avatarExcused[m] \cup {"raced", "lost"}
    BY <1>1 DEF AvatarTypes, Deleted, DeleteLost
  <1>7. PodInOrder(m)'
    <2>1. CASE Deleted(m, s)
      <3>1. /\ pod'[m] = pod[m] \ {s}
            /\ avatarExcused'[m] = IF s \in pod[m] THEN avatarExcused[m]
                                   ELSE avatarExcused[m] \cup {"raced"}
        BY <1>1, <2>1 DEF AvatarTypes, Deleted
      <3>2. s # "own" => (<<m, "own">> \in deletes' <=> <<m, "own">> \in deletes)
        BY <1>2
      <3> QED
        BY <1>1, <1>2, <3>1, <3>2 DEF AvatarOf, PodInOrder
    <2>2. CASE DeleteLost(m, s)
      <3>1. pod' = pod /\ "lost" \in avatarExcused'[m]
        BY <1>1, <2>2 DEF AvatarTypes, DeleteLost
      <3> QED
        BY <1>1, <1>2, <3>1 DEF AvatarOf, PodInOrder
    <2> QED
      BY <2>1, <2>2
  <1>8. EntryInOrder(m)' /\ QuestionInOrder(m)'
    BY <1>1, <1>2, <1>6 DEF AvatarOf, EntryInOrder, QuestionInOrder
  <1> QED
    BY <1>4, <1>5, <1>7, <1>8 DEF AvatarOf

\* A callback of the pod, which may advance the question.
LEMMA PodEventKeeps ==
    ASSUME AvatarInv, NEW m \in Meetings, NEW s \in Sessions, NEW phase \in Phase,
           PodEvent(m, s, phase)
    PROVE  AvatarTypes' /\ \A k \in Meetings : AvatarOf(k)'
  <1>1. TypeOK /\ AvatarTypes /\ AvatarOf(m)
    BY DEF AvatarInv
  <1>2. /\ entry' = recordEvent(m, s, phase)
        /\ status' = status /\ kick' = kick /\ pod' = pod /\ ran' = ran /\ deletes' = deletes
    BY DEF PodEvent, vars
  <1>3. /\ entry' \in [Meetings -> Entry \cup {NoEntry}]
        /\ \A k \in Meetings \ {m} : entry'[k] = entry[k]
        /\ entry'[m] = NoEntry <=> entry[m] = NoEntry
        /\ entry'[m].avatarReady <=> entry'[m].phase = "ready"
        /\ entry'[m].session = entry[m].session
    BY <1>1, <1>2, RecordedEntry DEF AvatarOf
  <1>4. /\ question' \in [Meetings -> Question]
        /\ heard' \in [Meetings -> SUBSET (Sources \cup {NoSource})]
        /\ avatarExcused' \in [Meetings -> SUBSET AvatarExcuse]
        /\ \A k \in Meetings \ {m} : /\ question'[k] = question[k] /\ heard'[k] = heard[k]
                                     /\ avatarExcused'[k] = avatarExcused[k]
        /\ avatarExcused[m] \subseteq avatarExcused'[m]
        /\ avatarExcused'[m] \subseteq avatarExcused[m] \cup {"again"}
        /\ QuestionInOrder(m)'
    <2>1. CASE \E source \in Sources \cup {NoSource} : AdvanceQuestion(m, source)
      BY <1>1, <2>1, AdvancedQuestion DEF AvatarOf
    <2>2. CASE UNCHANGED <<question, heard, avatarExcused>>
      BY <1>1, <2>2 DEF AvatarTypes, AvatarOf, QuestionInOrder
    <2> QED
      BY <2>1, <2>2 DEF PodEvent
  <1>5. AvatarTypes'
    BY <1>1, <1>2, <1>3, <1>4 DEF AvatarTypes
  <1>6. ASSUME NEW k \in Meetings, k # m
        PROVE  AvatarOf(k)'
    BY <1>1, <1>2, <1>3, <1>4, <1>6, OtherMeetings DEF AvatarInv
  <1>7. EntryInOrder(m)'
    BY <1>1, <1>2, <1>3, <1>4 DEF AvatarOf, EntryInOrder
  <1>8. PodInOrder(m)'
    BY <1>1, <1>2, <1>4 DEF AvatarOf, PodInOrder
  <1> QED
    BY <1>4, <1>5, <1>6, <1>7, <1>8 DEF AvatarOf

\* A patch, which names the session it came from.
LEMMA PodTelemetryKeeps ==
    ASSUME AvatarInv, NEW m \in Meetings, NEW s \in Sessions, PodTelemetry(m, s)
    PROVE  AvatarTypes' /\ \A k \in Meetings : AvatarOf(k)'
  <1>1. TypeOK /\ AvatarTypes /\ AvatarOf(m)
    BY DEF AvatarInv
  <1>2. /\ entry' = patch(m, s)
        /\ avatarExcused' = [avatarExcused EXCEPT ![m] =
              IF entry[m] # NoEntry /\ s # "own" THEN avatarExcused[m] \cup {"foreign"}
              ELSE avatarExcused[m]]
        /\ status' = status /\ kick' = kick /\ pod' = pod /\ ran' = ran /\ deletes' = deletes
        /\ question' = question /\ heard' = heard
    BY DEF PodTelemetry, vars
  <1>3. /\ avatarExcused' \in [Meetings -> SUBSET AvatarExcuse]
        /\ \A k \in Meetings \ {m} : avatarExcused'[k] = avatarExcused[k]
        /\ avatarExcused'[m] = IF entry[m] # NoEntry /\ s # "own"
                               THEN avatarExcused[m] \cup {"foreign"} ELSE avatarExcused[m]
    BY <1>1, <1>2 DEF AvatarTypes, AvatarExcuse
  <1>4. /\ entry' \in [Meetings -> Entry \cup {NoEntry}]
        /\ \A k \in Meetings \ {m} : entry'[k] = entry[k]
        /\ entry'[m] = NoEntry <=> entry[m] = NoEntry
        /\ entry'[m].avatarReady <=> entry'[m].phase = "ready"
        /\ entry'[m] # NoEntry => entry'[m].session = s
    <2>1. CASE entry[m] = NoEntry
      BY <1>1, <1>2, <2>1 DEF AvatarOf, EntryInOrder, AvatarTypes, patch
    <2>2. CASE entry[m] # NoEntry
      <3> DEFINE new == [entry[m] EXCEPT !.session = s]
      <3>1. entry[m] \in Entry /\ entry \in [Meetings -> Entry \cup {NoEntry}]
        BY <1>1, <2>2 DEF AvatarTypes
      <3>2. /\ new \in Entry /\ new.session = s /\ new.phase = entry[m].phase
            /\ new.avatarReady = entry[m].avatarReady
        BY <3>1 DEF Entry
      <3>3. new # NoEntry
        BY <3>2 DEF NoEntry, Sessions
      <3>4. entry' = [entry EXCEPT ![m] = new]
        BY <1>2, <2>2, <3>1 DEF patch
      <3> HIDE DEF new
      <3> QED
        BY <1>1, <2>2, <3>1, <3>2, <3>3, <3>4 DEF AvatarOf, EntryInOrder
    <2> QED
      BY <2>1, <2>2
  <1>5. AvatarTypes'
    BY <1>1, <1>2, <1>3, <1>4 DEF AvatarTypes
  <1>6. ASSUME NEW k \in Meetings, k # m
        PROVE  AvatarOf(k)'
    BY <1>1, <1>2, <1>3, <1>4, <1>6, OtherMeetings DEF AvatarInv
  <1>7. EntryInOrder(m)'
    BY <1>1, <1>2, <1>3, <1>4 DEF AvatarOf, EntryInOrder
  <1>8. PodInOrder(m)' /\ QuestionInOrder(m)'
    BY <1>1, <1>2, <1>3 DEF AvatarOf, PodInOrder, QuestionInOrder
  <1> QED
    BY <1>5, <1>6, <1>7, <1>8 DEF AvatarOf

\* The operator asks for the next question.
LEMMA ForceNextQuestionKeeps ==
    ASSUME AvatarInv, NEW m \in Meetings, NEW command \in Sources, ForceNextQuestion(m, command)
    PROVE  AvatarTypes' /\ \A k \in Meetings : AvatarOf(k)'
  <1>1. TypeOK /\ AvatarTypes /\ AvatarOf(m)
    BY DEF AvatarInv
  <1>2. /\ AdvanceQuestion(m, command) /\ entry' = entry
        /\ status' = status /\ kick' = kick /\ pod' = pod /\ ran' = ran /\ deletes' = deletes
    BY DEF ForceNextQuestion, vars
  <1>3. /\ question' \in [Meetings -> Question]
        /\ heard' \in [Meetings -> SUBSET (Sources \cup {NoSource})]
        /\ avatarExcused' \in [Meetings -> SUBSET AvatarExcuse]
        /\ \A k \in Meetings \ {m} : /\ question'[k] = question[k] /\ heard'[k] = heard[k]
                                     /\ avatarExcused'[k] = avatarExcused[k]
        /\ avatarExcused[m] \subseteq avatarExcused'[m]
        /\ avatarExcused'[m] \subseteq avatarExcused[m] \cup {"again"}
        /\ QuestionInOrder(m)'
    BY <1>1, <1>2, AdvancedQuestion DEF AvatarOf
  <1>4. AvatarTypes'
    BY <1>1, <1>2, <1>3 DEF AvatarTypes
  <1>5. ASSUME NEW k \in Meetings, k # m
        PROVE  AvatarOf(k)'
    BY <1>1, <1>2, <1>3, <1>5, OtherMeetings DEF AvatarInv
  <1>6. EntryInOrder(m)' /\ PodInOrder(m)'
    BY <1>1, <1>2, <1>3 DEF AvatarOf, EntryInOrder, PodInOrder
  <1> QED
    BY <1>3, <1>4, <1>5, <1>6 DEF AvatarOf

\* Whatever is done about an avatar is a step of the lifecycle, or none.
LEMMA AvatarIsLifecycle == [AvatarNext]_avatarMeetingVars => [Next]_vars
  BY DEF AvatarNext, avatarMeetingVars, Next, StartWithAvatar, Provisioned, SessionCreated,
     KickoffAccepted, KickoffFailed, NeverExecuted, StopWithAvatar, FailWithAvatar, Deleted,
     DeleteLost, PodTelemetry, PodEvent, ForceNextQuestion

\* Every step of an avatar keeps the invariant.
LEMMA AvatarInvNext == AvatarInv /\ [AvatarNext]_avatarMeetingVars => AvatarInv'
  <1> SUFFICES ASSUME AvatarInv, [AvatarNext]_avatarMeetingVars
               PROVE  AvatarInv'
    OBVIOUS
  <1>1. TypeOK'
    BY AvatarIsLifecycle, TypeNext DEF AvatarInv
  <1> DEFINE Goal == AvatarTypes' /\ \A k \in Meetings : AvatarOf(k)'
  <1>2. ASSUME NEW m \in Meetings, NEW s \in Finished \cup {Absent}, NEW why \in Reasons,
               StopWithAvatar(m, s, why)
        PROVE  Goal
    <2>1. FinalStatus(s) \in Finished \cup FailStatus
      BY FinalStatusType
    <2> QED
      BY <1>2, <2>1, TeardownKeeps DEF StopWithAvatar, StopMeeting
  <1>3. ASSUME NEW m \in Meetings, NEW s \in FailStatus, NEW why \in Reasons,
               FailWithAvatar(m, s, why)
        PROVE  Goal
    <2>1. s \in Finished \cup FailStatus
      OBVIOUS
    <2> QED
      BY <1>3, <2>1, TeardownKeeps DEF FailWithAvatar, FailMeeting
  <1>4. ASSUME UNCHANGED avatarVars, status' = status
        PROVE  Goal
    BY <1>4 DEF avatarVars, AvatarInv, AvatarTypes, AvatarOf, EntryInOrder, PodInOrder,
                QuestionInOrder
  <1>5. ASSUME UNCHANGED avatarMeetingVars \/ (ClearQueued /\ UNCHANGED avatarVars)
        PROVE  Goal
    BY <1>4, <1>5 DEF avatarMeetingVars, vars, ClearQueued
  <1>6. ASSUME NEW m \in Meetings,
               Provisioned(m) \/ SessionCreated(m) \/ KickoffAccepted(m) \/ NeverExecuted(m)
        PROVE  Goal
    BY <1>6, KickoffKeeps
  <1>7. ASSUME NEW m \in Meetings, NEW s \in Sessions, Deleted(m, s) \/ DeleteLost(m, s)
        PROVE  Goal
    BY <1>7, DeleteKeeps
  <1>8. Goal
    <2>1. ASSUME NEW m \in Meetings, StartWithAvatar(m) \/ KickoffFailed(m)
          PROVE  Goal
      BY <2>1, StartWithAvatarKeeps, KickoffFailedKeeps
    <2>2. ASSUME NEW m \in Meetings, NEW s \in Sessions, PodTelemetry(m, s)
          PROVE  Goal
      BY <2>2, PodTelemetryKeeps
    <2>3. ASSUME NEW m \in Meetings, NEW s \in Sessions, NEW phase \in Phase,
                 PodEvent(m, s, phase)
          PROVE  Goal
      BY <2>3, PodEventKeeps
    <2>4. ASSUME NEW m \in Meetings, NEW command \in Sources, ForceNextQuestion(m, command)
          PROVE  Goal
      BY <2>4, ForceNextQuestionKeeps
    <2> HIDE DEF Goal
    <2> QED
      BY <1>2, <1>3, <1>5, <1>6, <1>7, <2>1, <2>2, <2>3, <2>4 DEF AvatarNext
  <1> QED
    BY <1>1, <1>8 DEF AvatarInv

\* What the invariant says of the properties.
LEMMA AvatarInvMeans ==
    AvatarInv => AvatarTypeOK /\ EntryIffOpen /\ PodOutlivesMeetingForAReason /\ QuestionsCounted
  <1> SUFFICES ASSUME AvatarInv
               PROVE  /\ AvatarTypeOK /\ EntryIffOpen
                      /\ PodOutlivesMeetingForAReason /\ QuestionsCounted
    OBVIOUS
  <1>1. \A m \in Meetings : EntryInOrder(m) /\ PodInOrder(m) /\ QuestionInOrder(m)
    BY DEF AvatarInv, AvatarOf
  <1>2. AvatarTypeOK
    BY <1>1 DEF AvatarInv, AvatarTypes, EntryInOrder, Entry, Kick, Question, AvatarExcuse,
                AvatarTypeOK
  <1>3. EntryIffOpen
    BY <1>1 DEF EntryInOrder, EntryIffOpen
  <1>4. PodOutlivesMeetingForAReason
    <2>1. "own" \in Sessions
      BY DEF Sessions
    <2> QED
      BY <1>1, <2>1 DEF PodInOrder, PodOutlivesMeetingForAReason
  <1>5. QuestionsCounted
    BY <1>1 DEF QuestionInOrder, QuestionsCounted
  <1> QED
    BY <1>2, <1>3, <1>4, <1>5

-----------------------------------------------------------------------------
(* The control plane of one meeting                                        *)

ControlTypes ==
    /\ fresh = {} \/ \E p \in Starts : fresh = {p}
    /\ presence \in [armed: BOOLEAN, stopped: BOOLEAN]
    /\ projection \in {"idle", "in_meeting"} \cup Finished
    /\ jobAiEnded \in BOOLEAN /\ scheduled \in BOOLEAN
    /\ deinit \in {"none", "forwarding", "closing"}
    /\ controlExcused \subseteq {"startup", "legacy", "early", "jobai"}

\* The meeting is in the middle of nothing; before it is started no publisher is, and
\* nobody has heard of it.
MeetingAtRest ==
    /\ status[Control] \in {Absent, "in_meeting"} \cup Terminal
    /\ status[Control] = Absent
           => /\ \A p \in Starts : call[p] = "new"
              /\ session = NoSession /\ fresh = {} /\ projection # "in_meeting"

\* One start at a time, while no session is there; whoever looks sees it.
OneStart ==
    /\ overlapped = {}
    /\ \A p \in Starts : call[p] \in {"new", "startup", "done", "failed"}
    /\ \A p, q \in Starts : call[p] = "startup" /\ call[q] = "startup" => p = q
    /\ \A p \in Starts : call[p] = "startup" => session = NoSession /\ snapshot.status = "starting"

\* The meeting is watched, and said to go on, once its start has succeeded.
HeardOfStart ==
    /\ \A p \in fresh : call[p] # "new"
    /\ presence.armed \/ projection = "in_meeting"
           => fresh # {} /\ \A p \in fresh : call[p] = "done"

\* A publisher is there, or will be, after the meeting only for a reason.
NoPublisherAfterwards ==
    isFinishedMeeting /\ (session # NoSession \/ \E p \in Starts : call[p] = "startup")
        => controlExcused \cap {"startup", "legacy"} # {}

\* The interview says in_meeting, or will, of another meeting only for a reason.
NoMeetingAfterwards ==
    (projection = "in_meeting" \/ \E p \in fresh : call[p] = "startup")
    /\ status[Control] # "in_meeting"
        => controlExcused \cap {"startup", "legacy"} # {}

\* A finished interview has a meeting that has ended, or JobAI ended it.
FinishedForAReason ==
    isFinishedInterview /\ status[Control] \notin Terminal => "jobai" \in controlExcused

HandlersInv ==
    /\ ControlTypes /\ MeetingAtRest /\ OneStart /\ HeardOfStart
    /\ NoPublisherAfterwards /\ NoMeetingAfterwards /\ FinishedForAReason

ControlInv == TypeOK /\ PublisherInv /\ HandlersInv

-----------------------------------------------------------------------------
\* What the stop of the handlers does to the meeting.
LEMMA StopLocalStatus ==
    ASSUME TypeOK, StopLocal
    PROVE  status' = [status EXCEPT ![Control] = "stopped_during_meeting"]
  BY DEF StopLocal, StopMeeting, RecordTransition, FinalStatus, Absent

\* What the stop of the publisher does, when a start sees no session.
LEMMA StopEffect ==
    ASSUME PublisherTypeOK, OneStart, Stop
    PROVE  /\ session' = NoSession /\ call' = call /\ overlapped' = overlapped
           /\ \A p \in Starts : call[p] = "startup" => snapshot' = snapshot
  BY DEF Stop, stop, OneStart

\* A start in progress is pending.
LEMMA StartupIsPending ==
    ASSUME NEW p \in Starts, call[p] = "startup"
    PROVE  p \in Pending
  BY DEF Pending

\* The meeting and its publisher are started.
LEMMA StartFreshKeeps ==
    ASSUME ControlInv, NEW p \in Starts, StartFresh(p)
    PROVE  HandlersInv'
  <1>1. TypeOK /\ PublisherTypeOK /\ ActiveIsSession /\ HandlersInv /\ Control \in Meetings
    BY ControlAssumption DEF ControlInv, PublisherInv
  <1>2. /\ status[Control] = Absent /\ status' = [status EXCEPT ![Control] = "in_meeting"]
        /\ ~isFinishedInterview /\ fresh' = fresh \cup {p}
        /\ controlExcused \subseteq controlExcused'
        /\ controlExcused' \subseteq controlExcused \cup {"early"}
        /\ presence' = presence /\ projection' = projection /\ jobAiEnded' = jobAiEnded
        /\ scheduled' = scheduled /\ deinit' = deinit
    BY DEF StartFresh, StartMeeting
  <1>3. session = NoSession /\ fresh = {} /\ Pending = {} /\ overlapped = {}
        /\ projection # "in_meeting" /\ \A q \in Starts : call[q] = "new"
    BY <1>1, <1>2 DEF HandlersInv, MeetingAtRest, OneStart, Pending
  <1>4. /\ call' = [call EXCEPT ![p] = "startup"] /\ session' = NoSession
        /\ snapshot'.status = "starting" /\ overlapped' = {} /\ call \in [Starts -> {"new"}]
    BY <1>1, <1>3 DEF StartFresh, Start, SpawnNow, Overlap, Inactive, PublisherTypeOK
  <1>5. /\ status'[Control] = "in_meeting" /\ call'[p] = "startup"
        /\ \A q \in Starts \ {p} : call'[q] = call[q]
    BY <1>1, <1>2, <1>4 DEF TypeOK
  <1>6. ControlTypes'
    BY <1>1, <1>2, <1>3, <1>4, <1>5, StartsAssumption
    DEF HandlersInv, ControlTypes, MeetingAtRest, OneStart, HeardOfStart,
        Absent, Finished, FailStatus, Terminal
  <1>7. MeetingAtRest'
    BY <1>1, <1>2, <1>3, <1>4, <1>5, StartsAssumption
    DEF HandlersInv, ControlTypes, MeetingAtRest, OneStart, HeardOfStart,
        Absent, Finished, FailStatus, Terminal
  <1>8. OneStart'
    BY <1>1, <1>2, <1>3, <1>4, <1>5, StartsAssumption
    DEF HandlersInv, ControlTypes, MeetingAtRest, OneStart, HeardOfStart,
        Absent, Finished, FailStatus, Terminal
  <1>9. HeardOfStart'
    BY <1>1, <1>2, <1>3, <1>4, <1>5, StartsAssumption
    DEF HandlersInv, ControlTypes, MeetingAtRest, OneStart, HeardOfStart,
        Absent, Finished, FailStatus, Terminal
  <1>10. NoPublisherAfterwards'
    BY <1>1, <1>2, <1>3, <1>4, <1>5, StartsAssumption
    DEF HandlersInv, ControlTypes, MeetingAtRest, OneStart, HeardOfStart,
        NoPublisherAfterwards, isFinishedMeeting, Absent, Finished, FailStatus, Terminal
  <1>11. NoMeetingAfterwards'
    BY <1>1, <1>2, <1>3, <1>4, <1>5, StartsAssumption
    DEF HandlersInv, ControlTypes, MeetingAtRest, OneStart, HeardOfStart,
        NoMeetingAfterwards, Absent, Finished, FailStatus, Terminal
  <1>12. FinishedForAReason'
    BY <1>1, <1>2, <1>3, <1>4, <1>5, StartsAssumption
    DEF HandlersInv, ControlTypes, MeetingAtRest, OneStart, HeardOfStart,
        FinishedForAReason, isFinishedInterview, Absent, Finished, FailStatus, Terminal
  <1> QED
    BY <1>6, <1>7, <1>8, <1>9, <1>10, <1>11, <1>12 DEF HandlersInv

\* A meeting that goes on without a publisher gets a new one.
LEMMA StartRecoveryKeeps ==
    ASSUME ControlInv, NEW p \in Starts, StartRecovery(p)
    PROVE  HandlersInv'
  <1>1. TypeOK /\ PublisherTypeOK /\ ActiveIsSession /\ HandlersInv /\ Control \in Meetings
    BY ControlAssumption DEF ControlInv, PublisherInv
  <1>2. /\ status[Control] # Absent /\ ~isFinishedMeeting /\ status' = status
        /\ fresh' = fresh /\ presence' = presence /\ projection' = projection
        /\ jobAiEnded' = jobAiEnded /\ scheduled' = scheduled /\ deinit' = deinit
        /\ controlExcused' = controlExcused
    BY DEF StartRecovery, vars, controlVars
  <1>3. session = NoSession /\ snapshot.status # "starting"
    BY DEF StartRecovery, isRecoverable, getSnapshot
  <1>4. Pending = {} /\ \A q \in Starts : call[q] # "startup"
    BY <1>1, <1>3 DEF HandlersInv, OneStart, Pending
  <1>5. /\ call' = [call EXCEPT ![p] = "startup"] /\ session' = NoSession /\ call[p] = "new"
        /\ snapshot'.status = "starting" /\ overlapped' = overlapped
    BY <1>1, <1>3, <1>4 DEF StartRecovery, Start, SpawnNow, Overlap, Inactive
  <1>6. call'[p] = "startup" /\ \A q \in Starts \ {p} : call'[q] = call[q]
    BY <1>1, <1>5 DEF PublisherTypeOK
  <1>7. ControlTypes'
    BY <1>1, <1>2, <1>3, <1>4, <1>5, <1>6, StartsAssumption
    DEF HandlersInv, ControlTypes, MeetingAtRest, OneStart, HeardOfStart,
        Absent, Finished, FailStatus, Terminal
  <1>8. MeetingAtRest'
    BY <1>1, <1>2, <1>3, <1>4, <1>5, <1>6, StartsAssumption
    DEF HandlersInv, ControlTypes, MeetingAtRest, OneStart, HeardOfStart,
        Absent, Finished, FailStatus, Terminal
  <1>9. OneStart'
    BY <1>1, <1>2, <1>3, <1>4, <1>5, <1>6, StartsAssumption
    DEF HandlersInv, ControlTypes, MeetingAtRest, OneStart, HeardOfStart,
        Absent, Finished, FailStatus, Terminal
  <1>10. HeardOfStart'
    BY <1>1, <1>2, <1>3, <1>4, <1>5, <1>6, StartsAssumption
    DEF HandlersInv, ControlTypes, MeetingAtRest, OneStart, HeardOfStart,
        Absent, Finished, FailStatus, Terminal
  <1>11. NoPublisherAfterwards'
    BY <1>1, <1>2, <1>3, <1>4, <1>5, <1>6, StartsAssumption
    DEF HandlersInv, ControlTypes, MeetingAtRest, OneStart, HeardOfStart,
        NoPublisherAfterwards, isFinishedMeeting, Absent, Finished, FailStatus, Terminal
  <1>12. NoMeetingAfterwards'
    BY <1>1, <1>2, <1>3, <1>4, <1>5, <1>6, StartsAssumption
    DEF HandlersInv, ControlTypes, MeetingAtRest, OneStart, HeardOfStart,
        NoMeetingAfterwards, Absent, Finished, FailStatus, Terminal
  <1>13. FinishedForAReason'
    BY <1>1, <1>2, <1>3, <1>4, <1>5, <1>6, StartsAssumption
    DEF HandlersInv, ControlTypes, MeetingAtRest, OneStart, HeardOfStart,
        FinishedForAReason, isFinishedInterview, Absent, Finished, FailStatus, Terminal
  <1> QED
    BY <1>7, <1>8, <1>9, <1>10, <1>11, <1>12, <1>13 DEF HandlersInv

\* The publisher has started, whatever became of the meeting.
LEMMA StartEndsKeeps ==
    ASSUME ControlInv, NEW p \in Starts, StartEnds(p)
    PROVE  HandlersInv'
  <1>1. TypeOK /\ PublisherTypeOK /\ ActiveIsSession /\ HandlersInv /\ Control \in Meetings
    BY ControlAssumption DEF ControlInv, PublisherInv
  <1>2. /\ call[p] = "startup" /\ call' = [call EXCEPT ![p] = "done"] /\ session' = p
        /\ overlapped' = overlapped /\ status' = status /\ fresh' = fresh
        /\ jobAiEnded' = jobAiEnded /\ scheduled' = scheduled /\ deinit' = deinit
        /\ controlExcused' = controlExcused
    BY DEF StartEnds, Started, vars
  <1>3. IF p \in fresh
        THEN presence' = [armed |-> TRUE, stopped |-> FALSE] /\ projection' = "in_meeting"
        ELSE presence' = presence /\ projection' = projection
    BY DEF StartEnds
  <1>4. call'[p] = "done" /\ \A q \in Starts \ {p} : call'[q] = call[q] /\ call'[q] # "startup"
    BY <1>1, <1>2 DEF PublisherTypeOK, HandlersInv, OneStart
  <1>5. ControlTypes'
    <2>1. presence' \in [armed: BOOLEAN, stopped: BOOLEAN]
          /\ projection' \in {"idle", "in_meeting"} \cup Finished
      <3>1. presence \in [armed: BOOLEAN, stopped: BOOLEAN]
            /\ projection \in {"idle", "in_meeting"} \cup Finished
        BY <1>1 DEF HandlersInv, ControlTypes
      <3>2. [armed |-> TRUE, stopped |-> FALSE] \in [armed: BOOLEAN, stopped: BOOLEAN]
        OBVIOUS
      <3> QED
        BY <1>3, <3>1, <3>2
    <2> QED
      BY <1>1, <1>2, <2>1 DEF HandlersInv, ControlTypes
  <1>6. MeetingAtRest'
    BY <1>1, <1>2, <1>3, <1>4, StartsAssumption
    DEF HandlersInv, ControlTypes, MeetingAtRest, OneStart, HeardOfStart,
        Absent, Finished, FailStatus, Terminal
  <1>7. OneStart'
    BY <1>1, <1>2, <1>3, <1>4, StartsAssumption
    DEF HandlersInv, ControlTypes, MeetingAtRest, OneStart, HeardOfStart,
        Absent, Finished, FailStatus, Terminal
  <1>8. HeardOfStart'
    BY <1>1, <1>2, <1>3, <1>4, StartsAssumption
    DEF HandlersInv, ControlTypes, MeetingAtRest, OneStart, HeardOfStart,
        Absent, Finished, FailStatus, Terminal
  <1>9. NoPublisherAfterwards'
    BY <1>1, <1>2, <1>3, <1>4, StartsAssumption
    DEF HandlersInv, ControlTypes, MeetingAtRest, OneStart, HeardOfStart,
        NoPublisherAfterwards, isFinishedMeeting, Absent, Finished, FailStatus, Terminal
  <1>10. NoMeetingAfterwards'
    BY <1>1, <1>2, <1>3, <1>4, StartsAssumption
    DEF HandlersInv, ControlTypes, MeetingAtRest, OneStart, HeardOfStart,
        NoMeetingAfterwards, Absent, Finished, FailStatus, Terminal
  <1>11. FinishedForAReason'
    BY <1>1, <1>2, <1>3, <1>4, StartsAssumption
    DEF HandlersInv, ControlTypes, MeetingAtRest, OneStart, HeardOfStart,
        FinishedForAReason, isFinishedInterview, Absent, Finished, FailStatus, Terminal
  <1> QED
    BY <1>5, <1>6, <1>7, <1>8, <1>9, <1>10, <1>11 DEF HandlersInv

\* The publisher has not started: a fresh meeting is stopped.
LEMMA StartFailsKeeps ==
    ASSUME ControlInv, NEW p \in Starts, StartFails(p)
    PROVE  HandlersInv'
  <1>1. TypeOK /\ PublisherTypeOK /\ ActiveIsSession /\ HandlersInv /\ Control \in Meetings
    BY ControlAssumption DEF ControlInv, PublisherInv
  <1>2. /\ call[p] = "startup" /\ fresh' = fresh /\ presence' = presence
        /\ projection' = projection /\ jobAiEnded' = jobAiEnded /\ scheduled' = scheduled
        /\ deinit' = deinit /\ controlExcused' = controlExcused /\ overlapped' = overlapped
    BY DEF StartFails, StartupExit, controlVars
  <1>3. session = NoSession
    BY <1>1, <1>2 DEF HandlersInv, OneStart
  <1>4. session' = NoSession /\ call' = [call EXCEPT ![p] = "failed"]
    BY <1>2, <1>3 DEF StartFails, StartupExit
  <1>5. \/ p \in fresh /\ status' = [status EXCEPT ![Control] = "stopped_during_meeting"]
        \/ status' = status
    BY <1>1, StopLocalStatus DEF StartFails, RollBack, vars
  <1>6. call'[p] = "failed" /\ \A q \in Starts \ {p} : call'[q] = call[q] /\ call'[q] # "startup"
    BY <1>1, <1>2, <1>4 DEF PublisherTypeOK, HandlersInv, OneStart
  <1>7. \/ p \in fresh /\ status'[Control] = "stopped_during_meeting"
        \/ status'[Control] = status[Control]
    BY <1>1, <1>5 DEF TypeOK
  <1>8. ControlTypes'
    BY <1>1, <1>2, <1>3, <1>4, <1>5, <1>6, <1>7, StartsAssumption
    DEF HandlersInv, ControlTypes, MeetingAtRest, OneStart, HeardOfStart,
        Absent, Finished, FailStatus, Terminal
  <1>9. MeetingAtRest'
    BY <1>1, <1>2, <1>3, <1>4, <1>5, <1>6, <1>7, StartsAssumption
    DEF HandlersInv, ControlTypes, MeetingAtRest, OneStart, HeardOfStart,
        Absent, Finished, FailStatus, Terminal
  <1>10. OneStart'
    BY <1>1, <1>2, <1>3, <1>4, <1>5, <1>6, <1>7, StartsAssumption
    DEF HandlersInv, ControlTypes, MeetingAtRest, OneStart, HeardOfStart,
        Absent, Finished, FailStatus, Terminal
  <1>11. HeardOfStart'
    BY <1>1, <1>2, <1>3, <1>4, <1>5, <1>6, <1>7, StartsAssumption
    DEF HandlersInv, ControlTypes, MeetingAtRest, OneStart, HeardOfStart,
        Absent, Finished, FailStatus, Terminal
  <1>12. NoPublisherAfterwards'
    BY <1>1, <1>2, <1>3, <1>4, <1>5, <1>6, <1>7, StartsAssumption
    DEF HandlersInv, ControlTypes, MeetingAtRest, OneStart, HeardOfStart,
        NoPublisherAfterwards, isFinishedMeeting, Absent, Finished, FailStatus, Terminal
  <1>13. NoMeetingAfterwards'
    BY <1>1, <1>2, <1>3, <1>4, <1>5, <1>6, <1>7, StartsAssumption
    DEF HandlersInv, ControlTypes, MeetingAtRest, OneStart, HeardOfStart,
        NoMeetingAfterwards, Absent, Finished, FailStatus, Terminal
  <1>14. FinishedForAReason'
    BY <1>1, <1>2, <1>3, <1>4, <1>5, <1>6, <1>7, StartsAssumption
    DEF HandlersInv, ControlTypes, MeetingAtRest, OneStart, HeardOfStart,
        FinishedForAReason, isFinishedInterview, Absent, Finished, FailStatus, Terminal
  <1> QED
    BY <1>8, <1>9, <1>10, <1>11, <1>12, <1>13, <1>14 DEF HandlersInv

\* The meeting is stopped with its publisher.
LEMMA StopControlKeeps ==
    ASSUME ControlInv, StopControl
    PROVE  HandlersInv'
  <1>1. TypeOK /\ PublisherTypeOK /\ ActiveIsSession /\ HandlersInv /\ Control \in Meetings
    BY ControlAssumption DEF ControlInv, PublisherInv
  <1>2. /\ status' = [status EXCEPT ![Control] = "stopped_during_meeting"]
        /\ fresh' = fresh /\ presence' = presence /\ jobAiEnded' = jobAiEnded
        /\ scheduled' = scheduled /\ deinit' = deinit
        /\ projection' = "stopped_during_meeting" /\ status[Control] # Absent
    BY <1>1, StopLocalStatus DEF StopControl, MayStop
  <1>3. controlExcused' = controlExcused \cup IF Pending # {} THEN {"startup"} ELSE {}
    BY DEF StopControl, Excuses
  <1>4. /\ session' = NoSession /\ call' = call /\ overlapped' = overlapped
        /\ \A p \in Starts : call[p] = "startup" => snapshot' = snapshot
    BY <1>1, StopEffect DEF StopControl, HandlersInv
  <1>5. /\ status'[Control] = "stopped_during_meeting"
        /\ \A p \in Starts : call[p] = "startup" => "startup" \in controlExcused'
    BY <1>1, <1>2, <1>3, StartupIsPending DEF TypeOK
  <1>6. ControlTypes'
    BY <1>1, <1>2, <1>3, <1>4, <1>5, StartsAssumption
    DEF HandlersInv, ControlTypes, MeetingAtRest, OneStart, HeardOfStart,
        Absent, Finished, FailStatus, Terminal
  <1>7. MeetingAtRest'
    BY <1>1, <1>2, <1>3, <1>4, <1>5, StartsAssumption
    DEF HandlersInv, ControlTypes, MeetingAtRest, OneStart, HeardOfStart,
        Absent, Finished, FailStatus, Terminal
  <1>8. OneStart'
    BY <1>1, <1>2, <1>3, <1>4, <1>5, StartsAssumption
    DEF HandlersInv, ControlTypes, MeetingAtRest, OneStart, HeardOfStart,
        Absent, Finished, FailStatus, Terminal
  <1>9. HeardOfStart'
    BY <1>1, <1>2, <1>3, <1>4, <1>5, StartsAssumption
    DEF HandlersInv, ControlTypes, MeetingAtRest, OneStart, HeardOfStart,
        Absent, Finished, FailStatus, Terminal
  <1>10. NoPublisherAfterwards'
    BY <1>1, <1>2, <1>3, <1>4, <1>5, StartsAssumption
    DEF HandlersInv, ControlTypes, MeetingAtRest, OneStart, HeardOfStart,
        NoPublisherAfterwards, isFinishedMeeting, Absent, Finished, FailStatus, Terminal
  <1>11. NoMeetingAfterwards'
    BY <1>1, <1>2, <1>3, <1>4, <1>5, StartsAssumption
    DEF HandlersInv, ControlTypes, MeetingAtRest, OneStart, HeardOfStart,
        NoMeetingAfterwards, Absent, Finished, FailStatus, Terminal
  <1>12. FinishedForAReason'
    BY <1>1, <1>2, <1>3, <1>4, <1>5, StartsAssumption
    DEF HandlersInv, ControlTypes, MeetingAtRest, OneStart, HeardOfStart,
        FinishedForAReason, isFinishedInterview, Absent, Finished, FailStatus, Terminal
  <1> QED
    BY <1>6, <1>7, <1>8, <1>9, <1>10, <1>11, <1>12 DEF HandlersInv

\* The legacy routes end a meeting and tell nobody.
LEMMA LegacyRoutesKeep ==
    ASSUME ControlInv, LegacyRoutes
    PROVE  HandlersInv'
  <1>1. TypeOK /\ PublisherTypeOK /\ ActiveIsSession /\ HandlersInv /\ Control \in Meetings
    BY ControlAssumption DEF ControlInv, PublisherInv
  <1>2. /\ "legacy" \in controlExcused' /\ controlExcused \subseteq controlExcused'
        /\ controlExcused' \subseteq controlExcused \cup {"legacy", "startup"}
        /\ session' = session /\ snapshot' = snapshot /\ call' = call /\ overlapped' = overlapped
        /\ fresh' = fresh /\ presence' = presence /\ projection' = projection
        /\ jobAiEnded' = jobAiEnded /\ scheduled' = scheduled /\ deinit' = deinit
    BY DEF LegacyRoutes, Excuses, publisherVars
  <1>3. \/ status[Control] = Absent /\ status' = [status EXCEPT ![Control] = "in_meeting"]
        \/ \E to \in Terminal : status' = [status EXCEPT ![Control] = to]
    <2>1. ASSUME NEW s \in Finished \cup {Absent}, NEW why \in Reasons, StopMeeting(Control, s,
    why)
          PROVE  \E to \in Terminal : status' = [status EXCEPT ![Control] = to]
      BY <2>1, FinalStatusType DEF StopMeeting, RecordTransition, Terminal
    <2>2. ASSUME NEW s \in FailStatus, NEW why \in Reasons, FailMeeting(Control, s, why)
          PROVE  \E to \in Terminal : status' = [status EXCEPT ![Control] = to]
      BY <2>2 DEF FailMeeting, RecordTransition, Terminal
    <2> QED
      BY <2>1, <2>2 DEF LegacyRoutes, StartMeeting
  <1>4. \/ status[Control] = Absent /\ status'[Control] = "in_meeting"
        \/ status'[Control] \in Terminal
    BY <1>1, <1>3 DEF TypeOK
  <1>5. ControlTypes'
    BY <1>1, <1>2, <1>3, <1>4, StartsAssumption
    DEF HandlersInv, ControlTypes, MeetingAtRest, OneStart, HeardOfStart,
        Absent, Finished, FailStatus, Terminal
  <1>6. MeetingAtRest'
    BY <1>1, <1>2, <1>3, <1>4, StartsAssumption
    DEF HandlersInv, ControlTypes, MeetingAtRest, OneStart, HeardOfStart,
        Absent, Finished, FailStatus, Terminal
  <1>7. OneStart'
    BY <1>1, <1>2, <1>3, <1>4, StartsAssumption
    DEF HandlersInv, ControlTypes, MeetingAtRest, OneStart, HeardOfStart,
        Absent, Finished, FailStatus, Terminal
  <1>8. HeardOfStart'
    BY <1>1, <1>2, <1>3, <1>4, StartsAssumption
    DEF HandlersInv, ControlTypes, MeetingAtRest, OneStart, HeardOfStart,
        Absent, Finished, FailStatus, Terminal
  <1>9. NoPublisherAfterwards'
    BY <1>1, <1>2, <1>3, <1>4, StartsAssumption
    DEF HandlersInv, ControlTypes, MeetingAtRest, OneStart, HeardOfStart,
        NoPublisherAfterwards, isFinishedMeeting, Absent, Finished, FailStatus, Terminal
  <1>10. NoMeetingAfterwards'
    BY <1>1, <1>2, <1>3, <1>4, StartsAssumption
    DEF HandlersInv, ControlTypes, MeetingAtRest, OneStart, HeardOfStart,
        NoMeetingAfterwards, Absent, Finished, FailStatus, Terminal
  <1>11. FinishedForAReason'
    BY <1>1, <1>2, <1>3, <1>4, StartsAssumption
    DEF HandlersInv, ControlTypes, MeetingAtRest, OneStart, HeardOfStart,
        FinishedForAReason, isFinishedInterview, Absent, Finished, FailStatus, Terminal
  <1> QED
    BY <1>5, <1>6, <1>7, <1>8, <1>9, <1>10, <1>11 DEF HandlersInv

\* The candidate leaves, the sweeper comes, a deinit run begins or ends.
LEMMA PresenceKeeps ==
    ASSUME ControlInv, RequestDeinit \/ Sweep \/ DeinitBegins \/ DeinitEnds
    PROVE  HandlersInv'
  <1>1. TypeOK /\ PublisherTypeOK /\ ActiveIsSession /\ HandlersInv /\ Control \in Meetings
    BY ControlAssumption DEF ControlInv, PublisherInv
  <1>2. /\ status' = status /\ session' = session /\ snapshot' = snapshot /\ call' = call
        /\ overlapped' = overlapped /\ fresh' = fresh /\ projection' = projection
        /\ jobAiEnded' = jobAiEnded /\ controlExcused' = controlExcused
        /\ scheduled' \in BOOLEAN /\ deinit' \in {"none", "forwarding", "closing"}
    BY <1>1 DEF RequestDeinit, Sweep, DeinitBegins, DeinitEnds, vars, publisherVars,
       HandlersInv, ControlTypes
  <1>3. presence' \in [armed: BOOLEAN, stopped: BOOLEAN] /\ presence'.armed = presence.armed
    BY <1>1 DEF RequestDeinit, Sweep, DeinitBegins, DeinitEnds, MarkStopped, HandlersInv,
       ControlTypes
  <1>4. ControlTypes'
    BY <1>1, <1>2, <1>3, StartsAssumption
    DEF HandlersInv, ControlTypes, MeetingAtRest, OneStart, HeardOfStart,
        Absent, Finished, FailStatus, Terminal
  <1>5. MeetingAtRest'
    BY <1>1, <1>2, <1>3, StartsAssumption
    DEF HandlersInv, ControlTypes, MeetingAtRest, OneStart, HeardOfStart,
        Absent, Finished, FailStatus, Terminal
  <1>6. OneStart'
    BY <1>1, <1>2, <1>3, StartsAssumption
    DEF HandlersInv, ControlTypes, MeetingAtRest, OneStart, HeardOfStart,
        Absent, Finished, FailStatus, Terminal
  <1>7. HeardOfStart'
    BY <1>1, <1>2, <1>3, StartsAssumption
    DEF HandlersInv, ControlTypes, MeetingAtRest, OneStart, HeardOfStart,
        Absent, Finished, FailStatus, Terminal
  <1>8. NoPublisherAfterwards'
    BY <1>1, <1>2, <1>3, StartsAssumption
    DEF HandlersInv, ControlTypes, MeetingAtRest, OneStart, HeardOfStart,
        NoPublisherAfterwards, isFinishedMeeting, Absent, Finished, FailStatus, Terminal
  <1>9. NoMeetingAfterwards'
    BY <1>1, <1>2, <1>3, StartsAssumption
    DEF HandlersInv, ControlTypes, MeetingAtRest, OneStart, HeardOfStart,
        NoMeetingAfterwards, Absent, Finished, FailStatus, Terminal
  <1>10. FinishedForAReason'
    BY <1>1, <1>2, <1>3, StartsAssumption
    DEF HandlersInv, ControlTypes, MeetingAtRest, OneStart, HeardOfStart,
        FinishedForAReason, isFinishedInterview, Absent, Finished, FailStatus, Terminal
  <1> QED
    BY <1>4, <1>5, <1>6, <1>7, <1>8, <1>9, <1>10 DEF HandlersInv

\* A deinit run stops the meeting, if it goes on.
LEMMA DeinitStopsKeeps ==
    ASSUME ControlInv, DeinitStops
    PROVE  HandlersInv'
  <1>1. TypeOK /\ PublisherTypeOK /\ ActiveIsSession /\ HandlersInv /\ Control \in Meetings
    BY ControlAssumption DEF ControlInv, PublisherInv
  <1>2. /\ fresh' = fresh /\ presence' = presence /\ jobAiEnded' = jobAiEnded
        /\ scheduled' = scheduled /\ deinit' = "closing"
    BY DEF DeinitStops
  <1>3. \/ /\ status' = status /\ session' = session /\ snapshot' = snapshot /\ call' = call
           /\ overlapped' = overlapped /\ projection' = projection
           /\ controlExcused' = controlExcused
        \/ /\ status[Control] # Absent /\ projection' = "stopped_during_meeting" /\ Stop
           /\ controlExcused' = controlExcused \cup IF Pending # {} THEN {"startup"} ELSE {}
           /\ \/ status' = [status EXCEPT ![Control] = "stopped_during_meeting"]
              \/ status' = status /\ status[Control] # "in_meeting"
    BY <1>1, StopLocalStatus
    DEF DeinitStops, MayStop, assertTransition, allowedTransitions, MeetingStatus, Open, Terminal,
        Finished, FailStatus, Excuses, vars, publisherVars
  <1>4. \/ /\ session' = session /\ snapshot' = snapshot /\ call' = call
           /\ overlapped' = overlapped /\ projection' = projection
           /\ controlExcused' = controlExcused /\ status'[Control] = status[Control]
        \/ /\ status[Control] # Absent /\ projection' = "stopped_during_meeting"
           /\ session' = NoSession /\ call' = call /\ overlapped' = overlapped
           /\ \A p \in Starts : call[p] = "startup"
                 => snapshot' = snapshot /\ "startup" \in controlExcused'
           /\ controlExcused \subseteq controlExcused'
           /\ controlExcused' \subseteq controlExcused \cup {"startup"}
           /\ \/ status'[Control] = "stopped_during_meeting"
              \/ status'[Control] = status[Control] /\ status[Control] # "in_meeting"
    BY <1>1, <1>3, StopEffect, StartupIsPending DEF TypeOK, HandlersInv
  <1>5. ControlTypes'
    BY <1>1, <1>2, <1>3, <1>4, StartsAssumption
    DEF HandlersInv, ControlTypes, MeetingAtRest, OneStart, HeardOfStart,
        Absent, Finished, FailStatus, Terminal
  <1>6. MeetingAtRest'
    BY <1>1, <1>2, <1>3, <1>4, StartsAssumption
    DEF HandlersInv, ControlTypes, MeetingAtRest, OneStart, HeardOfStart,
        Absent, Finished, FailStatus, Terminal
  <1>7. OneStart'
    BY <1>1, <1>2, <1>3, <1>4, StartsAssumption
    DEF HandlersInv, ControlTypes, MeetingAtRest, OneStart, HeardOfStart,
        Absent, Finished, FailStatus, Terminal
  <1>8. HeardOfStart'
    BY <1>1, <1>2, <1>3, <1>4, StartsAssumption
    DEF HandlersInv, ControlTypes, MeetingAtRest, OneStart, HeardOfStart,
        Absent, Finished, FailStatus, Terminal
  <1>9. NoPublisherAfterwards'
    BY <1>1, <1>2, <1>3, <1>4, StartsAssumption
    DEF HandlersInv, ControlTypes, MeetingAtRest, OneStart, HeardOfStart,
        NoPublisherAfterwards, isFinishedMeeting, Absent, Finished, FailStatus, Terminal
  <1>10. NoMeetingAfterwards'
    BY <1>1, <1>2, <1>3, <1>4, StartsAssumption
    DEF HandlersInv, ControlTypes, MeetingAtRest, OneStart, HeardOfStart,
        NoMeetingAfterwards, Absent, Finished, FailStatus, Terminal
  <1>11. FinishedForAReason'
    BY <1>1, <1>2, <1>3, <1>4, StartsAssumption
    DEF HandlersInv, ControlTypes, MeetingAtRest, OneStart, HeardOfStart,
        FinishedForAReason, isFinishedInterview, Absent, Finished, FailStatus, Terminal
  <1> QED
    BY <1>5, <1>6, <1>7, <1>8, <1>9, <1>10, <1>11 DEF HandlersInv

\* JobAI ends the interview.
LEMMA JobAiEndsKeeps ==
    ASSUME ControlInv, JobAiEnds
    PROVE  HandlersInv'
  <1>1. TypeOK /\ PublisherTypeOK /\ ActiveIsSession /\ HandlersInv /\ Control \in Meetings
    BY ControlAssumption DEF ControlInv, PublisherInv
  <1>2. /\ status' = status /\ session' = session /\ snapshot' = snapshot /\ call' = call
        /\ overlapped' = overlapped /\ fresh' = fresh /\ presence' = presence
        /\ scheduled' = scheduled /\ deinit' = deinit
        /\ jobAiEnded' = TRUE /\ projection' \in Finished
        /\ controlExcused' = controlExcused
                 \cup IF status[Control] \in Terminal THEN {} ELSE {"jobai"}
    BY DEF JobAiEnds, vars, publisherVars
  <1>3. ControlTypes'
    BY <1>1, <1>2, StartsAssumption
    DEF HandlersInv, ControlTypes, MeetingAtRest, OneStart, HeardOfStart,
        Absent, Finished, FailStatus, Terminal
  <1>4. MeetingAtRest'
    BY <1>1, <1>2, StartsAssumption
    DEF HandlersInv, ControlTypes, MeetingAtRest, OneStart, HeardOfStart,
        Absent, Finished, FailStatus, Terminal
  <1>5. OneStart'
    BY <1>1, <1>2, StartsAssumption
    DEF HandlersInv, ControlTypes, MeetingAtRest, OneStart, HeardOfStart,
        Absent, Finished, FailStatus, Terminal
  <1>6. HeardOfStart'
    BY <1>1, <1>2, StartsAssumption
    DEF HandlersInv, ControlTypes, MeetingAtRest, OneStart, HeardOfStart,
        Absent, Finished, FailStatus, Terminal
  <1>7. NoPublisherAfterwards'
    BY <1>1, <1>2, StartsAssumption
    DEF HandlersInv, ControlTypes, MeetingAtRest, OneStart, HeardOfStart,
        NoPublisherAfterwards, isFinishedMeeting, Absent, Finished, FailStatus, Terminal
  <1>8. NoMeetingAfterwards'
    BY <1>1, <1>2, StartsAssumption
    DEF HandlersInv, ControlTypes, MeetingAtRest, OneStart, HeardOfStart,
        NoMeetingAfterwards, Absent, Finished, FailStatus, Terminal
  <1>9. FinishedForAReason'
    BY <1>1, <1>2, StartsAssumption
    DEF HandlersInv, ControlTypes, MeetingAtRest, OneStart, HeardOfStart,
        FinishedForAReason, isFinishedInterview, Absent, Finished, FailStatus, Terminal
  <1> QED
    BY <1>3, <1>4, <1>5, <1>6, <1>7, <1>8, <1>9 DEF HandlersInv

\* The publisher goes its own way.
LEMMA PublisherStepKeeps ==
    ASSUME ControlInv, NEW p \in Starts, PublisherStep(p), UNCHANGED <<vars, controlVars>>
    PROVE  HandlersInv'
  <1>1. TypeOK /\ PublisherTypeOK /\ ActiveIsSession /\ HandlersInv /\ Control \in Meetings
    BY ControlAssumption DEF ControlInv, PublisherInv
  <1>2. /\ status' = status /\ fresh' = fresh /\ presence' = presence /\ projection' = projection
        /\ jobAiEnded' = jobAiEnded /\ scheduled' = scheduled /\ deinit' = deinit
        /\ controlExcused' = controlExcused
    BY DEF vars, controlVars
  <1>3. /\ call' = call /\ overlapped' = overlapped /\ (session' = session \/ session' = NoSession)
        /\ \A q \in Starts : call[q] = "startup" => snapshot' = snapshot
    BY <1>1, StartsAssumption
    DEF PublisherStep, RuntimeExit, ForceKill, Stderr, getSnapshot, HandlersInv, OneStart
  <1>4. ControlTypes'
    BY <1>1, <1>2, <1>3, StartsAssumption
    DEF HandlersInv, ControlTypes, MeetingAtRest, OneStart, HeardOfStart,
        Absent, Finished, FailStatus, Terminal
  <1>5. MeetingAtRest'
    BY <1>1, <1>2, <1>3, StartsAssumption
    DEF HandlersInv, ControlTypes, MeetingAtRest, OneStart, HeardOfStart,
        Absent, Finished, FailStatus, Terminal
  <1>6. OneStart'
    BY <1>1, <1>2, <1>3, StartsAssumption
    DEF HandlersInv, ControlTypes, MeetingAtRest, OneStart, HeardOfStart,
        Absent, Finished, FailStatus, Terminal
  <1>7. HeardOfStart'
    BY <1>1, <1>2, <1>3, StartsAssumption
    DEF HandlersInv, ControlTypes, MeetingAtRest, OneStart, HeardOfStart,
        Absent, Finished, FailStatus, Terminal
  <1>8. NoPublisherAfterwards'
    BY <1>1, <1>2, <1>3, StartsAssumption
    DEF HandlersInv, ControlTypes, MeetingAtRest, OneStart, HeardOfStart,
        NoPublisherAfterwards, isFinishedMeeting, Absent, Finished, FailStatus, Terminal
  <1>9. NoMeetingAfterwards'
    BY <1>1, <1>2, <1>3, StartsAssumption
    DEF HandlersInv, ControlTypes, MeetingAtRest, OneStart, HeardOfStart,
        NoMeetingAfterwards, Absent, Finished, FailStatus, Terminal
  <1>10. FinishedForAReason'
    BY <1>1, <1>2, <1>3, StartsAssumption
    DEF HandlersInv, ControlTypes, MeetingAtRest, OneStart, HeardOfStart,
        FinishedForAReason, isFinishedInterview, Absent, Finished, FailStatus, Terminal
  <1> QED
    BY <1>4, <1>5, <1>6, <1>7, <1>8, <1>9, <1>10 DEF HandlersInv

-----------------------------------------------------------------------------
\* What the handlers do to the meeting is a step of its lifecycle, or none.
LEMMA ControlIsLifecycle == [ControlNext]_allVars => [Next]_vars
  <1> SUFFICES ASSUME [ControlNext]_allVars
               PROVE  [Next]_vars
    OBVIOUS
  <1>1. StopLocal => Next
    BY ControlAssumption DEF StopLocal, Next, Finished
  <1>2. ASSUME NEW p \in Starts, StartFresh(p)
        PROVE  Next
    BY <1>2, ControlAssumption DEF StartFresh, Next
  <1>3. LegacyRoutes => Next
    BY ControlAssumption DEF LegacyRoutes, Next
  <1>4. ASSUME NEW p \in Starts,
               \/ StartRecovery(p) \/ StartEnds(p)
               \/ PublisherStep(p) /\ UNCHANGED <<vars, controlVars>>
        PROVE  UNCHANGED vars
    BY <1>4 DEF StartRecovery, StartEnds
  <1>5. ASSUME NEW p \in Starts, StartFails(p)
        PROVE  [Next]_vars
    BY <1>1, <1>5 DEF StartFails, RollBack
  <1>6. StopControl => Next
    BY <1>1 DEF StopControl
  <1>7. DeinitStops => [Next]_vars
    BY <1>1 DEF DeinitStops
  <1>8. RequestDeinit \/ Sweep \/ DeinitBegins \/ DeinitEnds \/ JobAiEnds => UNCHANGED vars
    BY DEF RequestDeinit, Sweep, DeinitBegins, DeinitEnds, JobAiEnds
  <1>9. UNCHANGED allVars => UNCHANGED vars
    BY DEF allVars
  <1> QED
    BY <1>2, <1>3, <1>4, <1>5, <1>6, <1>7, <1>8, <1>9 DEF ControlNext, Deinit

\* What the handlers do to the publisher is a step of the publisher, or none.
LEMMA ControlIsPublisher == [ControlNext]_allVars => [PublisherNext]_publisherVars
  <1> SUFFICES ASSUME [ControlNext]_allVars
               PROVE  [PublisherNext]_publisherVars
    OBVIOUS
  <1>1. ASSUME NEW p \in Starts,
               \/ StartFresh(p) \/ StartRecovery(p) \/ StartEnds(p) \/ StartFails(p)
               \/ PublisherStep(p)
        PROVE  PublisherNext
    BY <1>1 DEF StartFresh, StartRecovery, StartEnds, StartFails, PublisherStep, PublisherNext,
                StartStep
  <1>2. StopControl => PublisherNext
    BY DEF StopControl, PublisherNext
  <1>3. DeinitStops => [PublisherNext]_publisherVars
    BY DEF DeinitStops, PublisherNext
  <1>4. LegacyRoutes \/ RequestDeinit \/ Sweep \/ DeinitBegins \/ DeinitEnds \/ JobAiEnds
            => UNCHANGED publisherVars
    BY DEF LegacyRoutes, RequestDeinit, Sweep, DeinitBegins, DeinitEnds, JobAiEnds
  <1>5. UNCHANGED allVars => UNCHANGED publisherVars
    BY DEF allVars
  <1> QED
    BY <1>1, <1>2, <1>3, <1>4, <1>5 DEF ControlNext, Deinit

\* Nobody has asked for a meeting.
LEMMA ControlInvInit == ControlInit => ControlInv
  <1> SUFFICES ASSUME ControlInit
               PROVE  ControlInv
    OBVIOUS
  <1>1. TypeOK /\ PublisherInv
    BY TypeInit, PublisherInitHolds DEF ControlInit
  <1>2. status[Control] = Absent
    BY ControlAssumption DEF ControlInit, Init
  <1>3. HandlersInv
    BY <1>2 DEF ControlInit, PublisherInit, NoRow, HandlersInv, ControlTypes, MeetingAtRest,
       OneStart, HeardOfStart, NoPublisherAfterwards, NoMeetingAfterwards, FinishedForAReason,
       isFinishedMeeting, isFinishedInterview, Absent, Finished
  <1> QED
    BY <1>1, <1>3 DEF ControlInv

\* Every step of the handlers keeps the invariant.
LEMMA ControlInvNext == ControlInv /\ [ControlNext]_allVars => ControlInv'
  <1> SUFFICES ASSUME ControlInv, [ControlNext]_allVars
               PROVE  ControlInv'
    OBVIOUS
  <1>1. TypeOK' /\ PublisherInv'
    BY ControlIsLifecycle, ControlIsPublisher, TypeNext, PublisherStepPreserves DEF ControlInv
  <1>2. ASSUME UNCHANGED allVars
        PROVE  HandlersInv'
    BY <1>2 DEF allVars, vars, publisherVars, controlVars, ControlInv, HandlersInv, ControlTypes,
       MeetingAtRest, OneStart, HeardOfStart, NoPublisherAfterwards, NoMeetingAfterwards,
       FinishedForAReason, isFinishedMeeting, isFinishedInterview
  <1>3. HandlersInv'
    BY <1>2, StartFreshKeeps, StartRecoveryKeeps, StartEndsKeeps, StartFailsKeeps,
       PublisherStepKeeps, StopControlKeeps, LegacyRoutesKeep, PresenceKeeps, DeinitStopsKeeps,
       JobAiEndsKeeps DEF ControlNext, Deinit
  <1> QED
    BY <1>1, <1>3 DEF ControlInv

\* What the invariant says of the properties.
LEMMA ControlInvMeans ==
    ControlInv => /\ ControlTypeOK /\ OneStartAtATime /\ PublisherOutlivesMeetingForAReason
                  /\ ProjectionFollowsMeeting /\ FinishedInterviewMeansEnded
  <1> SUFFICES ASSUME ControlInv
               PROVE  /\ ControlTypeOK /\ OneStartAtATime /\ PublisherOutlivesMeetingForAReason
                      /\ ProjectionFollowsMeeting /\ FinishedInterviewMeansEnded
    OBVIOUS
  <1>1. ControlTypes /\ OneStart /\ HeardOfStart
    BY DEF ControlInv, HandlersInv
  <1>2. fresh \subseteq Starts /\ Cardinality(fresh) <= 1
    <2>1. CASE fresh = {}
      <3>1. Cardinality({}) = 0
        BY FS_EmptySet
      <3> QED
        BY <2>1, <3>1
    <2>2. ASSUME NEW p \in Starts, fresh = {p}
          PROVE  fresh \subseteq Starts /\ Cardinality(fresh) <= 1
      <3>1. Cardinality({p}) = 1
        BY FS_Singleton
      <3> QED
        BY <2>2, <3>1
    <2> QED
      BY <1>1, <2>1, <2>2 DEF ControlTypes
  <1>3. ControlTypeOK
    BY <1>1, <1>2 DEF ControlTypes, HeardOfStart, ControlTypeOK
  <1>4. OneStartAtATime
    BY <1>1 DEF OneStart, OneStartAtATime
  <1>5. PublisherOutlivesMeetingForAReason /\ ProjectionFollowsMeeting
    BY DEF ControlInv, HandlersInv, NoPublisherAfterwards, NoMeetingAfterwards,
           PublisherOutlivesMeetingForAReason, ProjectionFollowsMeeting
  <1>6. FinishedInterviewMeansEnded
    BY DEF ControlInv, HandlersInv, FinishedForAReason, FinishedInterviewMeansEnded, Open,
           Terminal, Finished, FailStatus
  <1> QED
    BY <1>3, <1>4, <1>5, <1>6

-----------------------------------------------------------------------------
(* A meeting and what runs beside it                                       *)

\* The control plane is as it begins unless it is the part that moves: nobody has called
\* it, and a publisher runs only where no meeting does.
ControlRests ==
    /\ fresh = {} /\ presence = NoRow /\ projection = "idle" /\ jobAiEnded = FALSE
    /\ scheduled = FALSE /\ deinit = "none" /\ controlExcused = {}
    /\ status[Control] = Absent \/ session = NoSession

\* So is the avatar: the store is empty, and the pod runs nothing.
AvatarRests ==
    /\ entry = [m \in Meetings |-> NoEntry] /\ kick = [m \in Meetings |-> "none"]
    /\ pod = [m \in Meetings |-> {}] /\ ran = [m \in Meetings |-> {}] /\ deletes = {}
    /\ question = [m \in Meetings |-> [index |-> -1, lastSource |-> NoSource]]
    /\ heard = [m \in Meetings |-> {}] /\ avatarExcused = [m \in Meetings |-> {}]

PartInv ==
    /\ part = "control" => ControlInv
    /\ part # "control" => ControlRests
    /\ part = "avatar" => AvatarInv
    /\ part # "avatar" => AvatarRests
    /\ part = "publisher" => status[Control] = Absent
    /\ part \notin {"control", "publisher"} => session = NoSession

ServicesInv == TypeOK /\ DeliveryInv /\ GenerationInv /\ PartInv

\* What a step of one part is to each of them.
StepOfParts ==
    /\ part' = part
    /\ [Next]_vars /\ [PublisherNext]_publisherVars
    /\ [DeliveryNext]_deliveryVars /\ [GenerationNext]_generationVars
    /\ part = "control" => [ControlNext]_allVars
    /\ part # "control" => UNCHANGED controlVars
    /\ part = "avatar" => [AvatarNext]_avatarMeetingVars
    /\ part # "avatar" => UNCHANGED avatarVars
    /\ part = "publisher" => UNCHANGED vars
    /\ part \notin {"control", "publisher"} => UNCHANGED publisherVars

\* Every step is a step of the part that moves, and leaves the others alone.
LEMMA ServicesIsParts == [ServicesNext]_allParts => StepOfParts
  <1> SUFFICES ASSUME [ServicesNext]_allParts
               PROVE  StepOfParts
    OBVIOUS
  <1>1. ASSUME LifecycleStep
        PROVE  part = "lifecycle" /\ part' = part /\ Next
               /\ UNCHANGED <<publisherVars, controlVars, avatarVars, deliveryVars,
               generationVars>>
    BY <1>1 DEF LifecycleStep, InLifecycle, Next
  <1>2. ASSUME ControlStep
        PROVE  part = "control" /\ part' = part /\ ControlNext
               /\ UNCHANGED <<avatarVars, deliveryVars, generationVars>>
    BY <1>2 DEF ControlStep, InControl, ControlNext
  <1>3. ASSUME PublisherAlone
        PROVE  part = "publisher" /\ part' = part /\ PublisherNext
               /\ UNCHANGED <<vars, controlVars, avatarVars, deliveryVars, generationVars>>
    BY <1>3 DEF PublisherAlone, InPublisher, PublisherNext, StartStep
  <1>4. ASSUME AvatarStep
        PROVE  part = "avatar" /\ part' = part /\ AvatarNext
               /\ UNCHANGED <<publisherVars, controlVars, deliveryVars, generationVars>>
    BY <1>4, ControlAssumption DEF AvatarStep, InAvatar, AvatarNext
  <1>5. ASSUME DeliveryStep
        PROVE  part = "delivery" /\ part' = part /\ DeliveryNext
               /\ UNCHANGED <<allVars, avatarVars, generationVars>>
    BY <1>5 DEF DeliveryStep, InDelivery, DeliveryNext
  <1>6. ASSUME GenerationStep
        PROVE  part = "generation" /\ part' = part /\ GenerationNext
               /\ UNCHANGED <<allVars, avatarVars, deliveryVars>>
    BY <1>6 DEF GenerationStep, InGeneration, GenerationNext
  <1>7. LifecycleStep => StepOfParts
    BY <1>1 DEF StepOfParts
  <1>8. ControlStep => StepOfParts
    BY <1>2, ControlIsLifecycle, ControlIsPublisher DEF StepOfParts
  <1>9. PublisherAlone => StepOfParts
    BY <1>3 DEF StepOfParts
  <1>10. AvatarStep => StepOfParts
    BY <1>4, AvatarIsLifecycle DEF StepOfParts
  <1>11. DeliveryStep => StepOfParts
    BY <1>5 DEF StepOfParts, allVars
  <1>12. GenerationStep => StepOfParts
    BY <1>6 DEF StepOfParts, allVars
  <1>13. UNCHANGED allParts => StepOfParts
    BY DEF StepOfParts, allParts, allVars, avatarMeetingVars
  <1> QED
    BY <1>7, <1>8, <1>9, <1>10, <1>11, <1>12, <1>13 DEF ServicesNext

\* Nothing has begun.
LEMMA ServicesInvInit == ServicesInit => ServicesInv
  <1> SUFFICES ASSUME ServicesInit
               PROVE  ServicesInv
    OBVIOUS
  <1>1. Init /\ PublisherInit /\ ControlInit /\ AvatarInit /\ DeliveryInit /\ GenerationInit
    BY DEF ServicesInit, ControlInit
  <1>2. TypeOK
    BY <1>1, TypeInit
  <1>3. DeliveryInv /\ GenerationInv
    BY <1>1, DeliveryInvInit, GenerationInvInit
  <1>4. ControlInv /\ AvatarInv
    BY <1>1, ControlInvInit, AvatarInvInit
  <1>5. ControlRests /\ status[Control] = Absent /\ session = NoSession
    BY <1>1, ControlAssumption DEF ControlInit, ControlRests, Init, PublisherInit
  <1>6. part # "avatar" => AvatarRests
    <2>1. part # "avatar" => pod = [m \in Meetings |-> {}]
      BY <1>1 DEF ServicesInit, AvatarInit
    <2> QED
      BY <1>1, <2>1 DEF AvatarInit, AvatarRests
  <1> QED
    BY <1>2, <1>3, <1>4, <1>5, <1>6 DEF ServicesInv, PartInv

\* Every part keeps its own invariant, and the resting ones keep resting.
LEMMA ServicesInvNext == ServicesInv /\ [ServicesNext]_allParts => ServicesInv'
  <1> SUFFICES ASSUME ServicesInv, StepOfParts
               PROVE  ServicesInv'
    BY ServicesIsParts
  <1>1. TypeOK'
    BY TypeNext DEF ServicesInv, StepOfParts
  <1>2. DeliveryInv' /\ GenerationInv'
    BY DeliveryInvNext, GenerationInvNext DEF ServicesInv, StepOfParts
  <1>3. part = "control" => ControlInv'
    BY ControlInvNext DEF ServicesInv, PartInv, StepOfParts
  <1>4. part = "avatar" => AvatarInv'
    BY AvatarInvNext DEF ServicesInv, PartInv, StepOfParts
  <1>5. part # "avatar" => AvatarRests'
    BY DEF ServicesInv, PartInv, StepOfParts, AvatarRests, avatarVars
  <1>6. part = "publisher" => status'[Control] = Absent
    BY DEF ServicesInv, PartInv, StepOfParts, vars
  <1>7. part \notin {"control", "publisher"} => session' = NoSession
    BY DEF ServicesInv, PartInv, StepOfParts, publisherVars
  <1>8. part # "control" => ControlRests'
    BY <1>6, <1>7 DEF ServicesInv, PartInv, StepOfParts, ControlRests, controlVars
  <1> QED
    BY <1>1, <1>2, <1>3, <1>4, <1>5, <1>6, <1>7, <1>8 DEF ServicesInv, PartInv, StepOfParts

\* An invariant of the parts is one of the whole.
THEOREM ServicesInvCorrect == ServicesSpec => []ServicesInv
  <1> QED
    BY ServicesInvInit, ServicesInvNext, PTL DEF ServicesSpec

-----------------------------------------------------------------------------
\* What a part at rest says of the properties.
LEMMA RestMeans ==
    ASSUME ServicesInv
    PROVE  /\ ControlTypeOK /\ AvatarTypeOK
           /\ part = "control" => OneStartAtATime
           /\ part = "avatar" => EntryIffOpen
           /\ PublisherOutlivesMeetingForAReason /\ PodOutlivesMeetingForAReason
           /\ ProjectionFollowsMeeting /\ FinishedInterviewMeansEnded /\ QuestionsCounted
  <1>1. /\ part = "control" => ControlInv
        /\ part # "control" => ControlRests
        /\ part = "avatar" => AvatarInv
        /\ part # "avatar" => AvatarRests
        /\ TypeOK
    BY DEF ServicesInv, PartInv
  <1>2. ControlRests => /\ ControlTypeOK /\ PublisherOutlivesMeetingForAReason
                        /\ ProjectionFollowsMeeting /\ FinishedInterviewMeansEnded
    <2> SUFFICES ASSUME ControlRests
                 PROVE  /\ ControlTypeOK /\ PublisherOutlivesMeetingForAReason
                        /\ ProjectionFollowsMeeting /\ FinishedInterviewMeansEnded
      OBVIOUS
    <2>1. Cardinality({}) = 0
      BY FS_EmptySet
    <2>2. fresh \subseteq Starts /\ Cardinality(fresh) <= 1
      BY <2>1 DEF ControlRests
    <2>3. presence \in [armed: BOOLEAN, stopped: BOOLEAN] /\ presence.armed = FALSE
      BY DEF ControlRests, NoRow
    <2>4. ControlTypeOK
      BY <2>2, <2>3 DEF ControlRests, ControlTypeOK
    <2> QED
      BY <2>4 DEF ControlRests, PublisherOutlivesMeetingForAReason, isFinishedMeeting,
                  ProjectionFollowsMeeting, FinishedInterviewMeansEnded, isFinishedInterview,
                  Absent, Finished
  <1>3. AvatarRests => AvatarTypeOK /\ PodOutlivesMeetingForAReason /\ QuestionsCounted
    <2> SUFFICES ASSUME AvatarRests
                 PROVE  AvatarTypeOK /\ PodOutlivesMeetingForAReason /\ QuestionsCounted
      OBVIOUS
    <2>1. Cardinality({}) = 0
      BY FS_EmptySet
    <2>2. AvatarTypeOK
      BY <1>1, SourceAssumption DEF AvatarRests, AvatarTypeOK, NoEntry
    <2>3. PodOutlivesMeetingForAReason
      BY DEF AvatarRests, PodOutlivesMeetingForAReason
    <2>4. QuestionsCounted
      BY <2>1 DEF AvatarRests, QuestionsCounted
    <2> QED
      BY <2>2, <2>3, <2>4
  <1> QED
    BY <1>1, <1>2, <1>3, ControlInvMeans, AvatarInvMeans

\* Every variable of a meeting's services has its type.
THEOREM ServicesTypesCorrect == ServicesSpec => []ServicesTypeOK
  <1>1. ServicesInv => ServicesTypeOK
    BY RestMeans, GenerationInvMeans DEF ServicesInv, ServicesTypeOK
  <1> QED
    BY <1>1, ServicesInvCorrect, PTL

\* Neither the publisher (rtmpTtsSessionManager) nor the avatar on the pod outlives its
\* meeting without a reason, however start, stop and the pod's answers interleave.
THEOREM NothingOutlivesCorrect == ServicesSpec => []NothingOutlivesItsMeeting
  <1>1. ServicesInv => NothingOutlivesItsMeeting
    BY RestMeans DEF NothingOutlivesItsMeeting
  <1> QED
    BY <1>1, ServicesInvCorrect, PTL

\* The handlers of the control plane never start two publishers at once, and keep the
\* interview and its meeting together.
THEOREM ControlInOrderCorrect == ServicesSpec => []ControlInOrder
  <1>1. ServicesInv => ControlInOrder
    BY RestMeans DEF ControlInOrder
  <1> QED
    BY <1>1, ServicesInvCorrect, PTL

\* The question index of the avatar counts every response and command once.
THEOREM QuestionsCountedCorrect == ServicesSpec => []QuestionsCounted
  <1>1. ServicesInv => QuestionsCounted
    BY RestMeans
  <1> QED
    BY <1>1, ServicesInvCorrect, PTL

\* Webhooks and generations are tried again as their policy says, whatever passes overlap
\* and whenever a process that works on a generation is gone.
THEOREM RetriesCorrect == ServicesSpec => []RetriesKeepTheirPolicy
  <1>1. ServicesInv => RetriesKeepTheirPolicy
    BY GenerationInvMeans DEF ServicesInv, DeliveryInv, RetriesKeepTheirPolicy
  <1> QED
    BY <1>1, ServicesInvCorrect, PTL

\* What has become of a webhook or of a generation is final.
THEOREM FinalIsFinalCorrect == ServicesSpec => FinalIsFinal
  <1>1. ServicesInv /\ [ServicesNext]_allParts
            => [\A e \in Events :
                   items[e].status \in {"delivered",
                   "terminal_failed"} /\ e \notin deliveryExcused'
                       => items'[e].status = items[e].status]_deliveryVars
    BY ServicesIsParts, SettledStep DEF ServicesInv, StepOfParts
  <1>2. ServicesInv /\ [ServicesNext]_allParts
            => [\A j \in Jobs :
                   record[j] # NoRecord /\ record[j].state \in Final => record'[j] = record[j]
               ]_generationVars
    BY ServicesIsParts, FinalStep DEF ServicesInv, StepOfParts
  <1> QED
    BY <1>1, <1>2, ServicesInvCorrect, PTL
    DEF ServicesSpec, FinalIsFinal, SettledIsFinal, FinalStays

\* Whatever runs beside it, the meetings, the publisher, the webhooks and the generations
\* each behave as their own specification says.
THEOREM ServicesImplementParts ==
    ServicesSpec => Spec /\ PublisherSpec /\ DeliverySpec /\ GenerationSpec
  <1>1. ServicesInit => Init /\ PublisherInit /\ DeliveryInit /\ GenerationInit
    BY DEF ServicesInit, ControlInit
  <1>2. [ServicesNext]_allParts
            => /\ [Next]_vars /\ [PublisherNext]_publisherVars
               /\ [DeliveryNext]_deliveryVars /\ [GenerationNext]_generationVars
    BY ServicesIsParts DEF StepOfParts
  <1> QED
    BY <1>1, <1>2, PTL DEF ServicesSpec, Spec, PublisherSpec, DeliverySpec, GenerationSpec

\* So what is proved of the meetings and of the publisher alone holds beside all the rest:
\* the outcome promised, the webhooks of every transition, and who owns each process.
THEOREM ServicesCorrect ==
    ServicesSpec => /\ ImplementsOutcome
                    /\ [](EveryTransitionReported /\ PostProcessingIffFinished)
                    /\ [](RunningIsOwned /\ SnapshotTellsTheSession)
  BY ServicesImplementParts, PromiseKept, ReportCorrect, PostProcessingCorrect, OwnerCorrect,
     SnapshotCorrect, PTL
================================================================================
