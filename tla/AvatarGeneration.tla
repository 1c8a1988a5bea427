--------------------------- MODULE AvatarGeneration ---------------------------
(***************************************************************************)
(* POST /avatar/generate: a job's record is in Redis; runJob takes the job *)
(* through up to three attempts on the GPU worker, within a wall-clock     *)
(* budget, and changes the record by reading it, merging, and writing it   *)
(* back; the sweeper reads all records, and afterwards fails those that    *)
(* have been processing for too long.  Redis may fail each time: then      *)
(* there is no record to read, and a write is lost.                        *)
(*                                                                         *)
(* Redis answers at once as far as the clock is concerned, and a sweep is  *)
(* over before the clock goes on; the worker may take any time that its    *)
(* timeouts leave.                                                         *)
(***************************************************************************)
EXTENDS Naturals

CONSTANTS Jobs,
          NoRecord,
          Wall,     \* wallClockMs
          Stale,    \* staleMs
          Horizon   \* bound: the clock

\* A job is not stale before it is out of time, and its last request has ended: 600 and
\* 180 seconds by default.
ASSUME GenerationAssumption == Wall \in Nat /\ Stale \in Nat /\ Stale > Wall + 1

VARIABLES
    time,
    record,   \* the record of a job in Redis
    run,      \* runJob: where it is, its attempt, and the change it is making
    posted,    \* POSTs to the worker so far
    listed, \* what the sweeper's listJobs has found
    swept     \* jobs that the sweeper has failed

generationVars == <<time, record, run, posted, listed, swept>>

WorkerAttempts == 3
Final == {"completed", "failed"}
JobState == {"queued", "processing", "hydrating"} \cup Final

\* The change that patch makes ("same" leaves the state as it is), and where runJob goes
\* on after it.
Change(state, retries, next) == [state |-> state, retries |-> retries, next |-> next]
NoChange == Change("queued", 0, "new")

Goes(j, pc) == run' = [run EXCEPT ![j].pc = pc]
Patches(j, state, retries, next) ==
    run' = [run EXCEPT ![j].pc = "patching", ![j].change = Change(state, retries, next)]

GenerationInit ==
    /\ time = 0
    /\ record = [j \in Jobs |-> NoRecord]
    /\ run = [j \in Jobs |-> [pc |-> "new", attempt |-> 0, born |-> 0, read |-> NoRecord,
                              change |-> NoChange]]
    /\ posted = [j \in Jobs |-> 0]
    /\ listed = [j \in Jobs |-> NoRecord]
    /\ swept = {}

-----------------------------------------------------------------------------
(* The job store, and the clock                                            *)

\* save: the write may be lost.
save(j, r) == record' \in {record, [record EXCEPT ![j] = r]}

\* get: what is there, or nothing.
Got(j) == {record[j], NoRecord}

Deadline(j) == run[j].born + Wall

\* What a job waits for ends in time: a request by the deadline, a poll soon after it.
InTime(j) ==
    CASE run[j].pc \in {"new", "ended"} -> TRUE
      [] run[j].pc = "generating"       -> time < Deadline(j)
      [] run[j].pc \in {"attempt", "polling"} -> time <= Deadline(j)
      [] OTHER                          -> FALSE

TimePasses ==
    /\ time < Horizon
    /\ \A j \in Jobs : InTime(j) /\ listed[j] = NoRecord
    /\ time' = time + 1
    /\ UNCHANGED <<record, run, posted, listed, swept>>

-----------------------------------------------------------------------------
(* enqueue and runJob                                                      *)

enqueue(j) ==
    /\ run[j].pc = "new"
    /\ time + Stale <= Horizon   \* bound: there is time for it to become stale
    /\ save(j, [state |-> "queued", retries |-> 0, since |-> time])
    /\ run' = [run EXCEPT ![j].pc = "queued", ![j].born = time]
    /\ UNCHANGED <<time, posted, listed, swept>>

\* A job whose record is not found is dropped.
runJob(j) ==
    /\ run[j].pc = "queued"
    /\ \E r \in Got(j) :
          IF r = NoRecord THEN Goes(j, "ended") ELSE Patches(j, "processing", 0, "attempt")
    /\ UNCHANGED <<time, record, posted, listed, swept>>

\* patch: read the record,
patchReads(j) ==
    /\ run[j].pc = "patching"
    /\ \E r \in Got(j) :
          run' = [run EXCEPT ![j].read = r,
                             ![j].pc = IF r = NoRecord THEN run[j].change.next ELSE "patched"]
    /\ UNCHANGED <<time, record, posted, listed, swept>>

\* and write it back with the change; the first change sets processingStartedAt.
Patched(r, change) ==
    [state |-> IF change.state = "same" THEN r.state ELSE change.state,
     retries |-> change.retries,
     since |-> IF change.state = "processing" THEN time ELSE r.since]

patchWrites(j) ==
    /\ run[j].pc = "patched"
    /\ save(j, Patched(run[j].read, run[j].change))
    /\ run' = [run EXCEPT ![j].pc = run[j].change.next, ![j].read = NoRecord]
    /\ UNCHANGED <<time, posted, listed, swept>>

Over(j) == time >= Deadline(j)

\* Mutant: the number of attempts is not looked at.
LastAttempt_Never(j) == FALSE

LastAttempt(j) == run[j].attempt = WorkerAttempts - 1

outOfTime(j) ==
    /\ run[j].pc = "attempt"
    /\ Over(j)
    /\ Patches(j, "failed", run[j].attempt, "ended")
    /\ UNCHANGED <<time, record, posted, listed, swept>>

generate(j) ==
    /\ run[j].pc = "attempt"
    /\ ~Over(j)
    /\ Goes(j, "generating")
    /\ posted' = [posted EXCEPT ![j] = @ + 1]
    /\ UNCHANGED <<time, record, listed, swept>>

\* An HTTP error, a timeout, a poll that fails: the next attempt, if there is one.
tryAgain(j) ==
    /\ run[j].pc \in {"generating", "polling"}
    /\ LET n == run[j].attempt + 1
       IN  run' = [run EXCEPT ![j].pc = "patching", ![j].attempt = n,
                              ![j].change = IF LastAttempt(j) THEN Change("failed", n, "ended")
                                            ELSE Change("same", n, "attempt")]
    /\ UNCHANGED <<time, record, posted, listed, swept>>

\* The worker has a job of its own for it, which is polled.
workerJob(j) ==
    /\ run[j].pc = "generating"
    /\ Goes(j, "polling")
    /\ UNCHANGED <<time, record, posted, listed, swept>>

\* The worker reports failure, or an answer without a video, as a poll does that has
\* run out of time.
noVideo(j) ==
    /\ run[j].pc \in {"generating", "polling"}
    /\ Patches(j, "failed", run[j].attempt, "ended")
    /\ UNCHANGED <<time, record, posted, listed, swept>>

video(j) ==
    /\ run[j].pc \in {"generating", "polling"}
    /\ Patches(j, "hydrating", run[j].attempt, "hydrated")
    /\ UNCHANGED <<time, record, posted, listed, swept>>

complete(j) ==
    /\ run[j].pc = "hydrated"
    /\ Patches(j, "completed", run[j].attempt, "ended")
    /\ UNCHANGED <<time, record, posted, listed, swept>>

\* The process restarts; no job is resumed.
Crash ==
    /\ \E j \in Jobs : run[j].pc \notin {"new", "ended"}
    /\ run' = [j \in Jobs |-> IF run[j].pc = "new" THEN run[j]
                              ELSE [run[j] EXCEPT !.pc = "ended"]]
    /\ listed' = [j \in Jobs |-> NoRecord]
    /\ UNCHANGED <<time, record, posted, swept>>

-----------------------------------------------------------------------------
(* The sweeper                                                             *)

listJobs ==
    /\ listed = [j \in Jobs |-> NoRecord]
    /\ listed' = record
    /\ UNCHANGED <<time, record, run, posted, swept>>

\* Mutant: a job is stale as soon as it is processing.
IsStale_AtOnce(r) == r # NoRecord /\ r.state = "processing"

\* Mutant: a job that is being tried again is taken for a live one.
IsStale_NoRetry(r) ==
    r # NoRecord /\ r.state = "processing" /\ r.retries = 0 /\ time - r.since >= Stale

IsStale(r) == r # NoRecord /\ r.state = "processing" /\ time - r.since >= Stale

sweep(j) ==
    /\ listed[j] # NoRecord
    /\ IF IsStale(listed[j])
       THEN /\ record' = [record EXCEPT ![j] = [listed[j] EXCEPT !.state = "failed"]]
            /\ swept' = swept \cup {j}
       ELSE UNCHANGED <<record, swept>>
    /\ listed' = [listed EXCEPT ![j] = NoRecord]
    /\ UNCHANGED <<time, run, posted>>

sweepIsLost(j) ==
    /\ listed[j] # NoRecord
    /\ listed' = [listed EXCEPT ![j] = NoRecord]
    /\ UNCHANGED <<time, record, run, posted, swept>>

-----------------------------------------------------------------------------
GenerationNext ==
    \/ TimePasses \/ Crash \/ listJobs
    \/ \E j \in Jobs :
          \/ enqueue(j) \/ runJob(j) \/ patchReads(j) \/ patchWrites(j)
          \/ outOfTime(j) \/ generate(j) \/ tryAgain(j) \/ workerJob(j)
          \/ noVideo(j) \/ video(j) \/ complete(j) \/ sweep(j) \/ sweepIsLost(j)

GenerationSpec == GenerationInit /\ [][GenerationNext]_generationVars

\* runJob and its timeouts go on, the clock runs, the sweeper comes back, and Redis
\* takes a write now and then.
GenerationFairness ==
    /\ SF_generationVars(TimePasses)
    /\ WF_generationVars(listJobs)
    /\ \A j \in Jobs :
          /\ WF_generationVars(runJob(j) \/ patchReads(j) \/ patchWrites(j) \/ outOfTime(j)
                               \/ generate(j) \/ tryAgain(j) \/ noVideo(j) \/ video(j)
                               \/ complete(j))
          /\ SF_generationVars(sweep(j))

FairGenerationSpec == GenerationSpec /\ GenerationFairness

-----------------------------------------------------------------------------
(* Properties                                                              *)

GenerationTypeOK ==
    LET Record == [state: JobState, retries: 0..WorkerAttempts, since: Nat]
    IN  /\ time \in Nat
        /\ record \in [Jobs -> Record \cup {NoRecord}]
        /\ listed \in [Jobs -> Record \cup {NoRecord}]
        /\ posted \in [Jobs -> 0..WorkerAttempts]
        /\ swept \subseteq Jobs

\* What a client was told last stays: a record that is completed or failed changes no
\* more, whatever of the sweeper and the job comes late.
FinalStays ==
    [][\A j \in Jobs :
          record[j] # NoRecord /\ record[j].state \in Final => record'[j] = record[j]
      ]_generationVars

\* The worker is posted three times at most, and the record never says that it was posted
\* more often than it was.
WorkerAskedThrice ==
    \A j \in Jobs : /\ posted[j] <= WorkerAttempts
                    /\ record[j] # NoRecord => record[j].retries <= posted[j]

\* The sweeper fails only jobs that nobody works on.
SweptWereAbandoned == \A j \in swept : run[j].pc = "ended"

\* A job that is processing is completed, failed or hydrated in the end, also when the
\* process that worked on it is gone.
InProcessing(j) == record[j] # NoRecord /\ record[j].state = "processing"

ProcessingEnds == \A j \in Jobs : InProcessing(j) ~> ~InProcessing(j)
=============================================================================
