------------------------- MODULE ConnectionsProofs -------------------------
(***************************************************************************)
(* Of the seven parts of MCConnections, for any number of meetings, calls, *)
(* sessions, sockets, commands, starts, clips and pages: one inductive     *)
(* invariant for each part, and from it the properties of the whole.  The  *)
(* parts share no variable, so a step of the whole is a step of one part   *)
(* and a stutter of the others (StepsOfTheParts), and what holds of a part *)
(* by itself holds of it here.                                             *)
(***************************************************************************)
EXTENDS MCConnections, Integers, FunctionTheorems, FiniteSetTheorems, SequenceTheorems,
        WellFoundedInduction, TLAPS

-----------------------------------------------------------------------------
(* The recording.  After the stop of a meeting no call starts it again,    *)
(* and one that stops it is still to be executed; while calls do not       *)
(* overlap, the one that runs has not yet parted the metadata from what    *)
(* the provider does, or will write what it has read.                      *)

Stages == {"settings", "post", "wait", "get", "got"}
CallRecords == [kind: Kinds, meeting: Meetings, attempt: 1..StartAttempts, seen: States, stage: Stages]

\* Only the automatic start waits, with an attempt left, and a reading makes no POST.
StageFits(call) ==
    /\ call.stage = "wait" => call.kind = "auto" /\ call.attempt < StartAttempts
    /\ call.stage \in {"settings", "post", "wait"} => call.kind # "get"

RecordingTypes ==
    /\ status \in [Meetings -> MeetingStatus \cup {Absent}]
    /\ calls \in [Calls -> {Idle} \cup CallRecords]
    /\ \A c \in Calls : calls[c] # Idle => StageFits(calls[c])
    /\ RecordingTypeOK

\* Nothing has happened at the provider to a meeting that does not exist.
NotBefore(m) ==
    status[m] = Absent =>
        /\ recording[m] = "idle" /\ Running(m) = {} /\ metadata[m] = "unset"
        /\ <<m, "start">> \notin strays /\ <<m, "stop">> \notin strays

\* A meeting that was stopped has no start under way, and its stop still to come.
StopComes(m) ==
    status[m] \in Finished /\ recordingExcused[m] \cap {"raced", "unstopped"} = {} =>
        /\ \A c \in Running(m) : Verb(calls[c].kind) # "start"
        /\ <<m, "start">> \notin strays
        /\ recording[m] = "recording" =>
              \E c \in Running(m) : Verb(calls[c].kind) = "stop" /\ calls[c].stage = "post"

TruthTold(m) ==
    \/ metadata[m] = recording[m]
    \/ metadata[m] \in {"unset", "failed"} /\ recording[m] = "idle"

\* The one call that runs leaves the metadata true, or will make it so.
CallTells(m, c) ==
    /\ calls[c].stage \in {"settings", "post", "wait"} =>
          TruthTold(m) /\ (calls[c].kind = "auto" => recording[m] = "idle")
    /\ calls[c].stage = "got" => calls[c].seen = recording[m]

OneAtATime(m) ==
    recordingExcused[m] \cap {"overlapped", "lost"} = {} =>
        /\ <<m, "start">> \notin strays /\ <<m, "stop">> \notin strays
        /\ \A c, d \in Running(m) : c = d
        /\ \A c \in Running(m) : CallTells(m, c)
        /\ Running(m) = {} => TruthTold(m)

OfMeeting(m) == NotBefore(m) /\ StopComes(m) /\ OneAtATime(m)

RecordingInv == RecordingTypes /\ \A m \in Meetings : OfMeeting(m)

\* The invariant says what the run checks of the recording.
LEMMA RecordingInvImplies ==
  ASSUME RecordingInv
  PROVE  RecordingKept
  <1>1. RecordingTypeOK
    BY DEF RecordingInv, RecordingTypes
  <1>2. RecordingOutlivesMeetingForAReason
    BY DEF RecordingInv, OfMeeting, StopComes, RecordingOutlivesMeetingForAReason, Quiet
  <1>3. MetadataIsTrue
    BY DEF RecordingInv, OfMeeting, OneAtATime, TruthTold, MetadataIsTrue, Quiet
  <1> QED
    BY <1>1, <1>2, <1>3 DEF RecordingKept

\* It holds before any meeting has begun.
LEMMA RecordingInitHolds ==
  ASSUME RecordingInit
  PROVE  RecordingInv
  <1>1. RecordingTypes
    BY DEF RecordingInit, Init, RecordingTypes, RecordingTypeOK, States, Absent
  <1>2. ASSUME NEW m \in Meetings
        PROVE  OfMeeting(m)
    BY DEF RecordingInit, Init, OfMeeting, NotBefore, StopComes, OneAtATime, TruthTold, Running,
           Absent, Finished
  <1> QED
    BY <1>1, <1>2 DEF RecordingInv

\* A meeting that a step does not touch stays as it is.
LEMMA OthersStay ==
  ASSUME RecordingInv, NEW n \in Meetings,
         Running(n)' = Running(n), \A c \in Running(n) : calls'[c] = calls[c],
         status'[n] = status[n], recording'[n] = recording[n], metadata'[n] = metadata[n],
         recordingExcused'[n] = recordingExcused[n],
         \A verb \in {"start", "stop"} : <<n, verb>> \in strays' => <<n, verb>> \in strays
  PROVE  OfMeeting(n)'
  <1>0. OfMeeting(n)
    BY DEF RecordingInv
  <1>1. NotBefore(n)'
    BY <1>0 DEF OfMeeting, NotBefore
  <1>2. StopComes(n)'
    BY <1>0 DEF OfMeeting, StopComes
  <1>3. OneAtATime(n)'
    BY <1>0 DEF OfMeeting, OneAtATime, CallTells, TruthTold
  <1> QED
    BY <1>1, <1>2, <1>3 DEF OfMeeting

\* A call that changes, ends or begins: r is what it becomes.
LEMMA CallBecomes ==
  ASSUME RecordingTypes, NEW c \in Calls, NEW r \in {Idle} \cup CallRecords, NEW m \in Meetings,
         calls' = [calls EXCEPT ![c] = r],
         calls[c] = Idle \/ calls[c].meeting = m, r = Idle \/ r.meeting = m
  PROVE  /\ calls' \in [Calls -> {Idle} \cup CallRecords]
         /\ calls'[c] = r /\ \A d \in Calls \ {c} : calls'[d] = calls[d]
         /\ Running(m)' = IF r = Idle THEN Running(m) \ {c} ELSE Running(m) \cup {c}
         /\ \A n \in Meetings \ {m} : /\ Running(n)' = Running(n)
                                      /\ \A d \in Running(n) : calls'[d] = calls[d]
  <1>1. /\ calls \in [Calls -> {Idle} \cup CallRecords]
        /\ calls' \in [Calls -> {Idle} \cup CallRecords]
        /\ calls'[c] = r /\ \A d \in Calls \ {c} : calls'[d] = calls[d]
    BY DEF RecordingTypes
  <1>2. Running(m)' = IF r = Idle THEN Running(m) \ {c} ELSE Running(m) \cup {c}
    BY <1>1 DEF Running
  <1>3. ASSUME NEW n \in Meetings \ {m}
        PROVE  Running(n)' = Running(n) /\ \A d \in Running(n) : calls'[d] = calls[d]
    <2>1. c \notin Running(n) /\ c \notin Running(n)'
      BY <1>1, <1>3 DEF Running
    <2> QED
      BY <1>1, <2>1 DEF Running
  <1> QED
    BY <1>1, <1>2, <1>3

\* The provider's state has a state of it whatever is executed.
LEMMA ExecutedType ==
  ASSUME NEW m \in Meetings, NEW verb, recording \in [Meetings -> States]
  PROVE  /\ Executed(m, verb) \in [Meetings -> States]
         /\ \A n \in Meetings \ {m} : Executed(m, verb)[n] = recording[n]
         /\ verb # "start" => Executed(m, verb)[m] # "recording"
  BY DEF Executed, States

\* A step of one meeting's call leaves the other meetings as they are.
LEMMA OneMeeting ==
  ASSUME RecordingInv, NEW c \in Calls, NEW r \in {Idle} \cup CallRecords, NEW m \in Meetings,
         calls' = [calls EXCEPT ![c] = r],
         calls[c] = Idle \/ calls[c].meeting = m, r = Idle \/ r.meeting = m,
         \A n \in Meetings \ {m} :
            /\ status'[n] = status[n] /\ recording'[n] = recording[n]
            /\ metadata'[n] = metadata[n] /\ recordingExcused'[n] = recordingExcused[n],
         strays' \subseteq strays \cup {<<m, "start">>, <<m, "stop">>},
         OfMeeting(m)', RecordingTypes'
  PROVE  RecordingInv'
  <1>0. ASSUME NEW n \in Meetings \ {m}
        PROVE  Running(n)' = Running(n) /\ \A d \in Running(n) : calls'[d] = calls[d]
    <2>1. /\ calls \in [Calls -> {Idle} \cup CallRecords]
          /\ calls'[c] = r /\ \A d \in Calls \ {c} : calls'[d] = calls[d]
      BY DEF RecordingInv, RecordingTypes
    <2>2. c \notin Running(n) /\ c \notin Running(n)'
      BY <2>1, <1>0 DEF Running
    <2> QED
      BY <2>1, <2>2 DEF Running
  <1>1. ASSUME NEW n \in Meetings \ {m}
        PROVE  OfMeeting(n)'
    <2>1. Running(n)' = Running(n) /\ \A d \in Running(n) : calls'[d] = calls[d]
      BY <1>0
    <2>2. \A verb \in {"start", "stop"} : <<n, verb>> \in strays' => <<n, verb>> \in strays
      BY <1>1
    <2> QED
      BY <1>1, <2>1, <2>2, OthersStay
  <1> QED
    BY <1>1 DEF RecordingInv

\* A call that begins is told of by the excuses of its meeting.
LEMMA BeginKeeps ==
  ASSUME RecordingInv, NEW m \in Meetings, NEW kind \in Kinds,
         NEW stage \in {"settings", "post", "get"}, Begin(kind, m, stage),
         status' \in [Meetings -> MeetingStatus \cup {Absent}], status'[m] # Absent,
         \A n \in Meetings \ {m} : status'[n] = status[n],
         \/ kind = "auto" /\ stage = "settings" /\ status[m] = Absent /\ status'[m] \notin Finished
         \/ kind = "end" /\ stage = "post" /\ status[m] # Absent /\ status'[m] \in Finished
         \/ /\ kind \in {"start", "stop"} /\ stage = "post" /\ status[m] # Absent
            /\ status'[m] = status[m]
         \/ kind = "get" /\ stage = "get" /\ status[m] # Absent /\ status'[m] = status[m]
  PROVE  RecordingInv'
  <1> DEFINE r == Call(kind, m, stage)
  <1>1. PICK c \in Calls : calls[c] = Idle /\ calls' = [calls EXCEPT ![c] = r]
    BY DEF Begin
  <1>2. /\ recordingExcused' = [recordingExcused EXCEPT ![m] = @ \cup Excuse(m, kind)]
        /\ UNCHANGED <<recording, metadata, strays>>
    BY DEF Begin
  <1>3. r \in CallRecords /\ r # Idle /\ r.meeting = m /\ r.kind = kind /\ r.stage = stage
        /\ r.stage # "wait" /\ r.stage # "got"
    BY AttemptsAssumption DEF Call, CallRecords, Stages, States, Idle, Kinds
  <1> HIDE DEF r
  <1>4. /\ calls' \in [Calls -> {Idle} \cup CallRecords]
        /\ calls'[c] = r /\ \A d \in Calls \ {c} : calls'[d] = calls[d]
        /\ Running(m)' = Running(m) \cup {c} /\ c \notin Running(m)
    <2>1. RecordingTypes /\ r \in {Idle} \cup CallRecords
      BY <1>3 DEF RecordingInv
    <2>2. c \notin Running(m)
      BY <1>1 DEF Running
    <2> QED
      BY <1>1, <1>3, <2>1, <2>2, CallBecomes
  <1>5. recordingExcused \in [Meetings -> SUBSET {"raced", "unstopped", "lost", "overlapped"}]
    BY DEF RecordingInv, RecordingTypes, RecordingTypeOK
  <1>6. /\ recordingExcused' \in [Meetings -> SUBSET {"raced", "unstopped", "lost", "overlapped"}]
        /\ recordingExcused'[m] = recordingExcused[m] \cup Excuse(m, kind)
        /\ \A n \in Meetings \ {m} : recordingExcused'[n] = recordingExcused[n]
    BY <1>2, <1>5 DEF Excuse
  <1>7. RecordingTypes'
    <2>1. \A d \in Calls : calls'[d] # Idle => StageFits(calls'[d])
      BY <1>3, <1>4 DEF RecordingInv, RecordingTypes, StageFits
    <2>2. \A d \in Calls : calls'[d] = Idle \/ calls'[d] \in CallRecords
      BY <1>4
    <2> QED
      BY <1>2, <1>4, <1>6, <2>1, <2>2
      DEF RecordingInv, RecordingTypes, RecordingTypeOK, CallRecords, Stages
  <1>8. OfMeeting(m)'
    <2>0. OfMeeting(m) /\ Running(m) \subseteq Calls
      BY DEF RecordingInv, Running
    <2>1. NotBefore(m)'
      BY DEF NotBefore
    <2>2. StopComes(m)'
      <3> SUFFICES ASSUME status'[m] \in Finished, recordingExcused'[m] \cap {"raced", "unstopped"} = {}
                   PROVE  /\ \A d \in Running(m)' : Verb(calls'[d].kind) # "start"
                          /\ <<m, "start">> \notin strays
                          /\ recording[m] = "recording" =>
                               \E d \in Running(m)' : Verb(calls'[d].kind) = "stop" /\ calls'[d].stage = "post"
        BY <1>2 DEF StopComes
      <3>1. "raced" \notin Excuse(m, kind) /\ recordingExcused[m] \cap {"raced", "unstopped"} = {}
        BY <1>6
      <3>2. CASE kind = "end"
        <4>1. /\ \A d \in Running(m) : Verb(calls[d].kind) # "start"
              /\ <<m, "start">> \notin strays
          BY <3>1, <3>2 DEF Excuse
        <4>2. Verb(calls'[c].kind) = "stop" /\ calls'[c].stage = "post"
          BY <1>3, <1>4, <3>2 DEF Verb
        <4> QED
          BY <1>4, <2>0, <4>1, <4>2
      <3>3. CASE kind \in {"start", "stop", "get"}
        <4>1. status[m] \in Finished /\ kind # "start"
          BY <3>1, <3>3 DEF Excuse
        <4>2. /\ \A d \in Running(m) : Verb(calls[d].kind) # "start"
              /\ <<m, "start">> \notin strays
              /\ recording[m] = "recording" =>
                    \E d \in Running(m) : Verb(calls[d].kind) = "stop" /\ calls[d].stage = "post"
          BY <2>0, <3>1, <4>1 DEF OfMeeting, StopComes
        <4>3. Verb(calls'[c].kind) # "start"
          BY <1>3, <1>4, <3>3, <4>1 DEF Verb
        <4> QED
          BY <1>4, <2>0, <4>2, <4>3
      <3> QED
        BY <3>2, <3>3
    <2>3. OneAtATime(m)'
      <3> SUFFICES ASSUME recordingExcused'[m] \cap {"overlapped", "lost"} = {}
                   PROVE  /\ <<m, "start">> \notin strays /\ <<m, "stop">> \notin strays
                          /\ Running(m)' = {c} /\ CallTells(m, c)'
        BY <1>2 DEF OneAtATime
      <3>1. Running(m) = {} /\ recordingExcused[m] \cap {"overlapped", "lost"} = {}
        BY <1>6 DEF Excuse
      <3>2. <<m, "start">> \notin strays /\ <<m, "stop">> \notin strays /\ TruthTold(m)
        BY <2>0, <3>1 DEF OfMeeting, OneAtATime
      <3>3. kind = "auto" => recording[m] = "idle"
        BY <2>0 DEF OfMeeting, NotBefore
      <3>4. CallTells(m, c)'
        BY <1>2, <1>3, <1>4, <3>2, <3>3 DEF CallTells, TruthTold
      <3> QED
        BY <1>4, <3>1, <3>2, <3>4
    <2> QED
      BY <2>1, <2>2, <2>3 DEF OfMeeting
  <1> QED
    BY <1>1, <1>2, <1>3, <1>6, <1>7, <1>8, OneMeeting

\* What a step of a call c of m has to do: keep to its meeting and its types, excuse itself
\* when it stops nothing, and leave the metadata true or about to be.
LEMMA StepKeeps ==
  ASSUME RecordingInv, NEW c \in Calls, calls[c] # Idle, NEW m \in Meetings, calls[c].meeting = m,
         NEW r \in {Idle} \cup CallRecords, calls' = [calls EXCEPT ![c] = r],
         r # Idle => r.meeting = m /\ r.kind = calls[c].kind /\ StageFits(r),
         status' = status,
         recording' \in [Meetings -> States],
         metadata' \in [Meetings -> States \cup {"unset", "failed"}],
         recordingExcused' \in [Meetings -> SUBSET {"raced", "unstopped", "lost", "overlapped"}],
         recordingExcused[m] \subseteq recordingExcused'[m],
         \A n \in Meetings \ {m} : /\ recording'[n] = recording[n] /\ metadata'[n] = metadata[n]
                                   /\ recordingExcused'[n] = recordingExcused[n],
         strays' \subseteq strays \cup ({<<m, Verb(calls[c].kind)>>} \cap (Meetings \X {"start", "stop"})),
         Verb(calls[c].kind) # "start" /\ recording'[m] = "recording" => recording[m] = "recording",
         Verb(calls[c].kind) = "stop" /\ calls[c].stage = "post"
            => "unstopped" \in recordingExcused'[m] \/ recording'[m] # "recording",
         /\ recordingExcused'[m] \cap {"overlapped", "lost"} = {}
         /\ CallTells(m, c)
         => /\ strays' = strays
            /\ IF r = Idle THEN TruthTold(m)' ELSE CallTells(m, c)'
  PROVE  RecordingInv'
  <1>1. RecordingTypes /\ OfMeeting(m) /\ c \in Running(m) /\ Running(m) \subseteq Calls
    BY DEF RecordingInv, Running
  <1>2. /\ calls' \in [Calls -> {Idle} \cup CallRecords]
        /\ calls'[c] = r /\ \A d \in Calls \ {c} : calls'[d] = calls[d]
    BY <1>1 DEF RecordingTypes
  <1>3. Running(m)' = IF r = Idle THEN Running(m) \ {c} ELSE Running(m)
    BY <1>1, <1>2 DEF Running
  <1>4. RecordingTypes'
    <2>1. \A d \in Calls : calls'[d] # Idle => StageFits(calls'[d])
      BY <1>1, <1>2 DEF RecordingTypes
    <2>2. \A d \in Calls : calls'[d] = Idle \/ calls'[d] \in CallRecords
      BY <1>2
    <2>3. strays' \subseteq Meetings \X {"start", "stop"}
      BY <1>1 DEF RecordingTypes, RecordingTypeOK
    <2>4. status' \in [Meetings -> MeetingStatus \cup {Absent}]
      BY <1>1 DEF RecordingTypes
    <2>5. RecordingTypeOK'
      BY <2>2, <2>3 DEF RecordingTypeOK, CallRecords, Stages
    <2>6. \A d \in Calls : (calls[d] # Idle => StageFits(calls[d]))'
      BY <2>1 DEF StageFits
    <2> QED
      BY <1>2, <2>4, <2>5, <2>6 DEF RecordingTypes
  <1>5. NotBefore(m)'
    BY <1>1 DEF OfMeeting, NotBefore
  <1>6. StopComes(m)'
    <2> SUFFICES ASSUME status[m] \in Finished, recordingExcused'[m] \cap {"raced", "unstopped"} = {}
                 PROVE  /\ \A d \in Running(m)' : Verb(calls'[d].kind) # "start"
                        /\ <<m, "start">> \notin strays'
                        /\ recording'[m] = "recording" =>
                             \E d \in Running(m)' : Verb(calls'[d].kind) = "stop" /\ calls'[d].stage = "post"
      BY DEF StopComes
    <2>1. /\ \A d \in Running(m) : Verb(calls[d].kind) # "start"
          /\ <<m, "start">> \notin strays
          /\ recording[m] = "recording" =>
                \E d \in Running(m) : Verb(calls[d].kind) = "stop" /\ calls[d].stage = "post"
      BY <1>1 DEF OfMeeting, StopComes
    <2>2. Verb(calls[c].kind) # "start"
      BY <1>1, <2>1
    <2>3. \A d \in Running(m)' : Verb(calls'[d].kind) # "start"
      BY <1>1, <1>2, <1>3, <2>1
    <2>4. <<m, "start">> \notin strays'
      BY <2>1, <2>2
    <2>5. ASSUME recording'[m] = "recording"
          PROVE  \E d \in Running(m)' : Verb(calls'[d].kind) = "stop" /\ calls'[d].stage = "post"
      <3>1. PICK d \in Running(m) : Verb(calls[d].kind) = "stop" /\ calls[d].stage = "post"
        BY <2>1, <2>2, <2>5
      <3>2. d # c
        BY <2>5, <3>1
      <3>3. d \in Running(m)' /\ calls'[d] = calls[d]
        BY <1>1, <1>2, <1>3, <3>1, <3>2
      <3> QED
        BY <3>1, <3>3
    <2> QED
      BY <2>3, <2>4, <2>5
  <1>7. OneAtATime(m)'
    <2> SUFFICES ASSUME recordingExcused'[m] \cap {"overlapped", "lost"} = {}
                 PROVE  /\ <<m, "start">> \notin strays' /\ <<m, "stop">> \notin strays'
                        /\ \A d, e \in Running(m)' : d = e
                        /\ \A d \in Running(m)' : CallTells(m, d)'
                        /\ Running(m)' = {} => TruthTold(m)'
      <3>1. (\A d \in Running(m) : CallTells(m, d))' <=> \A d \in Running(m)' : CallTells(m, d)'
        OBVIOUS
      <3> QED
        BY <3>1 DEF OneAtATime
    <2>1. /\ <<m, "start">> \notin strays /\ <<m, "stop">> \notin strays
          /\ \A d, e \in Running(m) : d = e
          /\ CallTells(m, c)
      BY <1>1 DEF OfMeeting, OneAtATime
    <2>2. Running(m) = {c}
      BY <1>1, <2>1
    <2>3. strays' = strays /\ IF r = Idle THEN TruthTold(m)' ELSE CallTells(m, c)'
      BY <2>1
    <2>4. CASE r = Idle
      BY <1>3, <2>1, <2>2, <2>3, <2>4
    <2>5. CASE r # Idle
      BY <1>3, <2>1, <2>2, <2>3, <2>5
    <2> QED
      BY <2>4, <2>5
  <1>8. \A n \in Meetings \ {m} : status'[n] = status[n]
    OBVIOUS
  <1>9. strays' \subseteq strays \cup {<<m, "start">>, <<m, "stop">>}
    OBVIOUS
  <1>10. OfMeeting(m)'
    BY <1>5, <1>6, <1>7 DEF OfMeeting
  <1> QED
    BY <1>4, <1>8, <1>9, <1>10, OneMeeting

\* What the state of the parts that a call changes is before its step.
LEMMA CallBefore ==
  ASSUME RecordingInv, NEW c \in Calls, calls[c] # Idle
  PROVE  /\ calls[c] \in CallRecords /\ calls[c].meeting \in Meetings /\ StageFits(calls[c])
         /\ recording \in [Meetings -> States]
         /\ metadata \in [Meetings -> States \cup {"unset", "failed"}]
         /\ recordingExcused \in [Meetings -> SUBSET {"raced", "unstopped", "lost", "overlapped"}]
  BY DEF RecordingInv, RecordingTypes, RecordingTypeOK, CallRecords

\* The steps that only move the call on: its settings, its backoff and its reading.
LEMMA MovesOnKeep ==
  ASSUME RecordingInv, NEW c \in Calls, SettingsDone(c) \/ BackoffOver(c) \/ Read(c)
  PROVE  RecordingInv'
  <1>1. calls[c] # Idle /\ UNCHANGED <<vars, recording, metadata, strays, recordingExcused>>
    BY DEF SettingsDone, BackoffOver, Read
  <1>0. PICK m \in Meetings : calls[c].meeting = m
    BY <1>1, CallBefore
  <1>2. /\ calls[c] \in CallRecords /\ StageFits(calls[c])
        /\ recording \in [Meetings -> States]
        /\ metadata \in [Meetings -> States \cup {"unset", "failed"}]
        /\ recordingExcused \in [Meetings -> SUBSET {"raced", "unstopped", "lost", "overlapped"}]
    BY <1>1, CallBefore
  <1>3. status' = status
    BY <1>1 DEF vars
  <1>4. ASSUME NEW r \in CallRecords, calls' = [calls EXCEPT ![c] = r],
               r.meeting = m, r.kind = calls[c].kind, StageFits(r),
               calls[c].stage # "post",
               CallTells(m, c) => CallTells(m, c)'
        PROVE  RecordingInv'
    <2>1. r # Idle
      BY <1>4 DEF CallRecords, Idle, Kinds
    <2>2. /\ metadata' = metadata /\ recording' = recording /\ strays' = strays
          /\ recordingExcused' = recordingExcused
      BY <1>1
    <2>4. \A n \in Meetings \ {m} : /\ recording'[n] = recording[n] /\ metadata'[n] = metadata[n]
                                     /\ recordingExcused'[n] = recordingExcused[n]
      BY <2>2
    <2>5. /\ r \in {Idle} \cup CallRecords
          /\ r # Idle => r.meeting = m /\ r.kind = calls[c].kind /\ StageFits(r)
      BY <1>4
    <2>6. /\ recording' \in [Meetings -> States]
          /\ metadata' \in [Meetings -> States \cup {"unset", "failed"}]
          /\ recordingExcused' \in [Meetings -> SUBSET {"raced", "unstopped", "lost", "overlapped"}]
          /\ recordingExcused[m] \subseteq recordingExcused'[m]
      BY <1>2, <2>2
    <2>7. /\ recordingExcused'[m] \cap {"overlapped", "lost"} = {}
          /\ CallTells(m, c)
          => /\ strays' = strays
             /\ IF r = Idle THEN TruthTold(m)' ELSE CallTells(m, c)'
      BY <1>4, <2>1, <2>2
    <2> QED
      BY <1>0, <1>1, <1>3, <1>4, <2>2, <2>4, <2>5, <2>6, <2>7, StepKeeps
  <1>5. calls \in [Calls -> {Idle} \cup CallRecords]
    BY DEF RecordingInv, RecordingTypes
  <1>6. CASE SettingsDone(c)
    <2> DEFINE r == [calls[c] EXCEPT !.stage = "post"]
    <2>1. /\ r \in CallRecords /\ r.meeting = m /\ r.kind = calls[c].kind /\ r.stage = "post"
          /\ calls[c].stage = "settings" /\ calls' = [calls EXCEPT ![c] = r]
      BY <1>0, <1>2, <1>5, <1>6 DEF SettingsDone, CallRecords, Stages
    <2>2. StageFits(r)
      BY <1>2, <2>1 DEF StageFits
    <2>3. CallTells(m, c) => CallTells(m, c)'
      BY <1>1, <1>5, <2>1 DEF CallTells, TruthTold
    <2> QED
      BY <1>4, <2>1, <2>2, <2>3
  <1>7. CASE BackoffOver(c)
    <2> DEFINE r == [calls[c] EXCEPT !.stage = "post", !.attempt = calls[c].attempt + 1]
    <2>0. calls[c].stage = "wait" /\ calls[c].attempt + 1 \in 1 .. StartAttempts
      BY <1>2, <1>7, AttemptsAssumption DEF BackoffOver, StageFits, CallRecords
    <2>1. /\ r \in CallRecords /\ r.meeting = m /\ r.kind = calls[c].kind /\ r.stage = "post"
      BY <1>0, <1>2, <2>0 DEF CallRecords, Stages
    <2>2. calls' = [calls EXCEPT ![c] = r]
      BY <1>2, <1>5, <1>7 DEF BackoffOver, CallRecords
    <2>3. StageFits(r)
      BY <1>2, <2>0, <2>1 DEF StageFits
    <2>4. calls'[c] = r
      BY <1>5, <2>2
    <2>5. CallTells(m, c) => CallTells(m, c)'
      BY <1>1, <2>0, <2>1, <2>4 DEF CallTells, TruthTold
    <2> QED
      BY <1>4, <2>0, <2>1, <2>2, <2>3, <2>5
  <1>8. CASE Read(c)
    <2> DEFINE r == [calls[c] EXCEPT !.stage = "got", !.seen = recording[m]]
    <2>1. /\ r \in CallRecords /\ r.meeting = m /\ r.kind = calls[c].kind /\ r.stage = "got"
          /\ r.seen = recording[m] /\ calls[c].stage = "get"
      BY <1>0, <1>2, <1>8 DEF Read, CallRecords, Stages
    <2>2. calls' = [calls EXCEPT ![c] = r]
      BY <1>0, <1>2, <1>5, <1>8 DEF Read, CallRecords
    <2>3. StageFits(r)
      BY <2>1 DEF StageFits
    <2>4. calls'[c] = r
      BY <1>5, <2>2
    <2>5. CallTells(m, c) => CallTells(m, c)'
      BY <1>1, <2>1, <2>4 DEF CallTells
    <2> QED
      BY <1>4, <2>1, <2>2, <2>3, <2>5
  <1> QED
    BY <1>6, <1>7, <1>8

\* The POST is executed, or the provider does nothing: the state is asked for.
LEMMA PostedKeeps ==
  ASSUME RecordingInv, NEW c \in Calls, Posted(c) \/ Processing(c)
  PROVE  RecordingInv'
  <1>1. /\ calls[c] # Idle /\ calls[c].stage = "post" /\ UNCHANGED <<vars, metadata, strays>>
        /\ calls' = [calls EXCEPT ![c].stage = "get"]
    BY DEF Posted, Processing
  <1>0. PICK m \in Meetings : calls[c].meeting = m
    BY <1>1, CallBefore
  <1>2. /\ calls[c] \in CallRecords /\ StageFits(calls[c])
        /\ recording \in [Meetings -> States]
        /\ metadata \in [Meetings -> States \cup {"unset", "failed"}]
        /\ recordingExcused \in [Meetings -> SUBSET {"raced", "unstopped", "lost", "overlapped"}]
    BY <1>1, CallBefore
  <1>3. calls \in [Calls -> {Idle} \cup CallRecords]
    BY DEF RecordingInv, RecordingTypes
  <1>4. PICK r \in CallRecords : r = [calls[c] EXCEPT !.stage = "get"]
    BY <1>2 DEF CallRecords, Stages
  <1>5. /\ calls' = [calls EXCEPT ![c] = r] /\ r # Idle
        /\ r.meeting = m /\ r.kind = calls[c].kind /\ r.stage = "get"
    BY <1>0, <1>1, <1>2, <1>3, <1>4 DEF CallRecords, Idle, Kinds
  <1>6. StageFits(r) /\ CallTells(m, c)'
    BY <1>3, <1>5 DEF StageFits, CallTells
  <1>7. status' = status
    BY <1>1 DEF vars
  <1>8. /\ recording' \in [Meetings -> States]
        /\ recordingExcused' \in [Meetings -> SUBSET {"raced", "unstopped", "lost", "overlapped"}]
        /\ recordingExcused[m] \subseteq recordingExcused'[m]
        /\ \A n \in Meetings \ {m} : /\ recording'[n] = recording[n]
                                     /\ recordingExcused'[n] = recordingExcused[n]
        /\ Verb(calls[c].kind) # "start" /\ recording'[m] = "recording" => recording[m] = "recording"
        /\ Verb(calls[c].kind) = "stop"
              => "unstopped" \in recordingExcused'[m] \/ recording'[m] # "recording"
    <2>1. CASE Posted(c)
      <3>1. recording' = Executed(m, Verb(calls[c].kind)) /\ recordingExcused' = recordingExcused
        BY <1>0, <2>1 DEF Posted
      <3> QED
        BY <1>2, <3>1, ExecutedType
    <2>2. CASE Processing(c)
      <3>1. /\ recordingExcused' = [recordingExcused EXCEPT ![m] = @ \cup Unstopped(c)]
            /\ recording' = recording
        BY <1>0, <2>2 DEF Processing
      <3>2. /\ Unstopped(c) \subseteq {"unstopped"}
            /\ Verb(calls[c].kind) = "stop" => "unstopped" \in Unstopped(c)
        BY DEF Unstopped
      <3> QED
        BY <1>2, <3>1, <3>2
    <2> QED
      BY <2>1, <2>2
  <1>9. /\ metadata' \in [Meetings -> States \cup {"unset", "failed"}]
        /\ metadata' = metadata /\ strays' = strays
    BY <1>1, <1>2
  <1>10. \A n \in Meetings \ {m} : /\ recording'[n] = recording[n] /\ metadata'[n] = metadata[n]
                                    /\ recordingExcused'[n] = recordingExcused[n]
    BY <1>8, <1>9
  <1>11. /\ r \in {Idle} \cup CallRecords
         /\ r # Idle => r.meeting = m /\ r.kind = calls[c].kind /\ StageFits(r)
    BY <1>4, <1>5, <1>6
  <1>12. /\ recordingExcused'[m] \cap {"overlapped", "lost"} = {}
         /\ CallTells(m, c)
         => /\ strays' = strays
            /\ IF r = Idle THEN TruthTold(m)' ELSE CallTells(m, c)'
    BY <1>5, <1>6, <1>9
  <1>13. /\ recording' \in [Meetings -> States]
         /\ recordingExcused' \in [Meetings -> SUBSET {"raced", "unstopped", "lost", "overlapped"}]
         /\ recordingExcused[m] \subseteq recordingExcused'[m]
    BY <1>8
  <1>14. /\ Verb(calls[c].kind) # "start" /\ recording'[m] = "recording" => recording[m] = "recording"
         /\ Verb(calls[c].kind) = "stop" /\ calls[c].stage = "post"
              => "unstopped" \in recordingExcused'[m] \/ recording'[m] # "recording"
    BY <1>8
  <1>15. calls[c] # Idle /\ calls' = [calls EXCEPT ![c] = r] /\ strays' \subseteq strays
    BY <1>1, <1>5, <1>9
  <1> QED
    BY <1>0, <1>7, <1>9, <1>10, <1>11, <1>12, <1>13, <1>14, <1>15, StepKeeps, ZenonT(60)

\* A call that has failed tells the metadata so when it is an automatic start.
LEMMA FailureTold ==
  ASSUME RecordingInv, NEW c \in Calls, calls[c] # Idle, NEW m \in Meetings, calls[c].meeting = m,
         NEW retryable \in BOOLEAN, GiveUpOrRetry(c, retryable)
  PROVE  /\ metadata' \in [Meetings -> States \cup {"unset", "failed"}]
         /\ \A n \in Meetings \ {m} : metadata'[n] = metadata[n]
         /\ metadata'[m] = metadata[m] \/ (calls[c].kind = "auto" /\ metadata'[m] = "failed")
  <1>1. metadata \in [Meetings -> States \cup {"unset", "failed"}]
    BY CallBefore
  <1>2. \/ metadata' = metadata
        \/ calls[c].kind = "auto" /\ metadata' = [metadata EXCEPT ![m] = "failed"]
    BY DEF GiveUpOrRetry
  <1> QED
    BY <1>1, <1>2

\* A call that has failed ends, or waits for another attempt.
LEMMA EndsOrWaits ==
  ASSUME RecordingInv, NEW c \in Calls, calls[c] # Idle, NEW m \in Meetings, calls[c].meeting = m,
         NEW retryable \in BOOLEAN, GiveUpOrRetry(c, retryable)
  PROVE  \E r \in {Idle} \cup CallRecords :
            /\ calls' = [calls EXCEPT ![c] = r]
            /\ r # Idle => /\ r.meeting = m /\ r.kind = calls[c].kind /\ StageFits(r)
                           /\ r.kind = "auto" /\ r.stage = "wait" /\ metadata' = metadata
  <1>1. calls[c] \in CallRecords
    BY CallBefore
  <1>2. calls \in [Calls -> {Idle} \cup CallRecords]
    BY DEF RecordingInv, RecordingTypes
  <1>3. CASE calls[c].kind = "auto" /\ retryable /\ AttemptsLeft(calls[c])
    <2>1. calls' = [calls EXCEPT ![c].stage = "wait"] /\ metadata' = metadata
      BY <1>3 DEF GiveUpOrRetry
    <2>2. PICK r \in CallRecords : r = [calls[c] EXCEPT !.stage = "wait"]
      BY <1>1 DEF CallRecords, Stages
    <2>3. r.meeting = m /\ r.kind = "auto" /\ r.stage = "wait" /\ r.attempt = calls[c].attempt
      BY <1>1, <1>3, <2>2 DEF CallRecords
    <2>4. calls' = [calls EXCEPT ![c] = r]
      BY <1>1, <1>2, <2>1, <2>2 DEF CallRecords
    <2>5. StageFits(r)
      BY <1>3, <2>3 DEF StageFits, AttemptsLeft
    <2> QED
      BY <1>3, <2>1, <2>3, <2>4, <2>5
  <1>4. CASE ~(calls[c].kind = "auto" /\ retryable /\ AttemptsLeft(calls[c]))
    <2>1. calls' = [calls EXCEPT ![c] = Idle]
      BY <1>4 DEF GiveUpOrRetry
    <2> QED
      BY <2>1
  <1> QED
    BY <1>3, <1>4

\* A call that is refused: what was true of the metadata before its POST still is.
LEMMA RefusedKeeps ==
  ASSUME RecordingInv, NEW c \in Calls, Refused(c)
  PROVE  RecordingInv'
  <1>1. /\ calls[c] # Idle /\ calls[c].stage \in {"post", "get"} /\ GiveUpOrRetry(c, TRUE)
        /\ UNCHANGED <<vars, recording, strays>>
    BY DEF Refused
  <1>0. PICK m \in Meetings : calls[c].meeting = m
    BY <1>1, CallBefore
  <1>2. /\ recording \in [Meetings -> States]
        /\ recordingExcused \in [Meetings -> SUBSET {"raced", "unstopped", "lost", "overlapped"}]
        /\ calls \in [Calls -> {Idle} \cup CallRecords]
    BY <1>1, CallBefore DEF RecordingInv, RecordingTypes
  <1>3. /\ metadata' \in [Meetings -> States \cup {"unset", "failed"}]
        /\ \A n \in Meetings \ {m} : metadata'[n] = metadata[n]
        /\ metadata'[m] = metadata[m] \/ (calls[c].kind = "auto" /\ metadata'[m] = "failed")
    BY <1>0, <1>1, FailureTold
  <1>4. PICK r \in {Idle} \cup CallRecords :
            /\ calls' = [calls EXCEPT ![c] = r]
            /\ r # Idle => /\ r.meeting = m /\ r.kind = calls[c].kind /\ StageFits(r)
                           /\ r.kind = "auto" /\ r.stage = "wait" /\ metadata' = metadata
    BY <1>0, <1>1, EndsOrWaits, ZenonT(60)
  <1>5. recordingExcused' = [recordingExcused EXCEPT ![m] = @ \cup Unstopped(c)
              \cup (IF calls[c].stage = "get" THEN {"lost"} ELSE {})]
    BY <1>0 DEF Refused
  <1>6. /\ Unstopped(c) \subseteq {"unstopped"}
        /\ Verb(calls[c].kind) = "stop" => "unstopped" \in Unstopped(c)
    BY DEF Unstopped
  <1>7. status' = status /\ recording' = recording /\ strays' = strays
    BY <1>1 DEF vars
  <1>8. /\ recordingExcused' \in [Meetings -> SUBSET {"raced", "unstopped", "lost", "overlapped"}]
        /\ recordingExcused[m] \subseteq recordingExcused'[m]
        /\ \A n \in Meetings \ {m} : recordingExcused'[n] = recordingExcused[n]
        /\ Unstopped(c) \subseteq recordingExcused'[m]
        /\ calls[c].stage = "get" => "lost" \in recordingExcused'[m]
    BY <1>2, <1>5, <1>6
  <1>9. calls'[c] = r
    BY <1>2, <1>4
  <1>10. \A n \in Meetings \ {m} : /\ recording'[n] = recording[n] /\ metadata'[n] = metadata[n]
                                    /\ recordingExcused'[n] = recordingExcused[n]
    BY <1>3, <1>7, <1>8
  <1>11. /\ r \in {Idle} \cup CallRecords
         /\ r # Idle => r.meeting = m /\ r.kind = calls[c].kind /\ StageFits(r)
    BY <1>4
  <1>12. /\ recordingExcused'[m] \cap {"overlapped", "lost"} = {}
         /\ CallTells(m, c)
         => /\ strays' = strays
            /\ IF r = Idle THEN TruthTold(m)' ELSE CallTells(m, c)'
    <2> SUFFICES ASSUME recordingExcused'[m] \cap {"overlapped", "lost"} = {}, CallTells(m, c)
                 PROVE  IF r = Idle THEN TruthTold(m)' ELSE CallTells(m, c)'
      BY <1>7
    <2>1. TruthTold(m) /\ (calls[c].kind = "auto" => recording[m] = "idle")
      BY <1>1, <1>8 DEF CallTells
    <2>2. TruthTold(m)'
      BY <1>3, <1>7, <2>1 DEF TruthTold
    <2>3. r # Idle => CallTells(m, c)'
      BY <1>4, <1>7, <1>9, <2>1, <2>2 DEF CallTells
    <2> QED
      BY <2>2, <2>3
  <1>13. /\ recording' \in [Meetings -> States]
         /\ recordingExcused' \in [Meetings -> SUBSET {"raced", "unstopped", "lost", "overlapped"}]
         /\ recordingExcused[m] \subseteq recordingExcused'[m]
    BY <1>2, <1>7, <1>8
  <1>14. /\ Verb(calls[c].kind) # "start" /\ recording'[m] = "recording" => recording[m] = "recording"
         /\ Verb(calls[c].kind) = "stop" /\ calls[c].stage = "post"
              => "unstopped" \in recordingExcused'[m] \/ recording'[m] # "recording"
    BY <1>6, <1>7, <1>8
  <1>15. calls[c] # Idle /\ calls' = [calls EXCEPT ![c] = r] /\ strays' \subseteq strays
    BY <1>1, <1>4, <1>7
  <1> QED
    BY <1>0, <1>3, <1>7, <1>10, <1>11, <1>12, <1>13, <1>14, <1>15, StepKeeps, ZenonT(60)

\* A call whose answer is lost is excused, whatever becomes of its request.
LEMMA LostKeeps ==
  ASSUME RecordingInv, NEW c \in Calls, Lost(c)
  PROVE  RecordingInv'
  <1>1. /\ calls[c] # Idle /\ calls[c].stage \in {"post", "get"} /\ GiveUpOrRetry(c, FALSE)
        /\ status' = status
    BY DEF Lost, vars
  <1>0. PICK m \in Meetings : calls[c].meeting = m
    BY <1>1, CallBefore
  <1>2. /\ recording \in [Meetings -> States] /\ StageFits(calls[c]) /\ calls[c] \in CallRecords
        /\ recordingExcused \in [Meetings -> SUBSET {"raced", "unstopped", "lost", "overlapped"}]
    BY <1>1, CallBefore
  <1>3. /\ metadata' \in [Meetings -> States \cup {"unset", "failed"}]
        /\ \A n \in Meetings \ {m} : metadata'[n] = metadata[n]
    BY <1>0, <1>1, FailureTold
  <1>4. PICK r \in {Idle} \cup CallRecords :
            /\ calls' = [calls EXCEPT ![c] = r]
            /\ r # Idle => /\ r.meeting = m /\ r.kind = calls[c].kind /\ StageFits(r)
                           /\ r.kind = "auto" /\ r.stage = "wait" /\ metadata' = metadata
    BY <1>0, <1>1, EndsOrWaits, ZenonT(60)
  <1>5. recordingExcused' = [recordingExcused EXCEPT ![m] = @ \cup {"lost"} \cup Unstopped(c)]
    BY <1>0 DEF Lost
  <1>6. /\ Unstopped(c) \subseteq {"unstopped"}
        /\ Verb(calls[c].kind) = "stop" => "unstopped" \in Unstopped(c)
    BY DEF Unstopped
  <1>7. \/ UNCHANGED <<recording, strays>>
        \/ recording' = Executed(m, Verb(calls[c].kind)) /\ UNCHANGED strays
        \/ /\ calls[c].stage = "post" /\ strays' = strays \cup {<<m, Verb(calls[c].kind)>>}
           /\ UNCHANGED recording
    BY <1>0 DEF Lost
  <1>8. /\ recordingExcused' \in [Meetings -> SUBSET {"raced", "unstopped", "lost", "overlapped"}]
        /\ recordingExcused[m] \subseteq recordingExcused'[m]
        /\ \A n \in Meetings \ {m} : recordingExcused'[n] = recordingExcused[n]
        /\ Unstopped(c) \subseteq recordingExcused'[m] /\ "lost" \in recordingExcused'[m]
    BY <1>2, <1>5, <1>6
  <1>9. /\ recording' \in [Meetings -> States]
        /\ \A n \in Meetings \ {m} : recording'[n] = recording[n]
        /\ Verb(calls[c].kind) # "start" /\ recording'[m] = "recording" => recording[m] = "recording"
    BY <1>2, <1>7, ExecutedType
  <1>10. \A n \in Meetings \ {m} : /\ recording'[n] = recording[n] /\ metadata'[n] = metadata[n]
                                    /\ recordingExcused'[n] = recordingExcused[n]
    BY <1>3, <1>8, <1>9
  <1>11. calls[c].stage = "post" => Verb(calls[c].kind) \in {"start", "stop"}
    BY <1>2 DEF StageFits, Verb, CallRecords, Kinds
  <1>12. strays' \subseteq strays \cup ({<<m, Verb(calls[c].kind)>>} \cap (Meetings \X {"start", "stop"}))
    BY <1>7, <1>11
  <1>13. /\ recordingExcused'[m] \cap {"overlapped", "lost"} = {}
         /\ CallTells(m, c)
         => /\ strays' = strays
            /\ IF r = Idle THEN TruthTold(m)' ELSE CallTells(m, c)'
    BY <1>8
  <1>14. /\ Verb(calls[c].kind) # "start" /\ recording'[m] = "recording" => recording[m] = "recording"
         /\ Verb(calls[c].kind) = "stop" /\ calls[c].stage = "post"
              => "unstopped" \in recordingExcused'[m] \/ recording'[m] # "recording"
    BY <1>6, <1>8, <1>9
  <1>15. /\ recording' \in [Meetings -> States]
         /\ recordingExcused' \in [Meetings -> SUBSET {"raced", "unstopped", "lost", "overlapped"}]
         /\ recordingExcused[m] \subseteq recordingExcused'[m]
    BY <1>8, <1>9
  <1>16. /\ r \in {Idle} \cup CallRecords
         /\ r # Idle => r.meeting = m /\ r.kind = calls[c].kind /\ StageFits(r)
    BY <1>4
  <1>17. calls[c] # Idle /\ calls' = [calls EXCEPT ![c] = r] /\ status' = status
    BY <1>1, <1>4
  <1>18. metadata' \in [Meetings -> States \cup {"unset", "failed"}]
    BY <1>3
  <1> QED
    BY <1>0, <1>10, <1>12, <1>13, <1>14, <1>15, <1>16, <1>17, <1>18, StepKeeps, ZenonT(60)

\* The answer is written: it was true when no other call and no stray came between.
LEMMA AppliedKeeps ==
  ASSUME RecordingInv, NEW c \in Calls, Applied(c)
  PROVE  RecordingInv'
  <1>1. /\ calls[c] # Idle /\ calls[c].stage = "got" /\ status' = status
        /\ calls' = [calls EXCEPT ![c] = Idle]
        /\ UNCHANGED <<recording, strays, recordingExcused>>
    BY DEF Applied
  <1>0. PICK m \in Meetings : calls[c].meeting = m
    BY <1>1, CallBefore
  <1>2. /\ recording \in [Meetings -> States] /\ calls[c] \in CallRecords
        /\ metadata \in [Meetings -> States \cup {"unset", "failed"}]
        /\ recordingExcused \in [Meetings -> SUBSET {"raced", "unstopped", "lost", "overlapped"}]
    BY <1>1, CallBefore
  <1>3. metadata' = [metadata EXCEPT ![m] = calls[c].seen]
    BY <1>0 DEF Applied
  <1>4. /\ metadata' \in [Meetings -> States \cup {"unset", "failed"}]
        /\ metadata'[m] = calls[c].seen
        /\ \A n \in Meetings \ {m} : metadata'[n] = metadata[n]
    BY <1>2, <1>3 DEF CallRecords
  <1>5. recording' = recording /\ strays' = strays /\ recordingExcused' = recordingExcused
    BY <1>1
  <1>6. \A n \in Meetings \ {m} : /\ recording'[n] = recording[n] /\ metadata'[n] = metadata[n]
                                    /\ recordingExcused'[n] = recordingExcused[n]
    BY <1>4, <1>5
  <1>7. PICK r \in {Idle} \cup CallRecords : r = Idle
    OBVIOUS
  <1>8. /\ recordingExcused'[m] \cap {"overlapped", "lost"} = {}
         /\ CallTells(m, c)
         => /\ strays' = strays
            /\ IF r = Idle THEN TruthTold(m)' ELSE CallTells(m, c)'
    BY <1>1, <1>4, <1>5, <1>7 DEF CallTells, TruthTold
  <1>9. /\ recording' \in [Meetings -> States]
        /\ recordingExcused' \in [Meetings -> SUBSET {"raced", "unstopped", "lost", "overlapped"}]
        /\ recordingExcused[m] \subseteq recordingExcused'[m]
    BY <1>2, <1>5
  <1>10. /\ Verb(calls[c].kind) # "start" /\ recording'[m] = "recording" => recording[m] = "recording"
         /\ Verb(calls[c].kind) = "stop" /\ calls[c].stage = "post"
              => "unstopped" \in recordingExcused'[m] \/ recording'[m] # "recording"
    BY <1>1, <1>5
  <1>11. calls[c] # Idle /\ calls' = [calls EXCEPT ![c] = r] /\ strays' \subseteq strays
    BY <1>1, <1>5, <1>7
  <1>12. /\ r \in {Idle} \cup CallRecords
         /\ r # Idle => r.meeting = m /\ r.kind = calls[c].kind /\ StageFits(r)
    BY <1>7
  <1>13. status' = status /\ metadata' \in [Meetings -> States \cup {"unset", "failed"}]
    BY <1>1, <1>4
  <1> QED
    BY <1>0, <1>13, <1>6, <1>8, <1>9, <1>10, <1>11, <1>12, StepKeeps, ZenonT(60)

\* A request that was given up is executed at last: it starts no recording that was stopped.
LEMMA StrayExecutedKeeps ==
  ASSUME RecordingInv, StrayExecuted
  PROVE  RecordingInv'
  <1>1. RecordingTypes
    BY DEF RecordingInv
  <1>2. PICK stray \in strays : /\ strays' = strays \ {stray}
                                /\ recording' = Executed(stray[1], stray[2])
                                /\ UNCHANGED <<vars, calls, metadata, recordingExcused>>
    BY DEF StrayExecuted
  <1>3. PICK m \in Meetings, verb \in {"start", "stop"} : stray = <<m, verb>>
    BY <1>1 DEF RecordingTypes, RecordingTypeOK
  <1>4. /\ recording' = Executed(m, verb) /\ recording \in [Meetings -> States]
        /\ status' = status /\ calls' = calls /\ metadata' = metadata
        /\ recordingExcused' = recordingExcused /\ strays' \subseteq strays
    BY <1>1, <1>2, <1>3 DEF vars, RecordingTypes, RecordingTypeOK
  <1>5. /\ recording' \in [Meetings -> States]
        /\ \A n \in Meetings \ {m} : recording'[n] = recording[n]
        /\ verb # "start" => recording'[m] # "recording"
    BY <1>4, ExecutedType
  <1>6. RecordingTypes'
    BY <1>1, <1>4, <1>5 DEF RecordingTypes, RecordingTypeOK, StageFits
  <1>7. \A n \in Meetings : Running(n)' = Running(n)
    BY <1>4 DEF Running
  <1>8. ASSUME NEW n \in Meetings \ {m}
        PROVE  OfMeeting(n)'
    <2>1. \A v \in {"start", "stop"} : <<n, v>> \in strays' => <<n, v>> \in strays
      BY <1>4
    <2>2. Running(n)' = Running(n) /\ \A c \in Running(n) : calls'[c] = calls[c]
      BY <1>4, <1>7
    <2>3. /\ status'[n] = status[n] /\ recording'[n] = recording[n] /\ metadata'[n] = metadata[n]
          /\ recordingExcused'[n] = recordingExcused[n]
      BY <1>4, <1>5
    <2> QED
      BY <2>1, <2>2, <2>3, OthersStay
  <1>9. OfMeeting(m)'
    <2>1. OfMeeting(m) /\ <<m, verb>> \in strays
      BY <1>2, <1>3 DEF RecordingInv
    <2>2. NotBefore(m)'
      BY <1>4, <2>1 DEF OfMeeting, NotBefore
    <2>3. StopComes(m)'
      BY <1>4, <1>5, <1>7, <2>1 DEF OfMeeting, StopComes
    <2>4. OneAtATime(m)'
      BY <1>4, <2>1 DEF OfMeeting, OneAtATime
    <2> QED
      BY <2>2, <2>3, <2>4 DEF OfMeeting
  <1> QED
    BY <1>6, <1>8, <1>9 DEF RecordingInv

\* A request that was given up and never came, and the sweep of the post-processor.
LEMMA NothingDoneKeeps ==
  ASSUME RecordingInv,
         \/ StrayGone
         \/ ClearQueued /\ UNCHANGED recordingVars
         \/ UNCHANGED recordedVars
  PROVE  RecordingInv'
  <1>1. /\ status' = status /\ calls' = calls /\ metadata' = metadata /\ recording' = recording
        /\ recordingExcused' = recordingExcused /\ strays' \subseteq strays
    BY DEF StrayGone, ClearQueued, recordedVars, recordingVars, vars
  <1>2. RecordingTypes'
    BY <1>1 DEF RecordingInv, RecordingTypes, RecordingTypeOK, StageFits
  <1>3. ASSUME NEW n \in Meetings
        PROVE  OfMeeting(n)'
    <2>1. \A v \in {"start", "stop"} : <<n, v>> \in strays' => <<n, v>> \in strays
      BY <1>1
    <2>2. Running(n)' = Running(n) /\ \A c \in Running(n) : calls'[c] = calls[c]
      BY <1>1 DEF Running
    <2>3. /\ status'[n] = status[n] /\ recording'[n] = recording[n] /\ metadata'[n] = metadata[n]
          /\ recordingExcused'[n] = recordingExcused[n]
      BY <1>1
    <2> QED
      BY <2>1, <2>2, <2>3, OthersStay
  <1> QED
    BY <1>2, <1>3 DEF RecordingInv

\* A meeting that fails goes on being recorded: a finding, and no change of the invariant,
\* which speaks of meetings that were stopped.
LEMMA FailRecordedKeeps ==
  ASSUME RecordingInv, NEW m \in Meetings, NEW s \in FailStatus, NEW why \in Reasons,
         FailRecorded(m, s, why)
  PROVE  RecordingInv'
  <1>1. /\ calls' = calls /\ metadata' = metadata /\ recording' = recording
        /\ recordingExcused' = recordingExcused /\ strays' = strays
        /\ status[m] # Absent /\ status' = [status EXCEPT ![m] = s]
    BY DEF FailRecorded, FailMeeting, RecordTransition, recordingVars
  <1>2. /\ status \in [Meetings -> MeetingStatus \cup {Absent}]
        /\ s \in MeetingStatus /\ s \notin Finished /\ s # Absent
    BY DEF RecordingInv, RecordingTypes, FailStatus, MeetingStatus, Terminal, Finished, Absent
  <1>3. /\ status' \in [Meetings -> MeetingStatus \cup {Absent}] /\ status'[m] = s
        /\ \A n \in Meetings \ {m} : status'[n] = status[n]
    BY <1>1, <1>2
  <1>4. RecordingTypes'
    BY <1>1, <1>3 DEF RecordingInv, RecordingTypes, RecordingTypeOK, StageFits
  <1>5. ASSUME NEW n \in Meetings \ {m}
        PROVE  OfMeeting(n)'
    <2>1. \A v \in {"start", "stop"} : <<n, v>> \in strays' => <<n, v>> \in strays
      BY <1>1
    <2>2. Running(n)' = Running(n) /\ \A c \in Running(n) : calls'[c] = calls[c]
      BY <1>1 DEF Running
    <2>3. /\ status'[n] = status[n] /\ recording'[n] = recording[n] /\ metadata'[n] = metadata[n]
          /\ recordingExcused'[n] = recordingExcused[n]
      BY <1>1, <1>3
    <2> QED
      BY <2>1, <2>2, <2>3, OthersStay
  <1>6. OfMeeting(m)'
    <2>1. OneAtATime(m) /\ Running(m)' = Running(m)
      BY <1>1 DEF RecordingInv, OfMeeting, Running
    <2>2. OneAtATime(m)'
      BY <1>1, <2>1 DEF OneAtATime, CallTells, TruthTold
    <2> QED
      BY <1>2, <1>3, <2>2 DEF OfMeeting, NotBefore, StopComes
  <1> QED
    BY <1>4, <1>5, <1>6 DEF RecordingInv

\* The start and the stop of a meeting, and the routes, begin a call.
LEMMA BeginningsKeep ==
  ASSUME RecordingInv, NEW m \in Meetings,
         \/ StartRecorded(m)
         \/ \E s \in Finished \cup {Absent}, why \in Reasons : StopRecorded(m, s, why)
         \/ \E kind \in {"start", "stop", "get"} : Route(m, kind)
  PROVE  RecordingInv'
  <1>1. status \in [Meetings -> MeetingStatus \cup {Absent}]
    BY DEF RecordingInv, RecordingTypes
  <1>2. CASE StartRecorded(m)
    <2>1. /\ Begin("auto", m, "settings") /\ status[m] = Absent
          /\ status' = [status EXCEPT ![m] = "in_meeting"]
      BY <1>2 DEF StartRecorded, StartMeeting
    <2>2. /\ status' \in [Meetings -> MeetingStatus \cup {Absent}]
          /\ status'[m] # Absent /\ status'[m] \notin Finished
          /\ \A n \in Meetings \ {m} : status'[n] = status[n]
      BY <1>1, <2>1 DEF MeetingStatus, Open, Absent, Finished
    <2> QED
      BY <2>1, <2>2, BeginKeeps DEF Kinds
  <1>3. CASE \E s \in Finished \cup {Absent}, why \in Reasons : StopRecorded(m, s, why)
    <2>1. PICK s \in Finished \cup {Absent}, why \in Reasons : StopRecorded(m, s, why)
      BY <1>3
    <2>2. /\ Begin("end", m, "post") /\ status[m] # Absent
          /\ status' = [status EXCEPT ![m] = FinalStatus(s)]
      BY <2>1 DEF StopRecorded, StopMeeting, RecordTransition
    <2>3. FinalStatus(s) \in Finished /\ FinalStatus(s) \in MeetingStatus /\ FinalStatus(s) # Absent
      BY DEF FinalStatus, Finished, Absent, MeetingStatus, Terminal
    <2>4. /\ status' \in [Meetings -> MeetingStatus \cup {Absent}]
          /\ status'[m] # Absent /\ status'[m] \in Finished
          /\ \A n \in Meetings \ {m} : status'[n] = status[n]
      BY <1>1, <2>2, <2>3
    <2> QED
      BY <2>2, <2>4, BeginKeeps DEF Kinds
  <1>4. CASE \E kind \in {"start", "stop", "get"} : Route(m, kind)
    <2>1. PICK kind \in {"start", "stop", "get"} : Route(m, kind)
      BY <1>4
    <2>2. PICK stage \in {"settings", "post", "get"} :
             stage = (IF kind = "get" THEN "get" ELSE "post")
      OBVIOUS
    <2>3. Begin(kind, m, stage) /\ status[m] # Absent /\ status' = status
      BY <2>1, <2>2 DEF Route, vars
    <2>4. kind \in Kinds
      BY DEF Kinds
    <2> QED
      BY <1>1, <2>2, <2>3, <2>4, BeginKeeps
  <1> QED
    BY <1>2, <1>3, <1>4

\* Every step of the recording keeps it.
LEMMA RecordingPreserves ==
  ASSUME RecordingInv, [RecordingNext]_recordedVars
  PROVE  RecordingInv'
  <1>1. CASE \E m \in Meetings :
                \/ StartRecorded(m)
                \/ \E s \in Finished \cup {Absent}, why \in Reasons : StopRecorded(m, s, why)
                \/ \E s \in FailStatus, why \in Reasons : FailRecorded(m, s, why)
                \/ \E kind \in {"start", "stop", "get"} : Route(m, kind)
    BY <1>1, BeginningsKeep, FailRecordedKeeps
  <1>2. CASE \E c \in Calls : Step(c)
    BY <1>2, MovesOnKeep, PostedKeeps, RefusedKeeps, LostKeeps, AppliedKeeps DEF Step
  <1>3. CASE StrayExecuted
    BY <1>3, StrayExecutedKeeps
  <1>4. CASE StrayGone \/ (ClearQueued /\ UNCHANGED recordingVars) \/ UNCHANGED recordedVars
    BY <1>4, NothingDoneKeeps
  <1> QED
    BY <1>1, <1>2, <1>3, <1>4 DEF RecordingNext

\* So it holds in every reachable state of the recording.
LEMMA RecordingHolds ==
  RecordingSpec => []RecordingInv
  <1>1. RecordingInit => RecordingInv
    BY RecordingInitHolds
  <1>2. RecordingInv /\ [RecordingNext]_recordedVars => RecordingInv'
    BY RecordingPreserves
  <1> QED
    BY <1>1, <1>2, PTL DEF RecordingSpec

-----------------------------------------------------------------------------
(* The ring of samples.  Two samples with one slot are at least a capacity *)
(* apart (SlotsApart), while the unread ones are less than that apart.     *)

CursorsOK == read \in Nat /\ write \in Nat

\* RingHoldsUnread is inductive once the cursors are numbers.
RingInv == CursorsOK /\ RingHoldsUnread

\* The multiple of a number by at least one is no less than it.
LEMMA Multiple ==
  ASSUME NEW c \in Nat, NEW d \in Int, d >= 1
  PROVE  c * d >= c
  OBVIOUS

\* A sample has its slot in the ring.
LEMMA SlotType ==
  ASSUME NEW k \in Nat
  PROVE  Slot(k) \in Slots
  BY RingAssumption DEF Slot, Slots

\* Different samples of one slot are at least the ring apart.
LEMMA SlotsApart ==
  ASSUME NEW j \in Nat, NEW k \in Nat, j < k, Slot(j) = Slot(k)
  PROVE  k - j >= Capacity
  <1> DEFINE p == j \div Capacity
             q == k \div Capacity
  <1>1. Capacity \in Nat \ {0}
    BY RingAssumption
  <1>2. /\ p \in Int /\ q \in Int
        /\ j = Capacity * p + (j % Capacity)
        /\ k = Capacity * q + (k % Capacity)
    BY <1>1
  <1>3. j % Capacity = k % Capacity
    BY DEF Slot
  <1> HIDE DEF p, q
  <1>4. j % Capacity \in Int /\ k % Capacity \in Int
    BY <1>1
  <1>5. k - j = Capacity * q - Capacity * p
    BY <1>1, <1>2, <1>3, <1>4
  <1>6. k - j = Capacity * (q - p)
    BY <1>1, <1>2, <1>5
  <1>7. q - p \in Int /\ q - p >= 1
    <2>1. CASE q - p <= 0
      <3>1. Capacity * (q - p) <= 0
        BY <1>1, <1>2, <2>1
      <3> QED
        BY <1>6, <3>1
    <2> QED
      BY <1>2, <2>1
  <1> QED
    BY <1>1, <1>6, <1>7, Multiple

\* The unread samples are no ring apart, so that each is the last one of its slot.
LEMMA UnreadIsLast ==
  ASSUME NEW r \in Nat, NEW w \in Nat, w - r <= Capacity,
         NEW k \in r .. w - 1, NEW l \in Nat, l <= w - 1, Slot(l) = Slot(k)
  PROVE  l <= k
  <1>1. Capacity \in Nat
    BY RingAssumption
  <1>2. k \in Nat /\ l < k + Capacity
    BY <1>1
  <1> QED
    BY <1>1, <1>2, SlotsApart

\* A chunk goes into the ring, over the oldest samples when there is no room.
LEMMA RingIngestPreserves ==
  ASSUME RingInv, NEW n \in 1 .. Capacity + 1, ingestChunk(n)
  PROVE  RingInv'
  <1>1. /\ Capacity \in Nat \ {0} /\ read \in Nat /\ write \in Nat /\ n \in Nat
        /\ read <= write /\ write - read <= Capacity
    BY RingAssumption DEF RingInv, CursorsOK, RingHoldsUnread
  <1>2. read' = read + Overflow(n) /\ write' = write + n
    BY DEF ingestChunk
  <1>3. /\ read' \in Nat /\ write' \in Nat
        /\ read <= read' /\ read' <= write' /\ write' - read' <= Capacity
    BY <1>1, <1>2 DEF Overflow
  <1> DEFINE fresh(i) == {k \in write .. write + n - 1 : Slot(k) = i}
  <1>4. data' = [i \in Slots |-> IF fresh(i) = {} THEN data[i]
                                ELSE CHOOSE k \in fresh(i) : \A l \in fresh(i) : l <= k]
    BY DEF ingestChunk
  <1>5. ASSUME NEW k \in read' .. write' - 1
        PROVE  data'[Slot(k)] = k
    <2>1. k \in Nat /\ Slot(k) \in Slots
      BY <1>3, SlotType
    <2>2. ASSUME NEW l \in fresh(Slot(k))
          PROVE  l <= k
      <3>1. l \in write .. write + n - 1 /\ Slot(l) = Slot(k)
        BY <2>2
      <3>2. l \in Nat /\ l <= write' - 1
        BY <1>1, <1>2, <3>1
      <3> QED
        BY <1>3, <3>1, <3>2, UnreadIsLast
    <2>3. CASE k >= write
      <3>1. k \in fresh(Slot(k))
        BY <1>1, <1>2, <1>3, <2>1, <2>3
      <3>2. \A l \in fresh(Slot(k)) : l \in Nat
        BY <1>1
      <3> DEFINE best == CHOOSE x \in fresh(Slot(k)) : \A l \in fresh(Slot(k)) : l <= x
      <3>3. best \in fresh(Slot(k)) /\ \A l \in fresh(Slot(k)) : l <= best
        BY <2>2, <3>1
      <3>4. data'[Slot(k)] = best
        BY <1>4, <2>1, <3>1
      <3> HIDE DEF best, fresh
      <3>5. best = k
        BY <2>1, <2>2, <3>1, <3>2, <3>3
      <3> QED
        BY <3>4, <3>5
    <2>4. CASE k < write
      <3>1. fresh(Slot(k)) = {}
        BY <1>1, <2>1, <2>2, <2>4
      <3>2. data'[Slot(k)] = data[Slot(k)]
        BY <1>4, <2>1, <3>1
      <3>3. k \in read .. write - 1
        BY <1>1, <1>3, <2>1, <2>4
      <3> QED
        BY <3>2, <3>3 DEF RingInv, RingHoldsUnread
    <2> QED
      BY <1>1, <2>1, <2>3, <2>4
  <1> QED
    BY <1>3, <1>5 DEF RingInv, CursorsOK, RingHoldsUnread

\* A cursor that moves up to the other leaves less unread.
LEMMA ReadOn ==
  ASSUME RingInv, NEW n \in Nat, n <= write - read,
         read' = read + n, UNCHANGED <<write, data>>
  PROVE  RingInv'
  <1>1. /\ read \in Nat /\ write \in Nat /\ Capacity \in Nat
        /\ read <= write /\ write - read <= Capacity
    BY RingAssumption DEF RingInv, CursorsOK, RingHoldsUnread
  <1>2. /\ read' \in Nat /\ write' \in Nat
        /\ read <= read' /\ read' <= write' /\ write' - read' <= Capacity
    BY <1>1
  <1>3. ASSUME NEW k \in read' .. write' - 1
        PROVE  data'[Slot(k)] = k
    <2>1. k \in read .. write - 1
      BY <1>1, <1>2
    <2> QED
      BY <2>1 DEF RingInv, RingHoldsUnread
  <1> QED
    BY <1>2, <1>3 DEF RingInv, CursorsOK, RingHoldsUnread

\* An empty ring.
LEMMA EmptyRingHolds ==
  ASSUME EmptyRing
  PROVE  RingInv'
  <1>1. read' = 0 /\ write' = 0
    BY DEF EmptyRing
  <1>2. Capacity \in Nat
    BY RingAssumption
  <1>3. \A k \in read' .. write' - 1 : FALSE
    BY <1>1
  <1> QED
    BY <1>1, <1>2, <1>3 DEF RingInv, CursorsOK, RingHoldsUnread

\* The ring is empty at first.
LEMMA RingInitHolds ==
  ASSUME A2FInit
  PROVE  RingInv
  <1>1. read = 0 /\ write = 0
    BY DEF A2FInit
  <1>2. Capacity \in Nat
    BY RingAssumption
  <1>3. \A k \in read .. write - 1 : FALSE
    BY <1>1
  <1> QED
    BY <1>1, <1>2, <1>3 DEF RingInv, CursorsOK, RingHoldsUnread

\* The cursors and the ring are all that RingInv reads.
LEMMA RingOthersPreserve ==
  ASSUME RingInv, UNCHANGED <<read, write, data>>
  PROVE  RingInv'
  BY DEF RingInv, CursorsOK, RingHoldsUnread

\* Every step preserves the inductive invariant.
LEMMA RingPreserves ==
  ASSUME RingInv, [A2FNext]_a2fVars
  PROVE  RingInv'
  <1>0. /\ read \in Nat /\ write \in Nat /\ write - read \in Nat
        /\ Hop \in Nat /\ Window \in Nat /\ Hop <= Window
    BY RingAssumption DEF RingInv, CursorsOK, RingHoldsUnread
  <1>1. CASE startSession
    BY <1>1, EmptyRingHolds DEF startSession
  <1>2. CASE stopSession \/ subscribe \/ flushOutput
    BY <1>2, RingOthersPreserve DEF stopSession, subscribe, flushOutput, ringVars
  <1>3. CASE \E n \in 1 .. Capacity + 1 : ingestChunk(n)
    BY <1>3, RingIngestPreserves
  <1>4. CASE skipHop
    <2>1. CASE write - read >= Hop
      BY <1>0, <1>4, <2>1, ReadOn DEF skipHop
    <2>2. CASE ~(write - read >= Hop)
      BY <1>4, <2>2, RingOthersPreserve DEF skipHop
    <2> QED
      BY <2>1, <2>2
  <1>5. CASE runInferenceStep
    <2>1. Hop <= write - read
      BY <1>0, <1>5 DEF runInferenceStep
    <2> QED
      BY <1>0, <1>5, <2>1, ReadOn DEF runInferenceStep
  <1>6. CASE UNCHANGED a2fVars
    BY <1>6, RingOthersPreserve DEF a2fVars, ringVars
  <1> QED
    BY <1>1, <1>2, <1>3, <1>4, <1>5, <1>6 DEF A2FNext

\* So the unread samples are in their slots in every reachable state.
LEMMA RingHolds ==
  A2FSpec => []RingInv
  <1>1. A2FInit => RingInv
    BY RingInitHolds
  <1>2. RingInv /\ [A2FNext]_a2fVars => RingInv'
    BY RingPreserves
  <1> QED
    BY <1>1, <1>2, PTL DEF A2FSpec

-----------------------------------------------------------------------------
(* The frames                                                              *)

Frames == [1 .. Window -> Nat]

Increasing(s) == \A i, j \in DOMAIN s : i < j => s[i][1] < s[j][1]
Precedes(s, t) == \A i \in DOMAIN s, j \in DOMAIN t : s[i][1] < t[j][1]
Behind(s, n) == \A i \in DOMAIN s : s[i][1] < n
Consecutive(s) == \A i \in DOMAIN s : \A k \in 2 .. Window : s[i][k] = s[i][k - 1] + 1

\* What was shown and what waits is in order, each frame of consecutive samples, and
\* begins behind the read cursor.
FramesInv ==
    /\ shown \in Seq(Frames) /\ output \in Seq(Frames) /\ Len(output) <= MaxOutbox
    /\ Increasing(shown) /\ Increasing(output) /\ Precedes(shown, output)
    /\ Consecutive(shown) /\ Consecutive(output)
    /\ Behind(shown, read) /\ Behind(output, read)

\* The end of a sequence.
LEMMA LastOnes ==
  ASSUME NEW S, NEW s \in Seq(S), NEW n \in Nat, Len(s) > n
  PROVE  LET t == SubSeq(s, Len(s) - n + 1, Len(s))
         IN  /\ t \in Seq(S) /\ Len(t) = n
             /\ \A i \in DOMAIN t : i + (Len(s) - n) \in DOMAIN s /\ t[i] = s[i + (Len(s) - n)]
  OBVIOUS

\* A frame of what the ring holds is one of consecutive samples from the read cursor on.
LEMMA WindowIsRead ==
  ASSUME RingInv, write - read >= Window
  PROVE  /\ readWindow(Window) \in Frames /\ readWindow(Window)[1] = read
         /\ \A k \in 2 .. Window : readWindow(Window)[k] = readWindow(Window)[k - 1] + 1
  <1>1. /\ Window \in Nat \ {0} /\ read \in Nat /\ write \in Nat
    BY RingAssumption DEF RingInv, CursorsOK
  <1>2. ASSUME NEW i \in 1 .. Window
        PROVE  data[Slot(read + i - 1)] = read + i - 1
    <2>1. read + i - 1 \in read .. write - 1
      BY <1>1
    <2> QED
      BY <2>1 DEF RingInv, RingHoldsUnread
  <1>3. readWindow(Window) = [i \in 1 .. Window |-> read + i - 1]
    BY <1>2 DEF readWindow
  <1> QED
    BY <1>1, <1>3 DEF Frames

\* A frame is appended, and the oldest ones that wait may be cut.
LEMMA InferPreserves ==
  ASSUME RingInv, FramesInv, runInferenceStep
  PROVE  FramesInv'
  <1> DEFINE f == readWindow(Window)
             all == Append(output, f)
  <1>1. /\ read \in Nat /\ read' = read + Hop /\ Hop \in Nat \ {0} /\ write - read >= Window
        /\ output' = Cut(all) /\ shown' = shown /\ MaxOutbox \in Nat \ {0} /\ Window \in Nat \ {0}
    BY RingAssumption DEF runInferenceStep, RingInv, CursorsOK
  <1>2. f \in Frames /\ f[1] = read /\ \A k \in 2 .. Window : f[k] = f[k - 1] + 1
    BY <1>1, WindowIsRead
  <1> HIDE DEF f
  <1>3. /\ shown \in Seq(Frames) /\ output \in Seq(Frames) /\ all \in Seq(Frames)
        /\ Len(all) = Len(output) + 1 /\ Len(output) \in Nat
        /\ \A i \in DOMAIN all : \/ i \in DOMAIN output /\ all[i] = output[i] /\ i <= Len(output)
                                 \/ i = Len(output) + 1 /\ all[i] = f
        /\ \A i \in DOMAIN all : i \in Nat
    BY <1>2 DEF FramesInv
  <1> HIDE DEF all
  <1>4. Increasing(all) /\ Precedes(shown, all) /\ Consecutive(all)
    <2>1. Increasing(all)
      <3> SUFFICES ASSUME NEW i \in DOMAIN all, NEW j \in DOMAIN all, i < j
                   PROVE  all[i][1] < all[j][1]
        BY DEF Increasing
      <3>1. i \in DOMAIN output /\ all[i] = output[i]
        BY <1>3
      <3> QED
        BY <1>2, <1>3, <3>1 DEF FramesInv, Increasing, Behind
    <2>2. Precedes(shown, all)
      BY <1>2, <1>3 DEF FramesInv, Precedes, Behind
    <2>3. Consecutive(all)
      BY <1>2, <1>3 DEF FramesInv, Consecutive
    <2> QED
      BY <2>1, <2>2, <2>3
  <1>5. Behind(all, read') /\ Behind(shown, read')
    <2>1. \A i \in DOMAIN output : output[i] \in Frames
      BY <1>3
    <2>2. \A i \in DOMAIN shown : shown[i] \in Frames
      BY <1>3
    <2>3. \A g \in Frames : g[1] \in Nat
      BY <1>1 DEF Frames
    <2>4. \A i \in DOMAIN output : output[i][1] < read'
      BY <1>1, <2>1, <2>3 DEF FramesInv, Behind
    <2>5. \A i \in DOMAIN shown : shown[i][1] < read'
      BY <1>1, <2>2, <2>3 DEF FramesInv, Behind
    <2> QED
      BY <1>1, <1>2, <1>3, <2>4, <2>5 DEF Behind
  <1>6. CASE Len(all) > MaxOutbox
    <2> DEFINE cut == SubSeq(all, Len(all) - MaxOutbox + 1, Len(all))
               n == Len(all) - MaxOutbox
    <2>1. output' = cut
      BY <1>1, <1>6 DEF Cut
    <2>2. /\ cut \in Seq(Frames) /\ Len(cut) = MaxOutbox
          /\ \A i \in DOMAIN cut : i + n \in DOMAIN all /\ cut[i] = all[i + n]
      BY <1>1, <1>3, <1>6, LastOnes
    <2>3. n \in Int /\ \A i \in DOMAIN cut : i \in Nat
      BY <1>1, <1>3, <2>2
    <2> HIDE DEF cut, n
    <2>4. Increasing(cut)
      BY <1>4, <2>2, <2>3 DEF Increasing
    <2>5. Precedes(shown, cut) /\ Consecutive(cut) /\ Behind(cut, read')
      BY <1>4, <1>5, <2>2 DEF Precedes, Consecutive, Behind
    <2> QED
      BY <1>1, <1>3, <1>5, <2>1, <2>2, <2>4, <2>5 DEF FramesInv
  <1>7. CASE ~(Len(all) > MaxOutbox)
    <2>1. output' = all /\ Len(all) <= MaxOutbox
      BY <1>1, <1>3, <1>7 DEF Cut
    <2> QED
      BY <1>1, <1>3, <1>4, <1>5, <2>1 DEF FramesInv
  <1> QED
    BY <1>6, <1>7

\* The frame that waits longest is shown.
LEMMA FlushPreserves ==
  ASSUME FramesInv, flushOutput
  PROVE  FramesInv'
  <1> DEFINE all == Append(shown, Head(output))
             left == Tail(output)
  <1>1. /\ output # <<>> /\ shown' = all /\ output' = left /\ read' = read
    BY DEF flushOutput, ringVars
  <1>2. /\ shown \in Seq(Frames) /\ output \in Seq(Frames) /\ Len(output) > 0
        /\ Len(output) \in Nat /\ Len(shown) \in Nat
    BY <1>1 DEF FramesInv
  <1>3. /\ left \in Seq(Frames) /\ Len(left) = Len(output) - 1
        /\ \A i \in DOMAIN left : i + 1 \in DOMAIN output /\ left[i] = output[i + 1] /\ i \in Nat /\ i >= 1
    BY <1>2
  <1>4. /\ all \in Seq(Frames) /\ 1 \in DOMAIN output
        /\ \A i \in DOMAIN all : \/ i \in DOMAIN shown /\ all[i] = shown[i] /\ i <= Len(shown)
                                 \/ i = Len(shown) + 1 /\ all[i] = output[1]
        /\ \A i \in DOMAIN all : i \in Nat
    BY <1>2
  <1> HIDE DEF all, left
  <1>5. Increasing(all)
    BY <1>2, <1>4 DEF FramesInv, Increasing, Precedes
  <1>6. Increasing(left)
    <2> SUFFICES ASSUME NEW i \in DOMAIN left, NEW j \in DOMAIN left, i < j
                 PROVE  left[i][1] < left[j][1]
      BY DEF Increasing
    <2>1. i + 1 \in DOMAIN output /\ j + 1 \in DOMAIN output /\ i + 1 < j + 1
      BY <1>3
    <2>2. output[i + 1][1] < output[j + 1][1]
      BY <2>1 DEF FramesInv, Increasing
    <2> QED
      BY <1>3, <2>2
  <1>7. Precedes(all, left)
    <2> SUFFICES ASSUME NEW i \in DOMAIN all, NEW j \in DOMAIN left
                 PROVE  all[i][1] < left[j][1]
      BY DEF Precedes
    <2>1. j + 1 \in DOMAIN output /\ 1 < j + 1 /\ left[j] = output[j + 1]
      BY <1>3
    <2>2. output[1][1] < output[j + 1][1]
      BY <1>4, <2>1 DEF FramesInv, Increasing
    <2>3. i \in DOMAIN shown => shown[i][1] < output[j + 1][1]
      BY <2>1 DEF FramesInv, Precedes
    <2> QED
      BY <1>4, <2>1, <2>2, <2>3
  <1>8. Consecutive(all) /\ Consecutive(left) /\ Behind(all, read) /\ Behind(left, read)
    <2>1. Consecutive(all) /\ Behind(all, read)
      BY <1>4 DEF FramesInv, Consecutive, Behind
    <2>2. \A i \in DOMAIN left : i + 1 \in DOMAIN output /\ left[i] = output[i + 1]
      BY <1>3
    <2>3. Consecutive(left) /\ Behind(left, read)
      BY <2>2 DEF FramesInv, Consecutive, Behind
    <2> QED
      BY <2>1, <2>3
  <1>9. Len(left) <= MaxOutbox
    BY <1>2, <1>3, RingAssumption DEF FramesInv
  <1> QED
    BY <1>1, <1>3, <1>4, <1>5, <1>6, <1>7, <1>8, <1>9 DEF FramesInv

\* No frame is there at first, nor when a session begins.
LEMMA NoFrames ==
  ASSUME NEW r
  PROVE  LET none == <<>>
         IN  /\ none \in Seq(Frames) /\ Len(none) <= MaxOutbox
             /\ Increasing(none) /\ Precedes(none, none) /\ Consecutive(none) /\ Behind(none, r)
  <1>1. <<>> \in Seq(Frames) /\ Len(<<>>) = 0 /\ DOMAIN <<>> = {}
    OBVIOUS
  <1> QED
    BY <1>1, RingAssumption DEF Increasing, Precedes, Consecutive, Behind

\* The read cursor moves on.
LEMMA ReadMoves ==
  ASSUME RingInv, FramesInv, UNCHANGED <<shown, output>>, read' \in Nat, read <= read'
  PROVE  FramesInv'
  <1>1. read \in Nat /\ Window \in Nat \ {0}
    BY RingAssumption DEF RingInv, CursorsOK
  <1>2. ASSUME NEW s \in Seq(Frames), Behind(s, read)
        PROVE  Behind(s, read')
    <2>1. \A i \in DOMAIN s : s[i] \in Frames
      OBVIOUS
    <2>2. \A i \in DOMAIN s : s[i][1] \in Nat
      BY <1>1, <2>1 DEF Frames
    <2> QED
      BY <1>1, <1>2, <2>2 DEF Behind
  <1> QED
    BY <1>2 DEF FramesInv

\* Every step keeps the frames in order.
LEMMA FramesPreserved ==
  ASSUME RingInv, FramesInv, [A2FNext]_a2fVars
  PROVE  FramesInv'
  <1>0. read \in Nat /\ Hop \in Nat
    BY RingAssumption DEF RingInv, CursorsOK
  <1>1. CASE startSession
    <2>1. shown' = <<>> /\ output' = <<>>
      BY <1>1 DEF startSession
    <2> QED
      BY <2>1, NoFrames DEF FramesInv
  <1>2. CASE stopSession \/ subscribe \/ UNCHANGED a2fVars
    BY <1>0, <1>2, ReadMoves DEF stopSession, subscribe, ringVars, a2fVars
  <1>3. CASE \E n \in 1 .. Capacity + 1 : ingestChunk(n)
    <2>1. PICK n \in 1 .. Capacity + 1 : ingestChunk(n)
      BY <1>3
    <2>2. RingInv'
      BY <2>1, RingIngestPreserves
    <2>3. /\ read' = read + Overflow(n) /\ UNCHANGED <<shown, output>>
          /\ n \in Nat /\ Capacity \in Nat /\ write \in Nat
      BY <2>1, RingAssumption DEF ingestChunk, RingInv, CursorsOK
    <2>4. read' \in Nat /\ read <= read'
      BY <1>0, <2>3 DEF Overflow
    <2> QED
      BY <2>3, <2>4, ReadMoves
  <1>4. CASE skipHop
    BY <1>0, <1>4, ReadMoves DEF skipHop
  <1>5. CASE runInferenceStep
    BY <1>5, InferPreserves
  <1>6. CASE flushOutput
    BY <1>6, FlushPreserves
  <1> QED
    BY <1>1, <1>2, <1>3, <1>4, <1>5, <1>6 DEF A2FNext

\* So the frames are in the order of the audio in every reachable state.
LEMMA FramesHold ==
  A2FSpec => []FramesInv
  <1>1. A2FInit => FramesInv
    BY NoFrames DEF A2FInit, FramesInv
  <1>2. RingInv /\ FramesInv /\ [A2FNext]_a2fVars => FramesInv'
    BY FramesPreserved
  <1> QED
    BY <1>1, <1>2, RingHolds, PTL DEF A2FSpec

\* Put together, what was shown and what waits is in order.
LEMMA FramesInvImplies ==
  ASSUME FramesInv
  PROVE  FramesFollowAudio
  <1> DEFINE all == shown \o output
  <1>1. /\ shown \in Seq(Frames) /\ output \in Seq(Frames)
        /\ Len(shown) \in Nat /\ Len(output) \in Nat
    BY DEF FramesInv
  <1>2. /\ \A i \in DOMAIN all : \/ i \in DOMAIN shown /\ all[i] = shown[i]
                                 \/ i - Len(shown) \in DOMAIN output /\ all[i] = output[i - Len(shown)]
                                    /\ i > Len(shown)
        /\ \A i \in DOMAIN all : i \in Nat
        /\ \A i \in DOMAIN shown : i <= Len(shown)
    BY <1>1
  <1> HIDE DEF all
  <1>3. Consecutive(all)
    BY <1>2 DEF FramesInv, Consecutive
  <1>4. Increasing(all)
    <2> SUFFICES ASSUME NEW i \in DOMAIN all, NEW j \in DOMAIN all, i < j
                 PROVE  all[i][1] < all[j][1]
      BY DEF Increasing
    <2>1. CASE i > Len(shown)
      <3>1. j > Len(shown)
        BY <1>1, <1>2, <2>1
      <3>2. ~(i \in DOMAIN shown) /\ ~(j \in DOMAIN shown)
        BY <1>1, <1>2, <2>1, <3>1
      <3>3. i - Len(shown) < j - Len(shown)
        BY <1>1, <1>2
      <3> QED
        BY <1>2, <3>2, <3>3 DEF FramesInv, Increasing
    <2>2. CASE i \in DOMAIN shown /\ all[i] = shown[i]
      BY <1>2, <2>2 DEF FramesInv, Increasing, Precedes
    <2> QED
      BY <1>2, <2>1, <2>2
  <1> QED
    BY <1>3, <1>4 DEF all, FramesInv, Consecutive, Increasing, FramesFollowAudio

-----------------------------------------------------------------------------
(* The session on the GPU pod                                              *)

Messages == [type: {"session.start", "session.stop", "ping", "audio.chunk"}, chunk: Nat]
GpuSession == [ws: {0} \cup G!Sockets, connected: BOOLEAN, timer: BOOLEAN, beating: BOOLEAN,
               pending: Seq(Messages)]

GpuTypes ==
    /\ current \in {0, gpuStarted} /\ gpuStarted \in 0 .. MaxStarts
    /\ gpuSession \in [G!Runs -> GpuSession]
    /\ \A g \in G!Runs : Len(gpuSession[g].pending) <= MaxPending
    /\ gpuLink \in [G!Sockets -> [state: {"none", "connecting", "open", "closing", "closed"},
                                  of: 0 .. gpuStarted]]
    /\ \A s \in G!Sockets : gpuLink[s].state = "none" <=> gpuLink[s].of = 0
    /\ heard \in Seq(Messages)
    /\ chunks \in Nat /\ slowClose \in BOOLEAN

\* Only the session in the map has a socket of its own or a timer.
GpuOwn ==
    /\ \A g \in G!Runs : g > gpuStarted => gpuSession[g] = G!NewSession
    /\ \A g \in G!Runs : g # current => gpuSession[g].ws = 0 /\ ~gpuSession[g].timer
    /\ current # 0 => /\ gpuSession[current].ws # 0
                      /\ gpuLink[gpuSession[current].ws].of = current

\* Until a session is connected again too soon, its other sockets have closed.
GpuOthersClosed ==
    ~slowClose /\ current # 0 =>
        \A s \in G!Sockets : gpuLink[s].of = current /\ s # gpuSession[current].ws
                                => gpuLink[s].state = "closed"

Sound(msg) == msg.type = "audio.chunk"
Ordered(s) ==
    \A i, j \in DOMAIN s : i < j /\ Sound(s[i]) /\ Sound(s[j]) => s[i].chunk < s[j].chunk
Before(s, t) ==
    \A i \in DOMAIN s, j \in DOMAIN t : Sound(s[i]) /\ Sound(t[j]) => s[i].chunk < t[j].chunk
UpTo(s, n) == \A i \in DOMAIN s : Sound(s[i]) => s[i].chunk <= n

\* What has been heard, what waits and what is to come are in order.
GpuOrder ==
    /\ Ordered(heard) /\ UpTo(heard, chunks)
    /\ current # 0 => LET waits == gpuSession[current].pending
                      IN  Ordered(waits) /\ UpTo(waits, chunks) /\ Before(heard, waits)

GpuInv ==
    /\ GpuTypes /\ GpuOwn /\ GpuOthersClosed /\ GpuOrder
    /\ G!StoppedIsSilent /\ G!NeverStranded

\* A sequence without its first.
LEMMA TailAt ==
  ASSUME NEW S, NEW p \in Seq(S), Len(p) > 0
  PROVE  /\ Tail(p) \in Seq(S) /\ DOMAIN Tail(p) = 1 .. Len(p) - 1
         /\ \A i \in 1 .. Len(p) - 1 : i + 1 \in DOMAIN p /\ Tail(p)[i] = p[i + 1]
  OBVIOUS

\* A queue with one more message keeps to its size, and the rest of the session stays.
LEMMA QueuedKeeps ==
  ASSUME NEW r \in GpuSession, NEW msg \in Messages, Len(r.pending) <= MaxPending
  PROVE  LET q == G!Queued(r, msg)
         IN  /\ q = [r EXCEPT !.pending = q.pending]
             /\ q.pending \in Seq(Messages) /\ Len(q.pending) <= MaxPending
  <1> DEFINE left == IF Len(r.pending) < MaxPending THEN r.pending ELSE Tail(r.pending)
  <1>1. r.pending \in Seq(Messages)
    BY DEF GpuSession
  <1>2. left \in Seq(Messages) /\ Len(left) < MaxPending
    BY <1>1, ConnectionsAssumption
  <1>3. /\ Append(left, msg) \in Seq(Messages)
        /\ Len(Append(left, msg)) <= MaxPending
    BY <1>2, ConnectionsAssumption
  <1>4. G!Queued(r, msg) = [r EXCEPT !.pending = Append(left, msg)]
    BY DEF G!Queued
  <1> QED
    BY <1>3, <1>4 DEF GpuSession

\* It is in order if the message is no sound, or a later one.
LEMMA QueuedInOrder ==
  ASSUME NEW r \in GpuSession, NEW msg \in Messages, NEW h \in Seq(Messages), NEW n \in Nat,
         Ordered(r.pending), UpTo(r.pending, n), Before(h, r.pending), UpTo(h, n),
         Sound(msg) => msg.chunk = n + 1
  PROVE  LET q == G!Queued(r, msg).pending
         IN  Ordered(q) /\ UpTo(q, n + 1) /\ Before(h, q) /\ (~Sound(msg) => UpTo(q, n))
  <1> DEFINE left == IF Len(r.pending) < MaxPending THEN r.pending ELSE Tail(r.pending)
             q == Append(left, msg)
  <1>1. r.pending \in Seq(Messages)
    BY DEF GpuSession
  <1>2. left \in Seq(Messages)
    BY <1>1, ConnectionsAssumption
  <1>3. G!Queued(r, msg).pending = q
    BY DEF G!Queued, GpuSession
  <1>4. Ordered(left) /\ UpTo(left, n) /\ Before(h, left)
    <2>1. CASE Len(r.pending) < MaxPending
      BY <2>1
    <2>2. CASE ~(Len(r.pending) < MaxPending)
      <3>1. left = Tail(r.pending) /\ Len(r.pending) > 0
        BY <1>1, <2>2, ConnectionsAssumption
      <3>2. \A i \in DOMAIN left : i + 1 \in DOMAIN r.pending /\ left[i] = r.pending[i + 1]
        BY <1>1, <3>1, TailAt
      <3>3. \A i \in DOMAIN left : i \in Nat
        BY <1>2
      <3> HIDE DEF left
      <3> QED
        BY <3>2, <3>3, SMTT(30) DEF Ordered, UpTo, Before
    <2> QED
      BY <2>1, <2>2
  <1> HIDE DEF left
  <1>5. /\ DOMAIN q = 1 .. Len(left) + 1 /\ DOMAIN left = 1 .. Len(left) /\ Len(left) \in Nat
        /\ \A i \in DOMAIN left : q[i] = left[i] /\ left[i] \in Messages
        /\ q[Len(left) + 1] = msg
    BY <1>2
  <1>6. \A i \in DOMAIN h : h[i] \in Messages
    OBVIOUS
  <1> HIDE DEF q
  <1>7. Ordered(q)
    <2> SUFFICES ASSUME NEW i \in DOMAIN q, NEW j \in DOMAIN q, i < j, Sound(q[i]), Sound(q[j])
                 PROVE  q[i].chunk < q[j].chunk
      BY DEF Ordered
    <2>1. i \in DOMAIN left /\ q[i].chunk \in Nat
      BY <1>5 DEF Messages
    <2>2. q[i].chunk <= n
      BY <1>4, <1>5, <2>1 DEF UpTo
    <2> QED
      BY <1>4, <1>5, <2>1, <2>2 DEF Ordered
  <1>8. UpTo(q, n + 1)
    <2> SUFFICES ASSUME NEW i \in DOMAIN q, Sound(q[i])
                 PROVE  q[i].chunk <= n + 1
      BY DEF UpTo
    <2>1. CASE i \in DOMAIN left
      <3>1. q[i].chunk <= n /\ q[i].chunk \in Nat
        BY <1>4, <1>5, <2>1 DEF UpTo, Messages
      <3> QED
        BY <3>1
    <2> QED
      BY <1>5, <2>1
  <1>9. Before(h, q)
    <2> SUFFICES ASSUME NEW i \in DOMAIN h, NEW j \in DOMAIN q, Sound(h[i]), Sound(q[j])
                 PROVE  h[i].chunk < q[j].chunk
      BY DEF Before
    <2>1. h[i].chunk <= n /\ h[i].chunk \in Nat
      BY <1>6 DEF UpTo, Messages
    <2> QED
      BY <1>4, <1>5, <2>1 DEF Before
  <1>10. ~Sound(msg) => UpTo(q, n)
    BY <1>4, <1>5 DEF UpTo
  <1> QED
    BY <1>3, <1>7, <1>8, <1>9, <1>10

\* Two sequences one before the other.
LEMMA JoinedInOrder ==
  ASSUME NEW h \in Seq(Messages), NEW p \in Seq(Messages), NEW n \in Nat,
         Ordered(h), Ordered(p), Before(h, p), UpTo(h, n), UpTo(p, n)
  PROVE  Ordered(h \o p) /\ UpTo(h \o p, n) /\ h \o p \in Seq(Messages)
  <1> DEFINE q == h \o p
  <1>1. q \in Seq(Messages) /\ Len(q) = Len(h) + Len(p) /\ Len(h) \in Nat /\ Len(p) \in Nat
    OBVIOUS
  <1>2. \A i \in DOMAIN q : \/ i \in DOMAIN h /\ q[i] = h[i]
                            \/ i - Len(h) \in DOMAIN p /\ q[i] = p[i - Len(h)] /\ i > Len(h)
    OBVIOUS
  <1>3. DOMAIN q = 1 .. Len(q) /\ DOMAIN h = 1 .. Len(h) /\ DOMAIN p = 1 .. Len(p)
    BY <1>1
  <1> HIDE DEF q
  <1>4. UpTo(q, n)
    BY <1>2 DEF UpTo
  <1>5. Ordered(q)
    <2> SUFFICES ASSUME NEW i \in DOMAIN q, NEW j \in DOMAIN q, i < j, Sound(q[i]), Sound(q[j])
                 PROVE  q[i].chunk < q[j].chunk
      BY DEF Ordered
    <2>1. i \in Nat /\ j \in Nat
      BY <1>3, <1>1
    <2>2. CASE i \in DOMAIN h /\ q[i] = h[i] /\ j \in DOMAIN h /\ q[j] = h[j]
      BY <2>2 DEF Ordered
    <2>3. CASE /\ i \in DOMAIN h /\ q[i] = h[i]
               /\ j - Len(h) \in DOMAIN p /\ q[j] = p[j - Len(h)]
      BY <2>3 DEF Before
    <2>4. CASE /\ i - Len(h) \in DOMAIN p /\ q[i] = p[i - Len(h)]
               /\ j - Len(h) \in DOMAIN p /\ q[j] = p[j - Len(h)]
      <3>1. i - Len(h) < j - Len(h)
        BY <1>1, <2>1
      <3> QED
        BY <2>4, <3>1 DEF Ordered
    <2>5. CASE j \in DOMAIN h /\ i > Len(h)
      BY <1>1, <1>3, <2>1, <2>5
    <2> QED
      BY <1>2, <2>2, <2>3, <2>4, <2>5
  <1> QED
    BY <1>1, <1>4, <1>5 DEF q

\* A flush leaves the session as it is, or sends all that waits.
LEMMA FlushEffect ==
  ASSUME NEW g \in G!Runs, NEW r \in GpuSession, NEW links, gpuSession \in [G!Runs -> GpuSession],
         G!flushPending(g, r, links)
  PROVE  \/ gpuSession' = [gpuSession EXCEPT ![g] = r] /\ heard' = heard
         \/ /\ r.ws # 0
            /\ gpuSession' = [gpuSession EXCEPT ![g] = [r EXCEPT !.pending = <<>>]]
            /\ heard' = heard \o r.pending
  BY DEF G!flushPending


\* No session is there at first.
LEMMA GpuInitHolds ==
  ASSUME G!GpuInit
  PROVE  GpuInv
  <1>1. G!NewSession \in GpuSession
    BY DEF G!NewSession, GpuSession
  <1>2. <<>> \in Seq(Messages) /\ Len(<<>>) = 0 /\ DOMAIN <<>> = {}
    OBVIOUS
  <1>3. GpuTypes
    <2>1. G!NewSession.pending = <<>>
      BY DEF G!NewSession
    <2>2. gpuSession \in [G!Runs -> GpuSession]
      BY <1>1 DEF G!GpuInit
    <2>3. \A g \in G!Runs : Len(gpuSession[g].pending) <= MaxPending
      BY <1>2, <2>1, ConnectionsAssumption DEF G!GpuInit
    <2>4. current = 0 /\ gpuStarted = 0 /\ heard = <<>> /\ chunks = 0 /\ slowClose = FALSE
      BY DEF G!GpuInit
    <2>5. \A s \in G!Sockets : gpuLink[s] = [state |-> "none", of |-> 0]
      BY DEF G!GpuInit
    <2>6. gpuLink \in [G!Sockets -> [state: {"none", "connecting", "open", "closing", "closed"},
                                    of: 0 .. gpuStarted]]
      BY <2>4 DEF G!GpuInit
    <2>7. GpuTypes
      <3>1. current \in {0, gpuStarted} /\ gpuStarted \in 0 .. MaxStarts /\ chunks \in Nat
        BY <2>4, ConnectionsAssumption
      <3>2. \A s \in G!Sockets : gpuLink[s].state = "none" <=> gpuLink[s].of = 0
        BY <2>5
      <3>3. heard \in Seq(Messages) /\ slowClose \in BOOLEAN
        BY <1>2, <2>4
      <3> QED
        BY <2>2, <2>3, <2>6, <3>1, <3>2, <3>3 DEF GpuTypes
    <2> QED
      BY <2>7
  <1>4. GpuOwn /\ GpuOthersClosed
    BY DEF G!GpuInit, GpuOwn, GpuOthersClosed, G!NewSession
  <1>5. GpuOrder
    BY <1>2 DEF G!GpuInit, GpuOrder, Ordered, UpTo
  <1>6. G!StoppedIsSilent /\ G!NeverStranded
    BY DEF G!GpuInit, G!StoppedIsSilent, G!NeverStranded
  <1> QED
    BY <1>3, <1>4, <1>5, <1>6 DEF GpuInv

\* A number that is no bound any more.
LEMMA UpToMore ==
  ASSUME NEW h \in Seq(Messages), NEW n \in Nat, UpTo(h, n)
  PROVE  UpTo(h, n + 1)
  <1>1. \A i \in DOMAIN h : h[i] \in Messages
    OBVIOUS
  <1>2. \A i \in DOMAIN h : h[i].chunk \in Nat
    BY <1>1 DEF Messages
  <1> QED
    BY <1>2 DEF UpTo

\* A message that is queued and sent, by the session in the map or one that was stopped,
\* keeps the order; of the session's record only the queue changes.
LEMMA SentInOrder ==
  ASSUME GpuInv, NEW g \in 1 .. gpuStarted, NEW r \in GpuSession, NEW msg \in Messages, NEW links,
         r.pending = gpuSession[g].pending, r.ws = gpuSession[g].ws,
         G!flushPending(g, G!Queued(r, msg), links),
         UNCHANGED <<current, gpuStarted>>,
         \/ ~Sound(msg) /\ chunks' = chunks
         \/ msg.chunk = chunks + 1 /\ chunks' = chunks + 1
  PROVE  /\ GpuOrder' /\ heard' \in Seq(Messages)
         /\ \E p \in Seq(Messages) : /\ Len(p) <= MaxPending
                                     /\ gpuSession' = [gpuSession EXCEPT ![g] = [r EXCEPT !.pending = p]]
  <1> DEFINE q == G!Queued(r, msg)
  <1>1. /\ g \in G!Runs /\ gpuSession \in [G!Runs -> GpuSession] /\ heard \in Seq(Messages)
        /\ chunks \in Nat /\ Len(r.pending) <= MaxPending /\ r.pending \in Seq(Messages)
    <2>1. gpuStarted \in Nat /\ gpuStarted <= MaxStarts /\ MaxStarts \in Nat
      BY ConnectionsAssumption DEF GpuInv, GpuTypes
    <2>2. g \in G!Runs
      BY <2>1 DEF G!Runs
    <2> QED
      BY <2>2 DEF GpuInv, GpuTypes, GpuSession
  <1>2. /\ q = [r EXCEPT !.pending = q.pending] /\ q \in GpuSession
        /\ q.pending \in Seq(Messages) /\ Len(q.pending) <= MaxPending
    <2>1. /\ q = [r EXCEPT !.pending = q.pending]
          /\ q.pending \in Seq(Messages) /\ Len(q.pending) <= MaxPending
      BY <1>1, QueuedKeeps
    <2> HIDE DEF q
    <2>2. PICK p \in Seq(Messages) : p = q.pending
      BY <2>1
    <2>3. [r EXCEPT !.pending = p] \in GpuSession
      BY DEF GpuSession
    <2> QED
      BY <2>1, <2>2, <2>3
  <1>3. q.ws = gpuSession[g].ws
    BY <1>2 DEF GpuSession
  <1> HIDE DEF q
  <1>4. \/ gpuSession' = [gpuSession EXCEPT ![g] = q] /\ heard' = heard
        \/ /\ q.ws # 0
           /\ gpuSession' = [gpuSession EXCEPT ![g] = [q EXCEPT !.pending = <<>>]]
           /\ heard' = heard \o q.pending
    BY <1>1, <1>2, FlushEffect DEF q
  <1>5. \E p \in Seq(Messages) : /\ Len(p) <= MaxPending
                                 /\ gpuSession' = [gpuSession EXCEPT ![g] = [r EXCEPT !.pending = p]]
    <2>1. CASE gpuSession' = [gpuSession EXCEPT ![g] = q]
      BY <1>2, <2>1
    <2>2. CASE gpuSession' = [gpuSession EXCEPT ![g] = [q EXCEPT !.pending = <<>>]]
      <3>1. [q EXCEPT !.pending = <<>>] = [r EXCEPT !.pending = <<>>]
        BY <1>2 DEF GpuSession
      <3>2. <<>> \in Seq(Messages) /\ Len(<<>>) <= MaxPending
        BY ConnectionsAssumption
      <3> QED
        BY <2>2, <3>1, <3>2
    <2> QED
      BY <1>4, <2>1, <2>2
  <1>6. UpTo(heard, chunks) /\ Ordered(heard) /\ UpTo(heard, chunks')
    BY <1>1, UpToMore DEF GpuInv, GpuOrder
  <1>7. CASE g = current
    <2>0. current # 0
      BY <1>7
    <2>1. Ordered(r.pending) /\ UpTo(r.pending, chunks) /\ Before(heard, r.pending)
      BY <1>7, <2>0 DEF GpuInv, GpuOrder
    <2>2. Sound(msg) => msg.chunk = chunks + 1
      BY <1>1
    <2>3. /\ Ordered(q.pending) /\ UpTo(q.pending, chunks + 1) /\ Before(heard, q.pending)
          /\ (~Sound(msg) => UpTo(q.pending, chunks))
      BY <1>1, <1>6, <2>1, <2>2, QueuedInOrder DEF q
    <2>4. UpTo(q.pending, chunks') /\ chunks' \in Nat
      BY <1>1, <2>3
    <2>5. CASE gpuSession' = [gpuSession EXCEPT ![g] = q] /\ heard' = heard
      <3>1. gpuSession'[current'].pending = q.pending
        BY <1>1, <1>7, <2>5
      <3>2. GpuOrder'
        BY <1>1, <1>6, <2>3, <2>4, <2>5, <3>1 DEF GpuOrder
      <3> QED
        BY <1>1, <1>5, <2>5, <3>2
    <2>6. CASE /\ gpuSession' = [gpuSession EXCEPT ![g] = [q EXCEPT !.pending = <<>>]]
               /\ heard' = heard \o q.pending
      <3>1. gpuSession'[current'].pending = <<>> /\ DOMAIN <<>> = {}
        BY <1>1, <1>2, <1>7, <2>6 DEF GpuSession
      <3>2. Ordered(heard') /\ UpTo(heard', chunks') /\ heard' \in Seq(Messages)
        BY <1>1, <1>2, <1>6, <2>3, <2>4, <2>6, JoinedInOrder
      <3>3. Ordered(<<>>) /\ UpTo(<<>>, chunks') /\ Before(heard', <<>>)
        BY <3>1 DEF Ordered, UpTo, Before
      <3>4. GpuOrder'
        BY <3>1, <3>2, <3>3 DEF GpuOrder
      <3> QED
        BY <1>5, <3>2, <3>4
    <2> QED
      BY <1>4, <1>5, <2>5, <2>6
  <1>8. CASE g # current
    <2>1. q.ws = 0
      BY <1>1, <1>3, <1>8 DEF GpuInv, GpuOwn
    <2>2. gpuSession' = [gpuSession EXCEPT ![g] = q] /\ heard' = heard
      BY <1>4, <2>1
    <2>3. CASE current = 0
      <3>1. GpuOrder'
        BY <1>1, <1>6, <2>2, <2>3 DEF GpuOrder
      <3>2. heard' \in Seq(Messages)
        BY <1>1, <2>2
      <3> QED
        BY <1>5, <3>1, <3>2
    <2>4. CASE current # 0
      <3>1. current \in G!Runs
        BY <2>4 DEF GpuInv, GpuTypes, G!Runs
      <3>2. gpuSession'[current'] = gpuSession[current]
        BY <1>1, <1>8, <2>2, <3>1
      <3>3. gpuSession[current].pending \in Seq(Messages)
        BY <1>1, <3>1 DEF GpuSession
      <3>4. UpTo(gpuSession[current].pending, chunks')
        BY <1>1, <2>4, <3>3, UpToMore DEF GpuInv, GpuOrder
      <3>5. GpuOrder'
        BY <1>6, <2>2, <2>4, <3>2, <3>4 DEF GpuInv, GpuOrder
      <3>6. heard' \in Seq(Messages)
        BY <1>1, <2>2
      <3> QED
        BY <1>5, <3>5, <3>6
    <2> QED
      BY <2>3, <2>4
  <1> QED
    BY <1>7, <1>8


\* The types of what a step writes, in the terms of the other lemmas.
LEMMA GpuTyped ==
  ASSUME GpuInv
  PROVE  /\ gpuStarted \in Nat /\ gpuStarted <= MaxStarts /\ MaxStarts \in Nat
         /\ G!Runs = 1 .. MaxStarts /\ 1 .. gpuStarted \subseteq G!Runs
         /\ current # 0 => current = gpuStarted /\ current \in 1 .. gpuStarted
         /\ 0 \notin G!Sockets
         /\ \A s \in G!Sockets : gpuLink[s].state # "none" => gpuLink[s].of \in 1 .. gpuStarted
  <1>1. gpuStarted \in Nat /\ gpuStarted <= MaxStarts /\ MaxStarts \in Nat /\ current \in {0, gpuStarted}
    BY ConnectionsAssumption DEF GpuInv, GpuTypes
  <1>2. G!Runs = 1 .. MaxStarts /\ 0 \notin G!Sockets
    BY ConnectionsAssumption DEF G!Runs, G!Sockets
  <1>3. \A s \in G!Sockets : gpuLink[s].of \in 0 .. gpuStarted /\ (gpuLink[s].state # "none" => gpuLink[s].of # 0)
    BY DEF GpuInv, GpuTypes
  <1> QED
    BY <1>1, <1>2, <1>3

\* A chunk, or a ping, or the message that follows a socket's open event: the session's
\* record changes in its queue and in what says that it is connected.
LEMMA TalkPreserves ==
  ASSUME GpuInv, NEW g \in 1 .. gpuStarted, NEW r \in GpuSession, NEW p \in Seq(Messages),
         Len(p) <= MaxPending,
         r.ws = gpuSession[g].ws, r.timer = gpuSession[g].timer,
         r.beating => g = current \/ slowClose \/ gpuSession[g].beating,
         gpuSession' = [gpuSession EXCEPT ![g] = [r EXCEPT !.pending = p]],
         heard' \in Seq(Messages), chunks' \in Nat, GpuOrder',
         UNCHANGED <<current, gpuStarted, slowClose>>,
         \/ UNCHANGED gpuLink
         \/ \E s \in G!Sockets : /\ gpuLink[s].state = "connecting" /\ gpuLink[s].of = g
                                  /\ gpuLink' = [gpuLink EXCEPT ![s].state = "open"]
  PROVE  GpuInv'
  <1>0. /\ gpuLink' \in [G!Sockets -> [state: {"none", "connecting", "open", "closing", "closed"},
                                       of: 0 .. gpuStarted]]
        /\ \A s \in G!Sockets :
              /\ gpuLink'[s].of = gpuLink[s].of
              /\ \/ gpuLink'[s].state = gpuLink[s].state
                 \/ gpuLink'[s].state = "open" /\ gpuLink[s].state = "connecting"
    <2>1. gpuLink \in [G!Sockets -> [state: {"none", "connecting", "open", "closing", "closed"},
                                     of: 0 .. gpuStarted]]
      BY DEF GpuInv, GpuTypes
    <2>2. CASE UNCHANGED gpuLink
      BY <2>1, <2>2
    <2>3. CASE \E s \in G!Sockets : /\ gpuLink[s].state = "connecting" /\ gpuLink[s].of = g
                                    /\ gpuLink' = [gpuLink EXCEPT ![s].state = "open"]
      <3>1. PICK s \in G!Sockets : /\ gpuLink[s].state = "connecting"
                                   /\ gpuLink' = [gpuLink EXCEPT ![s].state = "open"]
        BY <2>3
      <3>2. gpuLink'[s] = [gpuLink[s] EXCEPT !.state = "open"]
        BY <2>1, <3>1
      <3>3. \A t \in G!Sockets : t # s => gpuLink'[t] = gpuLink[t]
        BY <2>1, <3>1
      <3> QED
        BY <2>1, <3>1, <3>2, <3>3
    <2> QED
      BY <2>2, <2>3
  <1>1. gpuSession' \in [G!Runs -> GpuSession]
    BY GpuTyped DEF GpuInv, GpuTypes, GpuSession
  <1>2. /\ \A h \in G!Runs : h # g => gpuSession'[h] = gpuSession[h]
        /\ gpuSession'[g].pending = p /\ gpuSession'[g].ws = r.ws
        /\ gpuSession'[g].timer = r.timer /\ gpuSession'[g].beating = r.beating
    BY GpuTyped DEF GpuInv, GpuTypes, GpuSession
  <1>3. GpuTypes'
    BY <1>0, <1>1, <1>2 DEF GpuInv, GpuTypes
  <1>4. GpuOwn'
    <2>1. \A h \in G!Runs : h > gpuStarted => h # g
      BY GpuTyped
    <2>2. current # 0 => current \in G!Runs
      BY GpuTyped
    <2>3. current # 0 => gpuSession[current].ws \in G!Sockets
      BY <2>2 DEF GpuInv, GpuTypes, GpuOwn, GpuSession
    <2> QED
      BY <1>0, <1>2, <2>1, <2>2, <2>3 DEF GpuInv, GpuOwn
  <1>5. \A h \in G!Runs : gpuSession'[h].ws = gpuSession[h].ws /\ gpuSession'[h].timer = gpuSession[h].timer
    BY <1>2
  <1>6. GpuOthersClosed' /\ G!NeverStranded'
    <2>1. current # 0 => current \in G!Runs
      BY GpuTyped
    <2>2. GpuOthersClosed'
      BY <1>0, <1>5, <2>1 DEF GpuInv, GpuOthersClosed
    <2>3. G!NeverStranded'
      BY <1>0, <1>5, <2>1 DEF GpuInv, G!NeverStranded
    <2> QED
      BY <2>2, <2>3
  <1>7. G!StoppedIsSilent'
    BY <1>0, <1>2, <1>5, GpuTyped DEF GpuInv, G!StoppedIsSilent, G!Running
  <1> QED
    BY <1>3, <1>4, <1>6, <1>7 DEF GpuInv

\* A chunk of audio.
LEMMA ChunkPreserves ==
  ASSUME GpuInv, G!ingestChunk
  PROVE  GpuInv'
  <1> DEFINE msg == G!Audio(chunks + 1)
  <1>1. current \in 1 .. gpuStarted /\ current \in G!Runs /\ chunks \in Nat
    BY GpuTyped DEF G!ingestChunk, GpuInv, GpuTypes
  <1>2. gpuSession[current] \in GpuSession
    BY <1>1 DEF GpuInv, GpuTypes
  <1>3. msg \in Messages /\ msg.chunk = chunks + 1 /\ chunks' = chunks + 1
    BY <1>1 DEF G!Audio, Messages, G!ingestChunk
  <1>4. G!flushPending(current, G!Queued(gpuSession[current], msg), gpuLink)
    BY DEF G!ingestChunk
  <1>5. UNCHANGED <<current, gpuStarted, gpuLink, slowClose>>
    BY DEF G!ingestChunk
  <1> HIDE DEF msg
  <1>6. /\ GpuOrder' /\ heard' \in Seq(Messages)
        /\ \E p \in Seq(Messages) :
              /\ Len(p) <= MaxPending
              /\ gpuSession' = [gpuSession EXCEPT ![current] = [gpuSession[current] EXCEPT !.pending = p]]
    BY <1>1, <1>2, <1>3, <1>4, <1>5, SentInOrder
  <1>7. chunks' \in Nat
    BY <1>1, <1>3
  <1> QED
    BY <1>1, <1>2, <1>5, <1>6, <1>7, TalkPreserves

\* The heartbeat.
LEMMA PingPreserves ==
  ASSUME GpuInv, NEW g \in G!Runs, G!ping(g)
  PROVE  GpuInv'
  <1> DEFINE msg == G!Message("ping")
  <1>1. gpuSession[g] \in GpuSession /\ chunks \in Nat /\ gpuSession[g].beating
    BY DEF G!ping, GpuInv, GpuTypes
  <1>2. g \in 1 .. gpuStarted
    <2>1. G!NewSession.beating = FALSE
      BY DEF G!NewSession
    <2>2. ~(g > gpuStarted)
      BY <1>1, <2>1 DEF GpuInv, GpuOwn
    <2> QED
      BY <2>2, GpuTyped
  <1>3. msg \in Messages /\ ~Sound(msg) /\ chunks' = chunks
    BY DEF G!Message, Messages, Sound, G!ping
  <1>4. G!flushPending(g, G!Queued(gpuSession[g], msg), gpuLink)
    BY DEF G!ping
  <1>5. UNCHANGED <<current, gpuStarted, gpuLink, slowClose>>
    BY DEF G!ping
  <1> HIDE DEF msg
  <1>6. /\ GpuOrder' /\ heard' \in Seq(Messages)
        /\ \E p \in Seq(Messages) :
              /\ Len(p) <= MaxPending
              /\ gpuSession' = [gpuSession EXCEPT ![g] = [gpuSession[g] EXCEPT !.pending = p]]
    BY <1>1, <1>2, <1>3, <1>4, <1>5, SentInOrder
  <1> QED
    BY <1>1, <1>2, <1>3, <1>5, <1>6, TalkPreserves


\* A socket's open event, whether the session still has this socket or not.
LEMMA OpensPreserves ==
  ASSUME GpuInv, NEW s \in G!Sockets, G!opens(s)
  PROVE  GpuInv'
  <1> DEFINE g == gpuLink[s].of
             r == [gpuSession[g] EXCEPT !.connected = TRUE, !.beating = TRUE]
             msg == G!Message("session.start")
             links == [gpuLink EXCEPT ![s].state = "open"]
  <1>1. gpuLink[s].state = "connecting" /\ gpuLink' = links /\ UNCHANGED <<current, gpuStarted, chunks, slowClose>>
    BY DEF G!opens
  <1>2. G!flushPending(g, G!Queued(r, msg), links)
    BY DEF G!opens
  <1>3. g \in 1 .. gpuStarted /\ g \in G!Runs
    BY <1>1, GpuTyped
  <1>4. gpuSession[g] \in GpuSession /\ chunks \in Nat
    BY <1>3 DEF GpuInv, GpuTypes
  <1>5. /\ r \in GpuSession /\ r.pending = gpuSession[g].pending /\ r.ws = gpuSession[g].ws
        /\ r.timer = gpuSession[g].timer
    BY <1>4 DEF GpuSession
  <1>6. msg \in Messages /\ ~Sound(msg)
    BY DEF G!Message, Messages, Sound
  <1>7. g = current \/ slowClose
    BY <1>1, <1>3 DEF GpuInv, G!StoppedIsSilent, G!Running
  <1>8. \E t \in G!Sockets : /\ gpuLink[t].state = "connecting" /\ gpuLink[t].of = g
                             /\ gpuLink' = [gpuLink EXCEPT ![t].state = "open"]
    BY <1>1
  <1> HIDE DEF g, r, msg, links
  <1>9. /\ GpuOrder' /\ heard' \in Seq(Messages)
        /\ \E p \in Seq(Messages) :
              /\ Len(p) <= MaxPending
              /\ gpuSession' = [gpuSession EXCEPT ![g] = [r EXCEPT !.pending = p]]
    BY <1>1, <1>2, <1>3, <1>4, <1>5, <1>6, SentInOrder
  <1>10. PICK p \in Seq(Messages) :
              /\ Len(p) <= MaxPending
              /\ gpuSession' = [gpuSession EXCEPT ![g] = [r EXCEPT !.pending = p]]
    BY <1>9
  <1> QED
    BY <1>1, <1>3, <1>4, <1>5, <1>7, <1>8, <1>9, <1>10, TalkPreserves

\* A socket that is lost, by an error or by its close, of whichever session.
LEMMA LostPreserves ==
  ASSUME GpuInv, NEW s \in G!Sockets, NEW v \in {"closing", "closed"},
         gpuLink[s].state \in {"connecting", "open", "closing"},
         v = "closing" => gpuLink[s].state = "open",
         gpuLink' = [gpuLink EXCEPT ![s].state = v],
         G!handleDisconnect(gpuLink[s].of),
         UNCHANGED <<current, gpuStarted, chunks, heard, slowClose>>
  PROVE  GpuInv'
  <1> DEFINE g == gpuLink[s].of
             r == [gpuSession[g] EXCEPT !.connected = FALSE, !.beating = FALSE, !.timer = TRUE]
  <1>1. g \in 1 .. gpuStarted /\ g \in G!Runs
    BY GpuTyped
  <1>2. gpuSession[g] \in GpuSession
    BY <1>1 DEF GpuInv, GpuTypes
  <1>3. /\ gpuLink' \in [G!Sockets -> [state: {"none", "connecting", "open", "closing", "closed"},
                                       of: 0 .. gpuStarted]]
        /\ \A t \in G!Sockets : gpuLink'[t].of = gpuLink[t].of
        /\ \A t \in G!Sockets : t # s => gpuLink'[t].state = gpuLink[t].state
        /\ gpuLink'[s].state = v
    BY DEF GpuInv, GpuTypes
  <1>4. /\ gpuSession' \in [G!Runs -> GpuSession]
        /\ \A h \in G!Runs :
              /\ gpuSession'[h].ws = gpuSession[h].ws /\ gpuSession'[h].pending = gpuSession[h].pending
              /\ h # current => gpuSession'[h] = gpuSession[h]
        /\ g = current => gpuSession'[g].timer
        /\ g # current => gpuSession' = gpuSession
    <2>1. CASE g = current
      <3>2. G!Running(g)
        BY <1>1, <2>1, GpuTyped DEF G!Running
      <3>3. gpuSession' = [gpuSession EXCEPT ![g].connected = FALSE, ![g].beating = FALSE,
                                             ![g].timer = TRUE]
        BY <3>2 DEF G!handleDisconnect
      <3>1. gpuSession' = [gpuSession EXCEPT ![g] = r]
        BY <1>1, <3>3 DEF GpuInv, GpuTypes, GpuSession
      <3>4. r \in GpuSession /\ r.ws = gpuSession[g].ws /\ r.pending = gpuSession[g].pending /\ r.timer
        BY <1>2 DEF GpuSession
      <3> HIDE DEF r, g
      <3> QED
        BY <1>1, <2>1, <3>1, <3>4 DEF GpuInv, GpuTypes
    <2>2. CASE g # current
      BY <2>2 DEF G!handleDisconnect, G!Running, GpuInv, GpuTypes
    <2> QED
      BY <2>1, <2>2
  <1>5. GpuTypes'
    <2>1. \A t \in G!Sockets : gpuLink'[t].state = "none" <=> gpuLink'[t].of = 0
      BY <1>3 DEF GpuInv, GpuTypes
    <2> QED
      BY <1>3, <1>4, <2>1 DEF GpuInv, GpuTypes
  <1>6. current # 0 => current \in G!Runs /\ gpuSession[current].ws \in G!Sockets
    BY GpuTyped DEF GpuInv, GpuTypes, GpuOwn, GpuSession
  <1>7. GpuOwn'
    <2>1. \A h \in G!Runs : h > gpuStarted => gpuSession'[h] = G!NewSession
      BY <1>1, <1>4, GpuTyped DEF GpuInv, GpuOwn
    <2>2. \A h \in G!Runs : h # current => gpuSession'[h].ws = 0 /\ ~gpuSession'[h].timer
      BY <1>4 DEF GpuInv, GpuOwn
    <2>3. current # 0 => /\ gpuSession'[current].ws # 0
                         /\ gpuLink'[gpuSession'[current].ws].of = current
      BY <1>3, <1>4, <1>6 DEF GpuInv, GpuOwn
    <2> QED
      BY <2>1, <2>2, <2>3 DEF GpuOwn
  <1>8. GpuOthersClosed'
    BY <1>3, <1>4, <1>6 DEF GpuInv, GpuOthersClosed
  <1>9. GpuOrder'
    BY <1>4, <1>6 DEF GpuInv, GpuOrder
  <1>10. G!StoppedIsSilent'
    <2> SUFFICES ASSUME NEW h \in 1 .. gpuStarted, ~(h # 0 /\ h = current), ~slowClose
                 PROVE  /\ ~gpuSession'[h].timer /\ ~gpuSession'[h].beating
                        /\ \A t \in G!Sockets : gpuLink'[t].of = h => gpuLink'[t].state \in {"closing", "closed"}
      BY DEF G!StoppedIsSilent, G!Running
    <2>1. h \in G!Runs /\ h # current
      BY GpuTyped
    <2> QED
      BY <1>3, <1>4, <2>1 DEF GpuInv, G!StoppedIsSilent, G!Running
  <1>11. G!NeverStranded'
    <2>1. CASE g = current
      BY <1>4, <2>1 DEF G!NeverStranded
    <2>2. CASE g # current
      BY <1>3, <1>4, <2>2 DEF GpuInv, G!NeverStranded
    <2> QED
      BY <2>1, <2>2
  <1> QED
    BY <1>5, <1>7, <1>8, <1>9, <1>10, <1>11 DEF GpuInv

\* A session has a new socket: one that is started, or the one that is there again.
LEMMA ConnectingTypes ==
  ASSUME GpuInv, NEW g \in G!Runs, NEW s \in G!Sockets, G!Connecting(g, s), g <= gpuStarted',
         gpuStarted' \in 0 .. MaxStarts, gpuStarted <= gpuStarted'
  PROVE  /\ gpuLink[s].state = "none" /\ gpuLink[s].of = 0
         /\ gpuLink' \in [G!Sockets -> [state: {"none", "connecting", "open", "closing", "closed"},
                                        of: 0 .. gpuStarted']]
         /\ \A t \in G!Sockets : t # s => gpuLink'[t] = gpuLink[t]
         /\ gpuLink'[s] = [state |-> "connecting", of |-> g]
         /\ \A t \in G!Sockets : gpuLink'[t].state = "none" <=> gpuLink'[t].of = 0
  <1>1. gpuLink[s].state = "none" /\ gpuLink' = [gpuLink EXCEPT ![s] = [state |-> "connecting", of |-> g]]
    BY DEF G!Connecting
  <1>2. /\ gpuLink \in [G!Sockets -> [state: {"none", "connecting", "open", "closing", "closed"},
                                      of: 0 .. gpuStarted]]
        /\ \A t \in G!Sockets : gpuLink[t].state = "none" <=> gpuLink[t].of = 0
    BY DEF GpuInv, GpuTypes
  <1>3. g \in 0 .. gpuStarted' /\ g # 0 /\ 0 .. gpuStarted \subseteq 0 .. gpuStarted'
    BY GpuTyped, ConnectionsAssumption
  <1>4. /\ \A t \in G!Sockets : t # s => gpuLink'[t] = gpuLink[t]
        /\ gpuLink'[s] = [state |-> "connecting", of |-> g]
    BY <1>1, <1>2
  <1>5. \A t \in G!Sockets : gpuLink'[t] \in [state: {"none", "connecting", "open", "closing", "closed"},
                                              of: 0 .. gpuStarted']
    BY <1>2, <1>3, <1>4
  <1> QED
    BY <1>1, <1>2, <1>3, <1>4, <1>5


\* The reconnect timer fires.
LEMMA ReconnectPreserves ==
  ASSUME GpuInv, NEW g \in G!Runs, G!reconnect(g)
  PROVE  GpuInv'
  <1>1. PICK s \in G!Sockets :
           /\ G!Connecting(g, s)
           /\ gpuSession' = [gpuSession EXCEPT ![g].timer = FALSE, ![g].ws = s]
    BY DEF G!reconnect
  <1>2. /\ gpuSession[g].timer /\ UNCHANGED <<current, gpuStarted, chunks, heard>>
        /\ slowClose' = (slowClose \/ \E t \in G!Sockets : gpuLink[t].of = g /\ gpuLink[t].state # "closed")
    BY DEF G!reconnect
  <1>3. g = current /\ current # 0 /\ g <= gpuStarted
    BY <1>2, GpuTyped DEF GpuInv, GpuOwn
  <1>4. /\ gpuLink[s].state = "none" /\ gpuLink[s].of = 0
        /\ gpuLink' \in [G!Sockets -> [state: {"none", "connecting", "open", "closing", "closed"},
                                       of: 0 .. gpuStarted]]
        /\ \A t \in G!Sockets : t # s => gpuLink'[t] = gpuLink[t]
        /\ gpuLink'[s] = [state |-> "connecting", of |-> g]
        /\ \A t \in G!Sockets : gpuLink'[t].state = "none" <=> gpuLink'[t].of = 0
    BY <1>1, <1>2, <1>3, ConnectingTypes, GpuTyped DEF GpuInv, GpuTypes
  <1>5. /\ gpuSession' \in [G!Runs -> GpuSession]
        /\ \A h \in G!Runs : h # g => gpuSession'[h] = gpuSession[h]
        /\ gpuSession'[g].ws = s /\ gpuSession'[g].pending = gpuSession[g].pending
    <2> DEFINE r == [gpuSession[g] EXCEPT !.timer = FALSE, !.ws = s]
    <2>1. gpuSession \in [G!Runs -> GpuSession]
      BY DEF GpuInv, GpuTypes
    <2>2. gpuSession' = [gpuSession EXCEPT ![g] = r]
      BY <1>1, <2>1
    <2>3. r \in GpuSession /\ r.ws = s /\ r.pending = gpuSession[g].pending
      BY <2>1 DEF GpuSession
    <2> HIDE DEF r
    <2> QED
      BY <2>1, <2>2, <2>3
  <1>6. GpuTypes'
    <2>1. slowClose' \in BOOLEAN
      BY <1>2 DEF GpuInv, GpuTypes
    <2>2. \A h \in G!Runs : gpuSession'[h].pending = gpuSession[h].pending
      BY <1>5
    <2> QED
      BY <1>2, <1>4, <1>5, <2>1, <2>2 DEF GpuInv, GpuTypes
  <1>7. GpuOwn'
    BY <1>2, <1>3, <1>4, <1>5, GpuTyped DEF GpuInv, GpuOwn
  <1>8. GpuOthersClosed'
    <2> SUFFICES ASSUME ~slowClose', NEW t \in G!Sockets, gpuLink'[t].of = g, t # s
                 PROVE  gpuLink'[t].state = "closed"
      BY <1>2, <1>3, <1>5 DEF GpuOthersClosed
    <2>1. gpuLink[t].of = g /\ gpuLink'[t] = gpuLink[t]
      BY <1>4
    <2> QED
      BY <1>2, <2>1
  <1>9. GpuOrder'
    BY <1>2, <1>3, <1>5 DEF GpuInv, GpuOrder
  <1>10. G!StoppedIsSilent'
    <2> SUFFICES ASSUME NEW h \in 1 .. gpuStarted, ~(h # 0 /\ h = current), ~slowClose'
                 PROVE  /\ ~gpuSession'[h].timer /\ ~gpuSession'[h].beating
                        /\ \A t \in G!Sockets : gpuLink'[t].of = h => gpuLink'[t].state \in {"closing", "closed"}
      BY <1>2 DEF G!StoppedIsSilent, G!Running
    <2>1. h \in G!Runs /\ h # g
      BY <1>3, GpuTyped
    <2>2. ~slowClose /\ ~G!Running(h)
      BY <1>2, <1>3, <2>1 DEF G!Running
    <2>3. /\ ~gpuSession[h].timer /\ ~gpuSession[h].beating
          /\ \A t \in G!Sockets : gpuLink[t].of = h => gpuLink[t].state \in {"closing", "closed"}
      BY <2>2 DEF GpuInv, G!StoppedIsSilent
    <2> QED
      BY <1>4, <1>5, <2>1, <2>3
  <1>11. G!NeverStranded'
    BY <1>2, <1>3, <1>4 DEF G!NeverStranded
  <1> QED
    BY <1>6, <1>7, <1>8, <1>9, <1>10, <1>11 DEF GpuInv

\* A session is started.
LEMMA GpuStartPreserves ==
  ASSUME GpuInv, G!startSession
  PROVE  GpuInv'
  <1> DEFINE g == gpuStarted + 1
  <1>1. PICK s \in G!Sockets :
           /\ G!Connecting(g, s)
           /\ gpuSession' = [gpuSession EXCEPT ![g].ws = s]
    BY DEF G!startSession
  <1>2. /\ current = 0 /\ gpuStarted < MaxStarts /\ gpuStarted' = g /\ current' = g
        /\ UNCHANGED <<chunks, heard, slowClose>>
    BY DEF G!startSession
  <1>3. g \in G!Runs /\ g # 0 /\ g > gpuStarted /\ g \in 0 .. MaxStarts
    BY <1>2, GpuTyped
  <1> HIDE DEF g
  <1>4. /\ gpuLink[s].state = "none" /\ gpuLink[s].of = 0
        /\ gpuLink' \in [G!Sockets -> [state: {"none", "connecting", "open", "closing", "closed"},
                                       of: 0 .. gpuStarted']]
        /\ \A t \in G!Sockets : t # s => gpuLink'[t] = gpuLink[t]
        /\ gpuLink'[s] = [state |-> "connecting", of |-> g]
        /\ \A t \in G!Sockets : gpuLink'[t].state = "none" <=> gpuLink'[t].of = 0
    <2>1. g <= gpuStarted' /\ gpuStarted' \in 0 .. MaxStarts /\ gpuStarted <= gpuStarted'
      BY <1>2, <1>3, GpuTyped
    <2> QED
      BY <1>1, <1>3, <2>1, ConnectingTypes
  <1>5. gpuSession[g] = G!NewSession
    BY <1>3 DEF GpuInv, GpuOwn
  <1>6. /\ gpuSession' \in [G!Runs -> GpuSession]
        /\ \A h \in G!Runs : h # g => gpuSession'[h] = gpuSession[h]
        /\ gpuSession'[g].ws = s /\ gpuSession'[g].pending = gpuSession[g].pending
    BY <1>1, <1>3 DEF GpuInv, GpuTypes, GpuSession
  <1>7. gpuSession'[g].pending = <<>>
    BY <1>5, <1>6 DEF G!NewSession
  <1>8. GpuTypes'
    <2>1. \A h \in G!Runs : gpuSession'[h].pending = gpuSession[h].pending
      BY <1>6
    <2> QED
      BY <1>2, <1>3, <1>4, <1>6, <2>1 DEF GpuInv, GpuTypes
  <1>9. s # 0 /\ \A t \in G!Sockets : t # s => gpuLink[t].of # g
    <2>1. \A t \in G!Sockets : gpuLink[t].of \in 0 .. gpuStarted
      BY DEF GpuInv, GpuTypes
    <2> QED
      BY <1>3, <2>1, GpuTyped
  <1>10. GpuOwn'
    <2>1. \A h \in G!Runs : h > gpuStarted' => gpuSession'[h] = G!NewSession
      <3>1. \A h \in G!Runs : h > gpuStarted' => h > gpuStarted /\ h # g
        BY <1>2, <1>3, GpuTyped DEF g
      <3> QED
        BY <1>6, <3>1 DEF GpuInv, GpuOwn
    <2>2. \A h \in G!Runs : h # current' => gpuSession'[h].ws = 0 /\ ~gpuSession'[h].timer
      <3>1. \A h \in G!Runs : h # current
        BY <1>2, GpuTyped
      <3> QED
        BY <1>2, <1>6, <3>1 DEF GpuInv, GpuOwn
    <2>3. gpuSession'[current'].ws # 0 /\ gpuLink'[gpuSession'[current'].ws].of = current'
      BY <1>2, <1>4, <1>6, <1>9
    <2> QED
      BY <2>1, <2>2, <2>3 DEF GpuOwn
  <1>11. GpuOthersClosed'
    BY <1>2, <1>4, <1>6, <1>9 DEF GpuOthersClosed
  <1>12. GpuOrder'
    <2>1. DOMAIN <<>> = {}
      OBVIOUS
    <2> QED
      BY <1>2, <1>7, <2>1 DEF GpuInv, GpuOrder, Ordered, UpTo, Before
  <1>13. G!StoppedIsSilent'
    <2> SUFFICES ASSUME NEW h \in 1 .. gpuStarted', ~(h # 0 /\ h = current'), ~slowClose
                 PROVE  /\ ~gpuSession'[h].timer /\ ~gpuSession'[h].beating
                        /\ \A t \in G!Sockets : gpuLink'[t].of = h => gpuLink'[t].state \in {"closing", "closed"}
      BY <1>2 DEF G!StoppedIsSilent, G!Running
    <2>1. h \in G!Runs /\ h # g /\ h \in 1 .. gpuStarted
      BY <1>2, <1>3, GpuTyped DEF g
    <2> QED
      BY <1>2, <1>4, <1>6, <2>1 DEF GpuInv, G!StoppedIsSilent, G!Running
  <1>14. G!NeverStranded'
    BY <1>2, <1>4 DEF G!NeverStranded
  <1> QED
    BY <1>8, <1>10, <1>11, <1>12, <1>13, <1>14 DEF GpuInv

\* The session in the map is stopped.
LEMMA GpuStopPreserves ==
  ASSUME GpuInv, G!stopSession
  PROVE  GpuInv'
  <1> DEFINE g == current
             ws == gpuSession[g].ws
             q == G!Queued(gpuSession[g], G!Message("session.stop"))
             sent == [q EXCEPT !.connected = FALSE, !.timer = FALSE, !.beating = FALSE, !.ws = 0]
             gone == CASE gpuLink[ws].state = "open" -> "closing"
                       [] gpuLink[ws].state = "connecting" -> "closed"
                       [] OTHER -> gpuLink[ws].state
  <1>1. /\ current # 0 /\ current' = 0 /\ UNCHANGED <<gpuStarted, chunks, slowClose>>
        /\ gpuLink' = [gpuLink EXCEPT ![ws].state = gone]
        /\ \/ /\ gpuSession' = [gpuSession EXCEPT ![g] = [sent EXCEPT !.pending = <<>>]]
              /\ heard' = heard \o sent.pending
           \/ gpuSession' = [gpuSession EXCEPT ![g] = sent] /\ heard' = heard
    BY DEF G!stopSession
  <1>2. g \in G!Runs /\ g \in 1 .. gpuStarted
    BY <1>1, GpuTyped
  <1>3. /\ gpuSession[g] \in GpuSession /\ Len(gpuSession[g].pending) <= MaxPending
        /\ chunks \in Nat /\ heard \in Seq(Messages)
    BY <1>2 DEF GpuInv, GpuTypes
  <1>4. ws \in G!Sockets /\ gpuLink[ws].of = g
    BY <1>1, <1>3 DEF GpuInv, GpuOwn, GpuSession
  <1>5. G!Message("session.stop") \in Messages /\ ~Sound(G!Message("session.stop"))
    BY DEF G!Message, Messages, Sound
  <1>6. /\ q = [gpuSession[g] EXCEPT !.pending = q.pending]
        /\ q.pending \in Seq(Messages) /\ Len(q.pending) <= MaxPending
    BY <1>3, <1>5, QueuedKeeps
  <1>7. Ordered(heard) /\ UpTo(heard, chunks) /\ Ordered(q.pending) /\ UpTo(q.pending, chunks) /\ Before(heard, q.pending)
    BY <1>1, <1>3, <1>5, QueuedInOrder DEF GpuInv, GpuOrder
  <1>8. gpuLink[ws].state # "none"
    BY <1>2, <1>4 DEF GpuInv, GpuTypes
  <1> HIDE DEF q, ws
  <1>9. q \in GpuSession
    BY <1>3, <1>6 DEF GpuSession
  <1>10. /\ sent \in GpuSession /\ sent.pending = q.pending /\ sent.ws = 0 /\ ~sent.timer /\ ~sent.beating
    BY <1>9 DEF GpuSession
  <1> HIDE DEF sent
  <1>11. /\ gpuSession' \in [G!Runs -> GpuSession]
         /\ \A h \in G!Runs : h # g => gpuSession'[h] = gpuSession[h]
         /\ gpuSession'[g].ws = 0 /\ ~gpuSession'[g].timer /\ ~gpuSession'[g].beating
         /\ Len(gpuSession'[g].pending) <= MaxPending
    <2>0. <<>> \in Seq(Messages)
      OBVIOUS
    <2>1. /\ [sent EXCEPT !.pending = <<>>] \in GpuSession
          /\ [sent EXCEPT !.pending = <<>>].pending = <<>>
          /\ [sent EXCEPT !.pending = <<>>].ws = 0
          /\ ~[sent EXCEPT !.pending = <<>>].timer /\ ~[sent EXCEPT !.pending = <<>>].beating
      BY <1>10, <2>0 DEF GpuSession
    <2>2. Len(<<>>) <= MaxPending
      BY ConnectionsAssumption
    <2>3. gpuSession \in [G!Runs -> GpuSession]
      BY DEF GpuInv, GpuTypes
    <2>4. PICK r \in GpuSession : /\ gpuSession' = [gpuSession EXCEPT ![g] = r]
                                  /\ r.ws = 0 /\ ~r.timer /\ ~r.beating /\ Len(r.pending) <= MaxPending
      BY <1>1, <1>6, <1>10, <2>1, <2>2
    <2> QED
      BY <1>2, <2>3, <2>4
  <1>12. /\ gone \in {"closing", "closed"}
    BY <1>4, <1>8 DEF GpuInv, GpuTypes
  <1> HIDE DEF gone
  <1>13. /\ gpuLink' \in [G!Sockets -> [state: {"none", "connecting", "open", "closing", "closed"},
                                        of: 0 .. gpuStarted]]
         /\ \A t \in G!Sockets : gpuLink'[t].of = gpuLink[t].of
         /\ \A t \in G!Sockets : t # ws => gpuLink'[t].state = gpuLink[t].state
         /\ gpuLink'[ws].state \in {"closing", "closed"}
    BY <1>1, <1>4, <1>12 DEF GpuInv, GpuTypes
  <1>14. heard' \in Seq(Messages) /\ Ordered(heard') /\ UpTo(heard', chunks)
    <2>1. CASE heard' = heard
      BY <1>3, <1>7, <2>1
    <2>2. CASE heard' = heard \o q.pending
      BY <1>3, <1>6, <1>7, <2>2, JoinedInOrder
    <2> QED
      BY <1>1, <1>10, <2>1, <2>2
  <1>15. GpuTypes'
    <2>1. \A t \in G!Sockets : gpuLink'[t].state = "none" <=> gpuLink'[t].of = 0
      BY <1>4, <1>8, <1>13 DEF GpuInv, GpuTypes
    <2>2. \A h \in G!Runs : Len(gpuSession'[h].pending) <= MaxPending
      BY <1>11 DEF GpuInv, GpuTypes
    <2> QED
      BY <1>1, <1>11, <1>13, <1>14, <2>1, <2>2 DEF GpuInv, GpuTypes
  <1>16. GpuOwn'
    <2>1. \A h \in G!Runs : h > gpuStarted => h # g
      BY <1>2, GpuTyped
    <2> QED
      BY <1>1, <1>11, <2>1 DEF GpuInv, GpuOwn
  <1>17. GpuOthersClosed' /\ G!NeverStranded' /\ GpuOrder'
    BY <1>1, <1>14 DEF GpuOthersClosed, G!NeverStranded, GpuOrder
  <1>18. G!StoppedIsSilent'
    <2> SUFFICES ASSUME NEW h \in 1 .. gpuStarted, ~slowClose
                 PROVE  /\ ~gpuSession'[h].timer /\ ~gpuSession'[h].beating
                        /\ \A t \in G!Sockets : gpuLink'[t].of = h => gpuLink'[t].state \in {"closing", "closed"}
      BY <1>1 DEF G!StoppedIsSilent
    <2>1. h \in G!Runs
      BY GpuTyped
    <2>2. CASE h = g
      <3>1. \A t \in G!Sockets : gpuLink[t].of = g /\ t # ws => gpuLink[t].state = "closed"
        BY <1>1 DEF GpuInv, GpuOthersClosed, ws
      <3> QED
        BY <1>11, <1>13, <2>2, <3>1
    <2>3. CASE h # g
      BY <1>4, <1>11, <1>13, <2>1, <2>3 DEF GpuInv, G!StoppedIsSilent, G!Running
    <2> QED
      BY <2>2, <2>3
  <1> QED
    BY <1>15, <1>16, <1>17, <1>18 DEF GpuInv

\* Sessions, sockets, timers and the queue.
LEMMA GpuPreserves ==
  ASSUME GpuInv, [G!GpuNext]_(G!gpuVars)
  PROVE  GpuInv'
  <1>1. CASE G!startSession
    BY <1>1, GpuStartPreserves
  <1>2. CASE G!stopSession
    BY <1>2, GpuStopPreserves
  <1>3. CASE G!ingestChunk
    BY <1>3, ChunkPreserves
  <1>4. CASE \E g \in G!Runs : G!reconnect(g) \/ G!ping(g)
    BY <1>4, ReconnectPreserves, PingPreserves
  <1>5. CASE \E s \in G!Sockets : G!opens(s)
    BY <1>5, OpensPreserves
  <1>6. CASE \E s \in G!Sockets : G!errors(s) \/ G!closes(s)
    BY <1>6, LostPreserves DEF G!errors, G!closes
  <1>7. CASE UNCHANGED G!gpuVars
    BY <1>7 DEF G!gpuVars, GpuInv, GpuTypes, GpuOwn, GpuOthersClosed, GpuOrder, G!StoppedIsSilent,
                G!NeverStranded, G!Running
  <1> QED
    BY <1>1, <1>2, <1>3, <1>4, <1>5, <1>6, <1>7 DEF G!GpuNext

\* What is heard and what waits is in order, so what is heard is.
LEMMA GpuHolds ==
  G!GpuSpec => []GpuInv
  <1>1. G!GpuInit => GpuInv
    BY GpuInitHolds
  <1>2. GpuInv /\ [G!GpuNext]_(G!gpuVars) => GpuInv'
    BY GpuPreserves
  <1> QED
    BY <1>1, <1>2, PTL DEF G!GpuSpec

\* The invariant says what the run checks of the pod.
LEMMA GpuInvImplies ==
  ASSUME GpuInv
  PROVE  G!GpuTypeOK /\ G!HeardInOrder
  <1>1. G!HeardInOrder
    BY DEF GpuInv, GpuOrder, Ordered, Sound, G!HeardInOrder
  <1>2. /\ current \in {0, gpuStarted} /\ gpuStarted \in {0} \cup G!Runs
    BY GpuTyped DEF GpuInv, GpuTypes
  <1>3. /\ \A g \in G!Runs : gpuSession[g].ws \in {0} \cup G!Sockets
        /\ \A g \in G!Runs : Len(gpuSession[g].pending) <= MaxPending
    BY DEF GpuInv, GpuTypes, GpuSession
  <1>4. \A s \in G!Sockets : gpuLink[s].state \in {"none", "connecting", "open", "closing", "closed"}
    BY DEF GpuInv, GpuTypes
  <1> QED
    BY <1>1, <1>2, <1>3, <1>4 DEF G!GpuTypeOK

-----------------------------------------------------------------------------
(* The client of Redis.  While it has had one socket at a time, what is in *)
(* flight is exactly what that socket owes, and the buffer holds at most   *)
(* the beginning of the next reply: the position of a reply is its name.   *)

Items == Commands \cup R!Pings
Replies == [to: Items \cup {R!Garbage}, whole: BOOLEAN, error: BOOLEAN]

ClientTypes ==
    /\ link \in [R!Sockets -> {"none", "connecting", "open", "closed"}]
    /\ socket \in {0} \cup R!Sockets
    /\ connected \in BOOLEAN /\ timer \in BOOLEAN /\ beating \in BOOLEAN
    /\ inflight \in Seq(Items) /\ waiting \in Seq(Items) /\ Len(waiting) <= QueueLimit
    /\ owed \in [R!Sockets -> Seq(Items)] /\ buffer \in Seq(Replies)
    /\ outcome \in [Commands -> {"new", "asked", "rejected", "own", "wrong"}]
    /\ troubles \subseteq {"two", "half"}

\* What is in flight was written to a socket, and the client still believes in one.
FlightHasSocket == inflight # <<>> => connected /\ socket # 0

Alive(s) == link[s] \in {"connecting", "open"}

\* One socket at a time: the live one is the client's, and the client's is live.
OneSocket ==
    /\ \A s \in R!Sockets : Alive(s) <=> socket = s
    /\ connected <=> \E s \in R!Sockets : link[s] = "open"

\* In flight is what the socket owes, and the buffer holds a part of the next reply.
InStep ==
    /\ inflight = IF socket = 0 THEN <<>> ELSE owed[socket]
    /\ \A s \in R!Sockets : owed[s] # <<>> => link[s] = "open"
    /\ \/ buffer = <<>>
       \/ \E p \in Replies : /\ buffer = <<p>> /\ ~p.whole
                             /\ inflight # <<>> /\ p.to = Head(inflight)
    /\ \A c \in Commands : outcome[c] # "wrong"

ClientInv ==
    /\ ClientTypes /\ FlightHasSocket /\ R!SomethingWillDrain
    /\ troubles = {} => OneSocket /\ InStep

\* The invariant says what the run checks of the client.
LEMMA ClientInvImplies ==
  ASSUME ClientInv
  PROVE  R!ClientTypeOK /\ R!OwnReply /\ R!SomethingWillDrain
  <1>1. /\ \A i \in DOMAIN inflight : inflight[i] \in Items
        /\ \A i \in DOMAIN waiting : waiting[i] \in Items
    BY DEF ClientInv, ClientTypes
  <1>2. R!ClientTypeOK
    BY <1>1 DEF ClientInv, ClientTypes, R!ClientTypeOK, Items
  <1> QED
    BY <1>2 DEF ClientInv, InStep, R!OwnReply

\* It holds with one open socket and nothing asked.
LEMMA ClientInitHolds ==
  ASSUME R!ClientInit
  PROVE  ClientInv
  <1>0. MaxSockets \in Nat \ {0} /\ QueueLimit \in Nat
    BY ConnectionsAssumption
  <1>1. ClientTypes
    <2>1. /\ link \in [R!Sockets -> {"none", "connecting", "open", "closed"}]
          /\ socket \in R!Sockets
      BY <1>0 DEF R!ClientInit, R!Sockets
    <2>2. /\ inflight \in Seq(Items) /\ waiting \in Seq(Items) /\ Len(waiting) <= QueueLimit
          /\ buffer \in Seq(Replies)
      BY <1>0 DEF R!ClientInit
    <2>3. owed \in [R!Sockets -> Seq(Items)]
      <3>1. <<>> \in Seq(Items)
        OBVIOUS
      <3> QED
        BY <3>1 DEF R!ClientInit
    <2>4. outcome \in [Commands -> {"new", "asked", "rejected", "own", "wrong"}]
      BY DEF R!ClientInit
    <2> QED
      BY <2>1, <2>2, <2>3, <2>4 DEF R!ClientInit, ClientTypes
  <1>2. FlightHasSocket /\ R!SomethingWillDrain
    BY DEF R!ClientInit, FlightHasSocket, R!SomethingWillDrain
  <1>3. OneSocket
    BY <1>0 DEF R!ClientInit, OneSocket, Alive, R!Sockets
  <1>4. InStep
    BY <1>0 DEF R!ClientInit, InStep, R!Sockets
  <1> QED
    BY <1>1, <1>2, <1>3, <1>4 DEF ClientInv

\* A PING of a socket is an item, and no socket is 0.
LEMMA SocketsAreItems ==
  /\ 0 \in Items /\ R!Beat \in Items
  /\ \A s \in R!Sockets : s \in Items /\ s # 0 /\ s \in R!Pings /\ s # R!Beat
  BY ConnectionsAssumption DEF Items, R!Pings, R!Sockets, R!Beat

\* What is written to a socket is owed by it.
LEMMA WrittenIs ==
  ASSUME ClientTypes, NEW item \in Items, NEW s \in R!Sockets, Alive(s)
  PROVE  /\ R!Written(item, s) \in [R!Sockets -> Seq(Items)]
         /\ R!Written(item, s)[s] = Append(owed[s], item)
         /\ \A t \in R!Sockets \ {s} : R!Written(item, s)[t] = owed[t]
  BY DEF ClientTypes, R!Written, Alive

\* Whatever the socket is, what it owes remains of its type.
LEMMA WrittenType ==
  ASSUME ClientTypes, NEW item \in Items, NEW s \in R!Sockets
  PROVE  R!Written(item, s) \in [R!Sockets -> Seq(Items)]
  BY DEF ClientTypes, R!Written

\* An item that is written is in flight and owed; one that waits has set the timer.
LEMMA ItemKeeps ==
  ASSUME ClientInv, NEW item \in Items, R!Write(item) \/ R!enqueueWaiting(item),
         outcome' \in [Commands -> {"new", "asked", "rejected", "own", "wrong"}],
         \A c \in Commands : outcome'[c] = "wrong" => outcome[c] = "wrong",
         UNCHANGED <<link, socket, connected, beating, buffer, troubles>>
  PROVE  ClientInv'
  <1>0. ClientTypes
    BY DEF ClientInv
  <1>1. CASE R!Write(item)
    <2>1. /\ connected /\ socket # 0 /\ socket \in R!Sockets
          /\ inflight' = Append(inflight, item) /\ owed' = R!Written(item, socket)
          /\ waiting' = waiting /\ timer' = timer
      BY <1>0, <1>1 DEF R!Write, R!CanWrite, ClientTypes
    <2>2. /\ inflight \in Seq(Items) /\ inflight' \in Seq(Items) /\ inflight' # <<>>
          /\ Len(inflight') = Len(inflight) + 1
      <3>1. inflight \in Seq(Items)
        BY <1>0 DEF ClientTypes
      <3>2. inflight' \in Seq(Items) /\ Len(inflight') = Len(inflight) + 1
        BY <2>1, <3>1, AppendProperties
      <3>3. inflight' # <<>>
        BY <2>1, <3>1, AppendProperties
      <3> QED
        BY <3>1, <3>2, <3>3
    <2>3. ClientTypes'
      BY <1>0, <2>1, <2>2, WrittenType DEF ClientTypes
    <2>4. FlightHasSocket'
      BY <2>1 DEF FlightHasSocket
    <2>5. R!SomethingWillDrain'
      <3>1. ASSUME NEW s \in R!Sockets, R!In(s, inflight)
            PROVE  R!In(s, inflight)'
        BY <2>1, <2>2, <3>1 DEF R!In
      <3> QED
        BY <2>1, <3>1 DEF ClientInv, R!SomethingWillDrain
    <2>6. ASSUME troubles' = {}
          PROVE  OneSocket' /\ InStep'
      <3>1. OneSocket /\ InStep
        BY <2>6 DEF ClientInv
      <3>2. link[socket] = "open" /\ Alive(socket)
        BY <2>1, <3>1 DEF OneSocket, Alive
      <3>3. /\ owed'[socket] = Append(owed[socket], item)
            /\ \A t \in R!Sockets \ {socket} : owed'[t] = owed[t]
        BY <1>0, <2>1, <3>2, WrittenIs
      <3>4. (inflight' = owed'[socket] /\ Head(inflight) = Head(inflight')) \/ inflight = <<>>
        BY <2>1, <2>2, <3>1, <3>3 DEF InStep
      <3>5. inflight' = IF socket' = 0 THEN <<>> ELSE owed'[socket']
        BY <2>1, <3>1, <3>3 DEF InStep
      <3>6. \A s \in R!Sockets : owed'[s] # <<>> => link'[s] = "open"
        BY <3>1, <3>2, <3>3 DEF InStep
      <3>7. \/ buffer' = <<>>
            \/ \E p \in Replies : /\ buffer' = <<p>> /\ ~p.whole
                                  /\ inflight' # <<>> /\ p.to = Head(inflight')
        BY <2>2, <3>1, <3>4 DEF InStep
      <3> QED
        BY <3>1, <3>5, <3>6, <3>7 DEF OneSocket, InStep, Alive
    <2> QED
      BY <2>3, <2>4, <2>5, <2>6 DEF ClientInv
  <1>2. CASE R!enqueueWaiting(item)
    <2>1. /\ Len(waiting) < QueueLimit /\ waiting' = Append(waiting, item) /\ timer' = TRUE
          /\ UNCHANGED <<inflight, owed>>
      BY <1>2 DEF R!enqueueWaiting
    <2>2. ClientTypes'
      BY <1>0, <2>1, ConnectionsAssumption DEF ClientTypes
    <2>3. FlightHasSocket' /\ R!SomethingWillDrain'
      BY <2>1 DEF ClientInv, FlightHasSocket, R!SomethingWillDrain
    <2>4. troubles' = {} => OneSocket' /\ InStep'
      BY <2>1 DEF ClientInv, OneSocket, InStep, Alive
    <2> QED
      BY <2>2, <2>3, <2>4 DEF ClientInv
  <1> QED
    BY <1>1, <1>2

\* A disconnect rejects what is in flight and leaves no socket, and comes back to connect.
LEMMA Disconnected ==
  ASSUME ClientInv, R!handleDisconnect
  PROVE  /\ connected' = FALSE /\ socket' = 0 /\ inflight' = <<>>
         /\ timer' \in BOOLEAN /\ beating' \in BOOLEAN
         /\ timer' = TRUE \/ (timer' = timer /\ ~connected /\ socket = 0 /\ inflight = <<>>)
         /\ outcome' \in [Commands -> {"new", "asked", "rejected", "own", "wrong"}]
         /\ \A c \in Commands : outcome'[c] = "wrong" => outcome[c] = "wrong"
  BY DEF R!handleDisconnect, ClientInv, ClientTypes, FlightHasSocket

\* A command is written, waits, or is rejected at once.
LEMMA CommandKeeps ==
  ASSUME ClientInv, NEW c \in Commands, R!command(c)
  PROVE  ClientInv'
  <1>0. /\ outcome \in [Commands -> {"new", "asked", "rejected", "own", "wrong"}] /\ c \in Items
        /\ UNCHANGED <<link, socket, connected, beating, buffer, beats, troubles>>
    BY DEF ClientInv, ClientTypes, Items, R!command
  <1>1. CASE (R!Write(c) \/ R!enqueueWaiting(c)) /\ outcome' = [outcome EXCEPT ![c] = "asked"]
    <2>1. /\ outcome' \in [Commands -> {"new", "asked", "rejected", "own", "wrong"}]
          /\ \A d \in Commands : outcome'[d] = "wrong" => outcome[d] = "wrong"
      BY <1>0, <1>1
    <2>2. UNCHANGED <<link, socket, connected, beating, buffer, troubles>>
      BY <1>0
    <2> QED
      BY <1>0, <1>1, <2>1, <2>2, ItemKeeps
  <1>2. CASE /\ outcome' = [outcome EXCEPT ![c] = "rejected"]
             /\ UNCHANGED <<inflight, owed, waiting, timer>>
    <2>1. /\ outcome' \in [Commands -> {"new", "asked", "rejected", "own", "wrong"}]
          /\ \A d \in Commands : outcome'[d] = "wrong" => outcome[d] = "wrong"
      BY <1>0, <1>2
    <2>2. ClientTypes' /\ FlightHasSocket' /\ R!SomethingWillDrain'
      BY <1>0, <1>2, <2>1 DEF ClientInv, ClientTypes, FlightHasSocket, R!SomethingWillDrain, R!In
    <2>3. troubles' = {} => OneSocket' /\ InStep'
      BY <1>0, <1>2, <2>1 DEF ClientInv, OneSocket, InStep, Alive
    <2> QED
      BY <2>2, <2>3 DEF ClientInv
  <1> QED
    BY <1>1, <1>2 DEF R!command

\* A heartbeat that finds no room disconnects, which takes a client with two sockets.
LEMMA HeartbeatKeeps ==
  ASSUME ClientInv, R!heartbeat
  PROVE  ClientInv'
  <1>0. connected /\ UNCHANGED <<link, buffer, troubles>>
    BY DEF R!heartbeat
  <1>1. CASE (R!Write(R!Beat) \/ R!enqueueWaiting(R!Beat)) /\ UNCHANGED <<connected, socket, beating, outcome>>
    <2>1. /\ outcome' \in [Commands -> {"new", "asked", "rejected", "own", "wrong"}]
          /\ \A d \in Commands : outcome'[d] = "wrong" => outcome[d] = "wrong"
      BY <1>1 DEF ClientInv, ClientTypes
    <2>2. PICK item \in Items : item = R!Beat
      BY SocketsAreItems
    <2>3. UNCHANGED <<link, socket, connected, beating, buffer, troubles>>
      BY <1>0, <1>1
    <2>4. R!Write(item) \/ R!enqueueWaiting(item)
      BY <1>1, <2>2
    <2> QED
      BY <2>1, <2>3, <2>4, ItemKeeps
  <1>2. CASE R!Overflow /\ R!handleDisconnect /\ UNCHANGED <<owed, waiting>>
    <2>1. /\ connected' = FALSE /\ socket' = 0 /\ inflight' = <<>>
          /\ timer' = TRUE /\ beating' \in BOOLEAN
          /\ outcome' \in [Commands -> {"new", "asked", "rejected", "own", "wrong"}]
          /\ \A c \in Commands : outcome'[c] = "wrong" => outcome[c] = "wrong"
      BY <1>0, <1>2, Disconnected
    <2>2. ClientTypes'
      <3>1. inflight' \in Seq(Items)
        BY <2>1
      <3>2. ClientTypes /\ UNCHANGED <<link, buffer, troubles, owed, waiting>>
        BY <1>0, <1>2 DEF ClientInv
      <3> QED
        BY <2>1, <3>1, <3>2 DEF ClientTypes
    <2>3. FlightHasSocket' /\ R!SomethingWillDrain'
      BY <2>1 DEF FlightHasSocket, R!SomethingWillDrain
    <2>4. troubles # {}
      <3>1. socket = 0
        BY <1>0, <1>2 DEF R!Overflow, R!CanWrite
      <3>2. OneSocket => FALSE
        BY <1>0, <3>1, SocketsAreItems DEF OneSocket, Alive
      <3> QED
        BY <3>2 DEF ClientInv
    <2> QED
      BY <1>0, <2>2, <2>3, <2>4 DEF ClientInv
  <1> QED
    BY <1>1, <1>2 DEF R!heartbeat

\* A new socket is the client's; if another still lives, there are two.
LEMMA OpenSocketKeeps ==
  ASSUME ClientInv, R!openSocket
  PROVE  ClientInv'
  <1>0. ClientTypes
    BY DEF ClientInv
  <1>1. PICK s \in R!Sockets : /\ link[s] = "none" /\ link' = [link EXCEPT ![s] = "connecting"]
                               /\ socket' = s
    BY DEF R!openSocket
  <1>2. /\ timer' = FALSE
        /\ UNCHANGED <<connected, beating, inflight, waiting, owed, buffer, outcome>>
        /\ troubles' \subseteq {"two", "half"} /\ troubles \subseteq troubles'
        /\ troubles' = {} => \A t \in R!Sockets : ~Alive(t)
    BY <1>0 DEF R!openSocket, ClientTypes, Alive
  <1>3. /\ link' \in [R!Sockets -> {"none", "connecting", "open", "closed"}]
        /\ link'[s] = "connecting" /\ \A t \in R!Sockets \ {s} : link'[t] = link[t]
    BY <1>0, <1>1 DEF ClientTypes
  <1>4. ClientTypes'
    BY <1>0, <1>1, <1>2, <1>3 DEF ClientTypes
  <1>5. FlightHasSocket'
    BY <1>1, <1>2, SocketsAreItems DEF ClientInv, FlightHasSocket
  <1>6. R!SomethingWillDrain'
    BY <1>3 DEF R!SomethingWillDrain
  <1>7. ASSUME troubles' = {}
        PROVE  OneSocket' /\ InStep'
    <2>1. troubles = {} /\ \A t \in R!Sockets : ~Alive(t)
      BY <1>2, <1>7
    <2>2. OneSocket /\ InStep
      BY <2>1 DEF ClientInv
    <2>3. ~connected /\ socket = 0
      BY <1>0, <2>1, <2>2 DEF OneSocket, Alive, ClientTypes
    <2>4. \A t \in R!Sockets : owed[t] = <<>>
      BY <2>1, <2>2 DEF InStep, Alive
    <2>5. OneSocket'
      BY <1>1, <1>2, <1>3, <2>1, <2>3 DEF OneSocket, Alive
    <2>6. inflight' = <<>> /\ owed'[socket'] = <<>> /\ socket' # 0
      BY <1>1, <1>2, <2>2, <2>3, <2>4, SocketsAreItems DEF InStep
    <2>7. InStep'
      BY <1>2, <2>2, <2>4, <2>6 DEF InStep
    <2> QED
      BY <2>5, <2>7
  <1> QED
    BY <1>4, <1>5, <1>6, <1>7 DEF ClientInv

\* A socket that connects greets Redis with a PING of its own, or the client has no room for it.
LEMMA ConnectsKeeps ==
  ASSUME ClientInv, NEW s \in R!Sockets, R!connects(s)
  PROVE  ClientInv'
  <1>0. ClientTypes /\ s \in Items /\ s # 0
    BY SocketsAreItems DEF ClientInv
  <1>1. /\ link[s] = "connecting" /\ link' = [link EXCEPT ![s] = "open"] /\ connected' = TRUE
        /\ UNCHANGED <<socket, beating, buffer, outcome, beats, troubles>>
    BY DEF R!connects
  <1>2. /\ link' \in [R!Sockets -> {"none", "connecting", "open", "closed"}]
        /\ link'[s] = "open" /\ \A t \in R!Sockets \ {s} : link'[t] = link[t]
    BY <1>0, <1>1 DEF ClientTypes
  <1>3. CASE /\ socket # 0 /\ inflight' = Append(inflight, s) /\ owed' = R!Written(s, socket)
             /\ UNCHANGED <<waiting, timer>>
    <2>1. /\ inflight \in Seq(Items) /\ inflight' \in Seq(Items)
          /\ Len(inflight') = Len(inflight) + 1 /\ inflight'[Len(inflight')] = s
      <3>1. inflight \in Seq(Items)
        BY <1>0 DEF ClientTypes
      <3> QED
        BY <1>0, <1>3, <3>1, AppendProperties
    <2>2. owed' \in [R!Sockets -> Seq(Items)]
      BY <1>0, <1>3, WrittenType DEF ClientTypes
    <2>3. ClientTypes'
      BY <1>0, <1>1, <1>2, <1>3, <2>1, <2>2 DEF ClientTypes
    <2>4. FlightHasSocket'
      BY <1>1, <1>3 DEF FlightHasSocket
    <2>5. R!SomethingWillDrain'
      <3>1. Len(inflight') \in DOMAIN inflight'
        BY <2>1
      <3>2. R!In(s, inflight)'
        BY <2>1, <3>1 DEF R!In
      <3> QED
        BY <3>2 DEF R!SomethingWillDrain
    <2>6. ASSUME troubles' = {}
          PROVE  OneSocket' /\ InStep'
      <3>1. OneSocket /\ InStep
        BY <1>1, <2>6 DEF ClientInv
      <3>2. socket = s /\ Alive(s) /\ ~connected
        BY <1>0, <1>1, <3>1 DEF OneSocket, Alive
      <3>3. inflight = <<>> /\ owed[s] = <<>> /\ buffer = <<>>
        BY <1>0, <1>1, <3>1, <3>2 DEF ClientInv, FlightHasSocket, InStep
      <3>4. /\ owed'[s] = Append(owed[s], s)
            /\ \A t \in R!Sockets \ {s} : owed'[t] = owed[t]
        BY <1>0, <1>3, <3>2, WrittenIs
      <3>5. OneSocket'
        BY <1>1, <1>2, <3>1, <3>2 DEF OneSocket, Alive
      <3>6. inflight' = IF socket' = 0 THEN <<>> ELSE owed'[socket']
        BY <1>0, <1>1, <1>3, <3>2, <3>3, <3>4
      <3>7. \A t \in R!Sockets : owed'[t] # <<>> => link'[t] = "open"
        BY <1>2, <3>1, <3>4 DEF InStep
      <3>8. InStep'
        BY <1>1, <3>1, <3>3, <3>6, <3>7 DEF InStep
      <3> QED
        BY <3>5, <3>8
    <2> QED
      BY <2>3, <2>4, <2>5, <2>6 DEF ClientInv
  <1>4. CASE /\ socket = 0
             /\ waiting' = IF Len(waiting) < QueueLimit THEN Append(waiting, s) ELSE waiting
             /\ timer' = TRUE
             /\ UNCHANGED <<inflight, owed>>
    <2>1. waiting' \in Seq(Items) /\ Len(waiting') <= QueueLimit
      <3>1. waiting \in Seq(Items) /\ Len(waiting) <= QueueLimit /\ QueueLimit \in Nat
        BY <1>0, ConnectionsAssumption DEF ClientTypes
      <3> QED
        BY <1>0, <1>4, <3>1, AppendProperties
    <2>2. ClientTypes'
      BY <1>0, <1>1, <1>2, <1>4, <2>1 DEF ClientTypes
    <2>3. FlightHasSocket' /\ R!SomethingWillDrain'
      BY <1>1, <1>4 DEF ClientInv, FlightHasSocket, R!SomethingWillDrain
    <2>4. troubles # {}
      BY <1>0, <1>1, <1>4 DEF ClientInv, OneSocket, Alive
    <2> QED
      BY <1>1, <2>2, <2>3, <2>4 DEF ClientInv
  <1> QED
    BY <1>3, <1>4 DEF R!connects

\* What a socket that is gone leaves: nothing owed, and no other socket changed.
LEMMA ForgetsIs ==
  ASSUME ClientTypes, NEW s \in R!Sockets, R!Forgets(s)
  PROVE  /\ link' \in [R!Sockets -> {"none", "connecting", "open", "closed"}]
         /\ link'[s] = "closed" /\ \A t \in R!Sockets \ {s} : link'[t] = link[t]
         /\ owed' \in [R!Sockets -> Seq(Items)]
         /\ owed'[s] = <<>> /\ \A t \in R!Sockets \ {s} : owed'[t] = owed[t]
  <1>1. <<>> \in Seq(Items)
    OBVIOUS
  <1> QED
    BY <1>1 DEF ClientTypes, R!Forgets

\* The socket that is lost was the only one, unless there was trouble before.
LEMMA GoneKeeps ==
  ASSUME ClientInv, NEW s \in R!Sockets, Alive(s), R!Forgets(s),
         connected' = FALSE, socket' = 0, inflight' = <<>>, timer' \in BOOLEAN, beating' \in BOOLEAN,
         timer' = TRUE \/ (timer' = timer /\ link[s] = "open" /\ inflight = <<>>),
         outcome' \in [Commands -> {"new", "asked", "rejected", "own", "wrong"}],
         \A c \in Commands : outcome'[c] = "wrong" => outcome[c] = "wrong",
         waiting' = waiting, buffer' = buffer, troubles' \subseteq {"two", "half"},
         troubles \subseteq troubles', troubles' = {} => buffer = <<>>
  PROVE  ClientInv'
  <1>0. ClientTypes
    BY DEF ClientInv
  <1>1. /\ link' \in [R!Sockets -> {"none", "connecting", "open", "closed"}]
        /\ link'[s] = "closed" /\ \A t \in R!Sockets \ {s} : link'[t] = link[t]
        /\ owed' \in [R!Sockets -> Seq(Items)]
        /\ owed'[s] = <<>> /\ \A t \in R!Sockets \ {s} : owed'[t] = owed[t]
    BY <1>0, ForgetsIs
  <1>2. inflight' \in Seq(Items)
    OBVIOUS
  <1>3. ClientTypes'
    BY <1>0, <1>1, <1>2 DEF ClientTypes
  <1>4. FlightHasSocket'
    BY DEF FlightHasSocket
  <1>5. R!SomethingWillDrain'
    <2> SUFFICES ASSUME waiting # <<>>, timer' # TRUE
                 PROVE  \E t \in R!Sockets : link'[t] = "connecting"
      BY DEF R!SomethingWillDrain
    <2>1. PICK t \in R!Sockets : link[t] = "connecting" \/ R!In(t, inflight)
      BY DEF ClientInv, R!SomethingWillDrain
    <2>2. ~R!In(t, inflight)
      <3>1. inflight = <<>>
        OBVIOUS
      <3> QED
        BY <3>1 DEF R!In
    <2> QED
      BY <1>1, <2>1, <2>2
  <1>6. ASSUME troubles' = {}
        PROVE  OneSocket' /\ InStep'
    <2>1. OneSocket /\ InStep /\ buffer = <<>>
      BY <1>6 DEF ClientInv
    <2>2. \A t \in R!Sockets \ {s} : ~Alive(t)
      BY <2>1 DEF OneSocket
    <2>3. \A t \in R!Sockets : link'[t] \notin {"connecting", "open"}
      BY <1>1, <2>2 DEF Alive
    <2>4. OneSocket'
      BY <2>3, SocketsAreItems DEF OneSocket, Alive
    <2>5. \A t \in R!Sockets : owed'[t] = <<>>
      BY <1>1, <2>1, <2>2 DEF InStep, Alive
    <2>6. InStep'
      BY <2>1, <2>5 DEF InStep
    <2> QED
      BY <2>4, <2>6
  <1> QED
    BY <1>3, <1>4, <1>5, <1>6 DEF ClientInv

\* A connection that fails takes the client's socket with it.
LEMMA ConnectFailsKeeps ==
  ASSUME ClientInv, NEW s \in R!Sockets, R!connectFails(s)
  PROVE  ClientInv'
  <1>0. /\ link[s] = "connecting" /\ Alive(s) /\ R!Forgets(s)
        /\ UNCHANGED <<waiting, buffer, beats, troubles>>
    BY DEF R!connectFails, Alive
  <1>1. /\ connected' = FALSE /\ socket' = 0 /\ inflight' = <<>>
        /\ timer' = TRUE /\ beating' \in BOOLEAN
        /\ outcome' \in [Commands -> {"new", "asked", "rejected", "own", "wrong"}]
        /\ \A c \in Commands : outcome'[c] = "wrong" => outcome[c] = "wrong"
    <2>1. CASE socket # 0 /\ R!handleDisconnect
      BY <2>1, Disconnected
    <2>2. CASE /\ socket = 0 /\ connected' = FALSE /\ timer' = TRUE
               /\ UNCHANGED <<socket, beating, inflight, outcome>>
      BY <2>2 DEF ClientInv, ClientTypes, FlightHasSocket
    <2> QED
      BY <2>1, <2>2 DEF R!connectFails
  <1>2. troubles' = {} => buffer = <<>>
    <2>1. ASSUME troubles = {}
          PROVE  buffer = <<>>
      <3>1. OneSocket /\ InStep
        BY <2>1 DEF ClientInv
      <3>2. socket = s /\ s # 0
        BY <1>0, <3>1, SocketsAreItems DEF OneSocket
      <3>3. owed[s] = <<>>
        BY <1>0, <3>1 DEF InStep
      <3>4. inflight = <<>>
        BY <3>1, <3>2, <3>3 DEF InStep
      <3> QED
        BY <3>1, <3>4 DEF InStep
    <2> QED
      BY <1>0, <2>1
  <1>3. troubles' \subseteq {"two", "half"} /\ troubles \subseteq troubles'
    BY <1>0 DEF ClientInv, ClientTypes
  <1> QED
    BY <1>0, <1>1, <1>2, <1>3, GoneKeeps

\* A socket that closes rejects what is in flight, whoever's it is.
LEMMA ClosesKeeps ==
  ASSUME ClientInv, NEW s \in R!Sockets, R!closes(s)
  PROVE  ClientInv'
  <1>0. /\ link[s] = "open" /\ Alive(s) /\ R!Forgets(s) /\ R!handleDisconnect
        /\ UNCHANGED <<waiting, buffer, beats>>
        /\ troubles' = troubles \cup IF buffer # <<>> THEN {"half"} ELSE {}
    BY DEF R!closes, Alive
  <1>1. /\ connected' = FALSE /\ socket' = 0 /\ inflight' = <<>>
        /\ timer' \in BOOLEAN /\ beating' \in BOOLEAN
        /\ timer' = TRUE \/ (timer' = timer /\ link[s] = "open" /\ inflight = <<>>)
        /\ outcome' \in [Commands -> {"new", "asked", "rejected", "own", "wrong"}]
        /\ \A c \in Commands : outcome'[c] = "wrong" => outcome[c] = "wrong"
    BY <1>0, Disconnected
  <1>2. /\ troubles' \subseteq {"two", "half"} /\ troubles \subseteq troubles'
        /\ troubles' = {} => buffer = <<>>
    BY <1>0 DEF ClientInv, ClientTypes
  <1> QED
    BY <1>0, <1>1, <1>2, GoneKeeps

\* What is received goes behind the buffer or completes its end.
LEMMA ReceivedType ==
  ASSUME buffer \in Seq(Replies), NEW r \in Replies, NEW buf \in R!Received(r)
  PROVE  buf \in Seq(Replies) /\ Len(buf) \in Nat /\ Len(buf) >= 1
  <1> DEFINE m == Len(buffer)
             lost(whole) == [r EXCEPT !.to = R!Garbage, !.whole = whole]
  <1>1. m \in Nat /\ lost(TRUE) \in Replies /\ lost(FALSE) \in Replies
    <2>1. m \in Nat
      OBVIOUS
    <2>2. ASSUME NEW whole \in BOOLEAN
          PROVE  lost(whole) \in Replies
      <3>1. R!Garbage \in Items \cup {R!Garbage}
        OBVIOUS
      <3> HIDE DEF R!Garbage
      <3> QED
        BY <3>1 DEF Replies
    <2> QED
      BY <2>1, <2>2
  <1>2. CASE buf = Append(buffer, r)
    BY <1>2, AppendProperties
  <1>3. CASE m # 0 /\ \E p \in Replies : buf = [buffer EXCEPT ![m] = p]
    BY <1>1, <1>3
  <1>4. CASE m # 0 /\ buf = Append([buffer EXCEPT ![m] = lost(TRUE)], lost(TRUE))
    <2>1. [buffer EXCEPT ![m] = lost(TRUE)] \in Seq(Replies)
      BY <1>1, <1>4
    <2> QED
      BY <1>1, <1>4, <2>1, AppendProperties
  <1> QED
    BY <1>1, <1>2, <1>3, <1>4 DEF R!Received

\* What is flushed is a beginning of the buffer and of what is in flight.
LEMMA FlushedType ==
  ASSUME ClientTypes, NEW buf \in Seq(Replies), Len(buf) >= 1
  PROVE  /\ R!Flushed(buf) \in Nat /\ R!Flushed(buf) <= Len(buf) /\ R!Flushed(buf) <= Len(inflight)
  <1>1. Len(buf) \in Nat /\ Len(inflight) \in Nat
    BY DEF ClientTypes
  <1> QED
    BY <1>1 DEF R!Flushed

\* A caller's outcome is one whatever is settled.
LEMMA SettledType ==
  ASSUME ClientTypes, NEW buf, NEW c \in Commands
  PROVE  R!Settled(buf, c) \in {"new", "asked", "rejected", "own", "wrong"}
  BY DEF R!Settled, ClientTypes

\* The rest of a sequence is one.
LEMMA SuffixIs ==
  ASSUME NEW S, NEW q \in Seq(S), NEW n \in Nat, n <= Len(q)
  PROVE  /\ SubSeq(q, n + 1, Len(q)) \in Seq(S)
         /\ Len(SubSeq(q, n + 1, Len(q))) = Len(q) - n
         /\ \A i \in 1 .. Len(q) - n : SubSeq(q, n + 1, Len(q))[i] = q[n + i]
  <1>1. Len(q) \in Nat /\ \A i \in n + 1 .. Len(q) : q[i] \in S
    OBVIOUS
  <1> QED
    BY <1>1, SubSeqProperties

\* The tail of a sequence is the rest behind its first element.
LEMMA TailIs ==
  ASSUME NEW S, NEW q \in Seq(S), q # <<>>
  PROVE  Tail(q) = SubSeq(q, 2, Len(q)) /\ Tail(q) \in Seq(S) /\ Head(q) = q[1] /\ Head(q) \in S
  <1>1. Len(q) \in Nat /\ Len(q) >= 1
    OBVIOUS
  <1>2. /\ SubSeq(q, 2, Len(q)) \in Seq(S) /\ Len(SubSeq(q, 2, Len(q))) = Len(q) - 1
        /\ \A i \in 1 .. Len(q) - 1 : SubSeq(q, 2, Len(q))[i] = q[i + 1]
    <2>1. PICK n \in Nat : n = 1
      OBVIOUS
    <2>2. n <= Len(q) /\ n + 1 = 2
      BY <1>1, <2>1
    <2>3. /\ SubSeq(q, n + 1, Len(q)) \in Seq(S) /\ Len(SubSeq(q, n + 1, Len(q))) = Len(q) - n
          /\ \A i \in 1 .. Len(q) - n : SubSeq(q, n + 1, Len(q))[i] = q[n + i]
      BY <2>2, SuffixIs
    <2>4. \A i \in 1 .. Len(q) - 1 : n + i = i + 1
      BY <1>1, <2>1
    <2> QED
      BY <2>1, <2>2, <2>3, <2>4
  <1>3. /\ Tail(q) \in Seq(S) /\ Len(Tail(q)) = Len(q) - 1
        /\ \A i \in 1 .. Len(q) - 1 : Tail(q)[i] = q[i + 1]
    BY HeadTailProperties
  <1>4. Tail(q) = SubSeq(q, 2, Len(q))
    BY <1>1, <1>2, <1>3, SeqEqual
  <1>5. Head(q) = q[1] /\ q[1] \in S
    BY <1>1
  <1> QED
    BY <1>3, <1>4, <1>5

\* The step of data(s), once r is the chunk and buf what it makes of the buffer.
DataStep(s, r, buf) ==
    LET n == R!Flushed(buf)
        shaken == R!Pinged(buf, FALSE) \ {R!Beat} # {}
        drains == shaken /\ connected /\ socket # 0
        inflightNow == SubSeq(inflight, n + 1, Len(inflight))
                       \o IF drains THEN waiting ELSE <<>>
        beatFailed == R!Beat \in R!Pinged(buf, TRUE)
    IN  /\ r.error => r.to \in R!Pings /\ r.whole
        /\ r.whole \/ \A i \in DOMAIN buffer : buffer[i].whole
        /\ buffer' = SubSeq(buf, n + 1, Len(buf))
        /\ owed' = LET left == IF r.whole THEN [owed EXCEPT ![s] = Tail(@)] ELSE owed
                   IN  IF drains THEN [left EXCEPT ![socket] = @ \o waiting] ELSE left
        /\ waiting' = IF drains THEN <<>> ELSE waiting
        /\ \/ /\ beatFailed
              /\ connected' = FALSE /\ socket' = 0
              /\ timer' = TRUE /\ beating' \in {FALSE, shaken}
              /\ inflight' = <<>>
              /\ outcome' = [c \in Commands |-> IF R!In(c, inflightNow) THEN "rejected"
                                                ELSE R!Settled(buf, c)]
              /\ troubles' = troubles \cup {"two"}
           \/ /\ ~beatFailed
              /\ timer' = (timer \/ (R!Pinged(buf, TRUE) # {} /\ R!scheduleReconnect))
              /\ beating' = (beating \/ shaken)
              /\ inflight' = inflightNow
              /\ outcome' = [c \in Commands |-> R!Settled(buf, c)]
              /\ UNCHANGED <<connected, socket, troubles>>


\* A chunk of a reply: what it settles is settled by the owner's reply, and what waited goes on.
LEMMA DataKeeps ==
  ASSUME ClientInv, NEW s \in R!Sockets, R!data(s)
  PROVE  ClientInv'
  <1>0. ClientTypes /\ link[s] = "open" /\ owed[s] # <<>> /\ link' = link
    BY DEF ClientInv, R!data
  <1>1. owed[s] \in Seq(Items) /\ Head(owed[s]) \in Items /\ Tail(owed[s]) \in Seq(Items)
    <2>1. owed[s] \in Seq(Items)
      BY <1>0 DEF ClientTypes
    <2> QED
      BY <1>0, <2>1, TailIs
  <1>2. PICK r \in [to: {Head(owed[s])}, whole: BOOLEAN, error: BOOLEAN] :
           \E buf \in R!Received(r) : DataStep(s, r, buf)
    BY DEF R!data, DataStep
  <1>21. PICK buf \in R!Received(r) : DataStep(s, r, buf)
    BY <1>2
  <1> DEFINE n == R!Flushed(buf)
             shaken == R!Pinged(buf, FALSE) \ {R!Beat} # {}
             drains == shaken /\ connected /\ socket # 0
             rest == SubSeq(inflight, n + 1, Len(inflight))
             more == IF drains THEN waiting ELSE <<>>
             beatFailed == R!Beat \in R!Pinged(buf, TRUE)
             left == IF r.whole THEN [owed EXCEPT ![s] = Tail(owed[s])] ELSE owed
  <1>3. /\ r.whole \/ \A i \in DOMAIN buffer : buffer[i].whole
        /\ buffer' = SubSeq(buf, n + 1, Len(buf))
        /\ owed' = IF drains THEN [left EXCEPT ![socket] = left[socket] \o waiting] ELSE left
        /\ waiting' = IF drains THEN <<>> ELSE waiting
    BY <1>21 DEF DataStep
  <1>4. \/ /\ beatFailed
           /\ connected' = FALSE /\ socket' = 0
           /\ timer' = TRUE /\ beating' \in {FALSE, shaken}
           /\ inflight' = <<>>
           /\ outcome' = [c \in Commands |-> IF R!In(c, rest \o more) THEN "rejected"
                                             ELSE R!Settled(buf, c)]
           /\ troubles' = troubles \cup {"two"}
        \/ /\ ~beatFailed
           /\ timer' = (timer \/ R!Pinged(buf, TRUE) # {})
           /\ beating' = (beating \/ shaken)
           /\ inflight' = rest \o more
           /\ outcome' = [c \in Commands |-> R!Settled(buf, c)]
           /\ UNCHANGED <<connected, socket, troubles>>
    BY <1>21 DEF DataStep, R!scheduleReconnect
  <1>5. /\ r \in Replies /\ r.to = Head(owed[s]) /\ r.whole \in BOOLEAN
        /\ buf \in Seq(Replies) /\ Len(buf) \in Nat /\ Len(buf) >= 1
    <2>1. r \in Replies /\ r.to = Head(owed[s]) /\ r.whole \in BOOLEAN
      BY <1>1 DEF Replies
    <2>2. buffer \in Seq(Replies)
      BY <1>0 DEF ClientTypes
    <2> QED
      BY <2>1, <2>2, ReceivedType
  <1>6. n \in Nat /\ n <= Len(buf) /\ n <= Len(inflight)
    BY <1>0, <1>5, FlushedType
  <1>7. /\ inflight \in Seq(Items) /\ waiting \in Seq(Items) /\ more \in Seq(Items)
        /\ shaken \in BOOLEAN /\ drains \in BOOLEAN
    <2>1. inflight \in Seq(Items) /\ waiting \in Seq(Items)
      BY <1>0 DEF ClientTypes
    <2>2. shaken \in BOOLEAN
      OBVIOUS
    <2>3. drains \in BOOLEAN
      OBVIOUS
    <2>4. more \in Seq(Items)
      <3>1. <<>> \in Seq(Items)
        OBVIOUS
      <3>2. more = waiting \/ more = <<>>
        OBVIOUS
      <3> QED
        BY <2>1, <3>1, <3>2
    <2> QED
      BY <2>1, <2>2, <2>3, <2>4
  <1>8. /\ rest \in Seq(Items) /\ Len(rest) = Len(inflight) - n
        /\ \A i \in 1 .. Len(inflight) - n : rest[i] = inflight[n + i]
    BY <1>6, <1>7, SuffixIs
  <1>9. left \in [R!Sockets -> Seq(Items)]
    BY <1>0, <1>1 DEF ClientTypes
  <1> HIDE DEF n, shaken, drains, rest, more, beatFailed, left
  <1>10. ClientTypes'
    <2>1. buffer' \in Seq(Replies)
      BY <1>3, <1>5, <1>6, SuffixIs
    <2>2. owed' \in [R!Sockets -> Seq(Items)]
      <3>1. CASE drains
        <4>1. socket \in R!Sockets
          BY <1>0, <3>1 DEF drains, ClientTypes
        <4>2. left[socket] \o waiting \in Seq(Items)
          BY <1>7, <1>9, <4>1
        <4> QED
          BY <1>3, <1>9, <3>1, <4>2
      <3>2. CASE ~drains
        BY <1>3, <1>9, <3>2
      <3> QED
        BY <3>1, <3>2
    <2>3. inflight' \in Seq(Items)
      <3>1. rest \o more \in Seq(Items)
        BY <1>7, <1>8, ConcatProperties
      <3>2. inflight' = <<>> \/ inflight' = rest \o more
        BY <1>4
      <3>3. <<>> \in Seq(Items)
        OBVIOUS
      <3> QED
        BY <3>1, <3>2, <3>3
    <2>4. waiting' \in Seq(Items) /\ Len(waiting') <= QueueLimit
      BY <1>0, <1>3, <1>7, ConnectionsAssumption DEF ClientTypes
    <2>5. outcome' \in [Commands -> {"new", "asked", "rejected", "own", "wrong"}]
      BY <1>0, <1>4, SettledType, ZenonT(60)
    <2>6. /\ socket' \in {0} \cup R!Sockets /\ connected' \in BOOLEAN
          /\ troubles' \subseteq {"two", "half"}
      BY <1>0, <1>4 DEF ClientTypes
    <2>7. timer' \in BOOLEAN /\ beating' \in BOOLEAN
      BY <1>0, <1>4, <1>7 DEF ClientTypes
    <2> QED
      BY <1>0, <2>1, <2>2, <2>3, <2>4, <2>5, <2>6, <2>7 DEF ClientTypes
  <1>11. FlightHasSocket'
    <2> SUFFICES ASSUME inflight' # <<>>
                 PROVE  connected' /\ socket' # 0
      BY DEF FlightHasSocket
    <2>1. inflight' = rest \o more /\ connected' = connected /\ socket' = socket
      BY <1>4
    <2>2. CASE drains
      BY <2>1, <2>2 DEF drains
    <2>3. CASE ~drains
      <3>1. rest # <<>>
        BY <1>8, <2>1, <2>3 DEF more
      <3>2. inflight # <<>>
        <4>1. Len(rest) # 0
          BY <1>8, <3>1
        <4> QED
          BY <1>6, <1>7, <1>8, <4>1
      <3> QED
        BY <2>1, <3>2 DEF ClientInv, FlightHasSocket
    <2> QED
      BY <2>2, <2>3
  <1>12. R!SomethingWillDrain'
    <2> SUFFICES ASSUME waiting' # <<>>, timer' # TRUE
                 PROVE  \E t \in R!Sockets : link'[t] = "connecting" \/ R!In(t, inflight')
      BY DEF R!SomethingWillDrain, R!In
    <2>1. ~drains /\ waiting # <<>> /\ inflight' = rest \o more /\ timer # TRUE
      BY <1>0, <1>3, <1>4 DEF ClientTypes
    <2>2. PICK t \in R!Sockets : link[t] = "connecting" \/ R!In(t, inflight)
      BY <2>1 DEF ClientInv, R!SomethingWillDrain
    <2>3. CASE link[t] = "connecting"
      BY <1>0, <2>3
    <2>4. CASE R!In(t, inflight)
      <3>1. PICK i \in 1 .. Len(inflight) : inflight[i] = t
        BY <1>7, <2>4 DEF R!In
      <3>2. inflight # <<>>
        BY <1>7, <3>1
      <3>3. connected /\ socket # 0
        BY <3>2 DEF ClientInv, FlightHasSocket
      <3>4. CASE i <= n
        <4>1. t \in R!Pings /\ t # R!Beat
          BY SocketsAreItems
        <4>2. i \in 1 .. R!Flushed(buf) /\ inflight[i] \in R!Pings
          BY <1>6, <3>1, <3>4, <4>1 DEF n
        <4>3. buf[i].error \in BOOLEAN
          <5>1. i \in 1 .. Len(buf)
            BY <1>5, <1>6, <3>1, <3>4
          <5>2. buf[i] \in Replies
            BY <1>5, <5>1
          <5> QED
            BY <5>2 DEF Replies
        <4>4. CASE buf[i].error = TRUE
          <5>1. t \in R!Pinged(buf, TRUE)
            BY <3>1, <4>2, <4>4 DEF R!Pinged
          <5> QED
            BY <1>4, <5>1
        <4>5. CASE buf[i].error = FALSE
          <5>1. t \in R!Pinged(buf, FALSE)
            BY <3>1, <4>2, <4>5 DEF R!Pinged
          <5> QED
            BY <2>1, <3>3, <4>1, <5>1 DEF drains, shaken
        <4> QED
          BY <4>3, <4>4, <4>5
      <3>5. CASE i > n
        <4>1. i - n \in 1 .. Len(rest) /\ rest[i - n] = t
          BY <1>6, <1>7, <1>8, <3>1, <3>5
        <4>2. rest \o more = rest
          BY <1>8, <2>1, ConcatEmptySeq DEF more
        <4> QED
          BY <1>8, <2>1, <4>1, <4>2 DEF R!In
      <3> QED
        BY <1>6, <1>7, <3>1, <3>4, <3>5
    <2> QED
      BY <2>2, <2>3, <2>4
  <1>13. ASSUME troubles' = {}
         PROVE  OneSocket' /\ InStep'
    <2>1. /\ troubles = {} /\ ~beatFailed /\ inflight' = rest \o more
          /\ outcome' = [c \in Commands |-> R!Settled(buf, c)]
          /\ UNCHANGED <<connected, socket>>
      BY <1>4, <1>13
    <2>2. OneSocket /\ InStep
      BY <2>1 DEF ClientInv
    <2>3. socket = s /\ s # 0 /\ inflight = owed[s]
      BY <1>0, <2>2, SocketsAreItems DEF OneSocket, Alive, InStep
    <2>4. inflight # <<>> /\ r.to = inflight[1] /\ Len(inflight) \in Nat /\ Len(inflight) >= 1
          /\ Head(inflight) = inflight[1]
      <3>1. Head(inflight) = inflight[1]
        BY <1>0, <1>7, <2>3, TailIs
      <3> QED
        BY <1>0, <1>5, <1>7, <2>3, <3>1
    <2>5. buf = <<r>>
      <3>1. CASE buffer = <<>>
        BY <3>1 DEF R!Received
      <3>2. CASE buffer # <<>>
        <4>1. PICK p \in Replies : buffer = <<p>> /\ ~p.whole /\ p.to = r.to
          BY <2>2, <2>4, <3>2 DEF InStep
        <4>2. Len(buffer) = 1 /\ buffer[1] = p
          BY <4>1
        <4>3. buf = [buffer EXCEPT ![1] = r]
          BY <4>1, <4>2 DEF R!Received
        <4> QED
          BY <4>1, <4>3
      <3> QED
        BY <3>1, <3>2
    <2>6. Len(buf) = 1 /\ buf[1] = r
      BY <2>5
    <2>7. OneSocket'
      BY <1>0, <2>1, <2>2 DEF OneSocket, Alive
    <2>8. CASE r.whole
      <3>1. n = 1
        <4>1. buf[Len(buf)].whole
          BY <2>6, <2>8
        <4>2. R!Flushed(buf) = IF 1 < Len(inflight) THEN 1 ELSE Len(inflight)
          BY <2>6, <4>1 DEF R!Flushed
        <4>3. CASE 1 < Len(inflight)
          BY <4>2, <4>3 DEF n
        <4>4. CASE Len(inflight) = 1
          BY <4>2, <4>4 DEF n
        <4>5. \A k \in Nat : k >= 1 => 1 < k \/ k = 1
          OBVIOUS
        <4>6. Len(inflight) \in Nat /\ Len(inflight) >= 1
          BY <2>4
        <4> QED
          BY <4>3, <4>4, <4>5, <4>6
      <3>2. rest = Tail(owed[s]) /\ rest = left[s]
        <4>1. rest = SubSeq(owed[s], 2, Len(owed[s]))
          BY <2>3, <3>1 DEF rest
        <4>2. left[s] = Tail(owed[s])
          BY <1>0, <2>8 DEF left, ClientTypes
        <4> QED
          BY <1>0, <1>1, <4>1, <4>2, TailIs
      <3>3. owed'[s] = inflight' /\ \A t \in R!Sockets \ {s} : owed'[t] = owed[t]
        <4>1. \A t \in R!Sockets \ {s} : left[t] = owed[t]
          BY <1>0, <2>8 DEF left, ClientTypes
        <4>2. CASE drains
          BY <1>3, <1>9, <2>1, <2>3, <3>2, <4>1, <4>2 DEF more
        <4>3. CASE ~drains
          <5>1. rest \o more = rest
            BY <1>8, <4>3, ConcatEmptySeq DEF more
          <5> QED
            BY <1>3, <2>1, <3>2, <4>1, <4>3, <5>1
        <4> QED
          BY <4>2, <4>3
      <3>4. buffer' = <<>>
        BY <1>3, <2>6, <3>1, SubSeqEmpty
      <3>5. \A c \in Commands : outcome'[c] # "wrong"
        <4> SUFFICES ASSUME NEW c \in Commands
                     PROVE  R!Settled(buf, c) # "wrong"
          BY <2>1
        <4>1. R!Flushed(buf) = 1
          BY <3>1 DEF n
        <4>2. CASE inflight[1] = c
          BY <2>4, <2>6, <4>1, <4>2 DEF R!Settled
        <4>3. CASE inflight[1] # c
          BY <2>2, <4>1, <4>3 DEF R!Settled, InStep
        <4> QED
          BY <4>2, <4>3
      <3>6. \A t \in R!Sockets : owed'[t] # <<>> => link'[t] = "open"
        BY <1>0, <2>2, <3>3 DEF InStep
      <3>7. inflight' = IF socket' = 0 THEN <<>> ELSE owed'[socket']
        BY <2>1, <2>3, <3>3
      <3>8. InStep'
        BY <3>4, <3>5, <3>6, <3>7 DEF InStep
      <3> QED
        BY <2>7, <3>8
    <2>9. CASE ~r.whole
      <3>1. n = 0
        BY <2>4, <2>6, <2>9 DEF n, R!Flushed
      <3>2. ~drains
        BY <3>1 DEF n, drains, shaken, R!Pinged
      <3>3. rest = inflight
        BY <1>7, <1>8, <3>1, <2>4, SeqEqual
      <3>4. inflight' = inflight
        BY <1>7, <2>1, <3>2, <3>3, ConcatEmptySeq DEF more
      <3>5. owed' = owed
        BY <1>3, <2>9, <3>2 DEF left
      <3>6. buffer' = <<r>>
        <4>1. buffer' = SubSeq(buf, 1, Len(buf))
          BY <1>3, <3>1
        <4> QED
          BY <1>5, <2>5, <4>1, SubSeqFull
      <3>7. \A c \in Commands : outcome'[c] # "wrong"
        <4>1. R!Flushed(buf) = 0
          BY <3>1 DEF n
        <4>2. \A c \in Commands : R!Settled(buf, c) = outcome[c]
          BY <4>1 DEF R!Settled
        <4> QED
          BY <2>1, <2>2, <4>2 DEF InStep
      <3>8. \E p \in Replies : /\ buffer' = <<p>> /\ ~p.whole
                               /\ inflight' # <<>> /\ p.to = Head(inflight')
        BY <1>5, <2>4, <2>9, <3>4, <3>6
      <3>9. InStep'
        BY <1>0, <2>1, <2>2, <3>4, <3>5, <3>7, <3>8 DEF InStep
      <3> QED
        BY <2>7, <3>9
    <2> QED
      BY <1>5, <2>8, <2>9
  <1> QED
    BY <1>10, <1>11, <1>12, <1>13 DEF ClientInv

\* Every step of the client keeps the invariant.
LEMMA ClientPreserves ==
  ASSUME ClientInv, [R!ClientNext]_(R!clientVars)
  PROVE  ClientInv'
  <1>1. CASE \E c \in Commands : R!command(c)
    BY <1>1, CommandKeeps
  <1>2. CASE R!heartbeat \/ R!openSocket
    BY <1>2, HeartbeatKeeps, OpenSocketKeeps
  <1>3. CASE \E s \in R!Sockets : R!connects(s) \/ R!connectFails(s) \/ R!closes(s) \/ R!data(s)
    BY <1>3, ConnectsKeeps, ConnectFailsKeeps, ClosesKeeps, DataKeeps
  <1>4. CASE UNCHANGED R!clientVars
    BY <1>4 DEF R!clientVars, ClientInv, ClientTypes, FlightHasSocket, R!SomethingWillDrain, R!In,
                OneSocket, InStep, Alive
  <1> QED
    BY <1>1, <1>2, <1>3, <1>4 DEF R!ClientNext

\* So it holds in every reachable state of the client.
LEMMA ClientHolds ==
  R!ClientSpec => []ClientInv
  <1>1. R!ClientInit => ClientInv
    BY ClientInitHolds
  <1>2. ClientInv /\ [R!ClientNext]_(R!clientVars) => ClientInv'
    BY ClientPreserves
  <1> QED
    BY <1>1, <1>2, PTL DEF R!ClientSpec

-----------------------------------------------------------------------------
(* The agent in the call.  A start that is under way and that no stop has  *)
(* abandoned is the start of the meeting's session, and its engine is as   *)
(* the start has left it; its session is too, if no command overtook it.   *)

SessionRecords ==
    [state: {"idle", "starting", "active", "degraded", "paused", "stopped"}, paused: BOOLEAN]
EngineRecords == [held: BOOLEAN, running: BOOLEAN, paused: BOOLEAN, timers: BOOLEAN]

\* A call that is starting is the meeting's, and its session is as the start made it.
StartsOwn ==
    /\ ~V!NoSession => start[sessions] # "new"
    /\ \A s \in Starts \ abandoned : V!StillStarting(s) => s = sessions
    /\ \A s \in Starts \ overtaken :
          V!StillStarting(s) => s = sessions /\ session[s] = [state |-> "starting", paused |-> FALSE]

\* What an engine has become, by how far its start is.
EngineFollowsStart ==
    \A s \in Starts :
        /\ start[s] \in {"new", "saving", "probing"} => ~engine[s].held
        /\ start[s] = "connecting" => engine[s].held /\ (s \notin abandoned => engine[s].running)
        /\ start[s] # "done" => ~engine[s].timers
        /\ engine[s].timers /\ engine[s].running => engine[s].held

\* A publisher that is in the call belongs to an engine that runs.
JoinedRuns ==
    \A s \in joined \ abandoned :
        /\ start[s] = "done" /\ s = sessions /\ publisher[s] = "connected"
        /\ engine[s].held /\ engine[s].running

\* A paused session has a paused engine, or none that can send.
PausedEngine ==
    \A s \in Starts \ overtaken :
        session[s].paused /\ engine[s].timers /\ engine[s].running => engine[s].paused

RuntimeInv ==
    /\ V!RuntimeTypeOK /\ StartsOwn /\ EngineFollowsStart /\ JoinedRuns /\ PausedEngine
    /\ V!QuietWhilePaused /\ V!PhaseFollowsSession /\ V!NumberLeadsToSession

\* It holds in the beginning, when no session has been started.
LEMMA RuntimeInitHolds ==
  ASSUME V!RuntimeInit
  PROVE  RuntimeInv
  BY ConnectionsAssumption
  DEF V!RuntimeInit, RuntimeInv, V!RuntimeTypeOK, StartsOwn, EngineFollowsStart, JoinedRuns,
      PausedEngine, V!QuietWhilePaused, V!PhaseFollowsSession, V!NumberLeadsToSession,
      V!NoSession, V!StillStarting

\* startForMeeting makes a session when there is none.
LEMMA AfterStartForMeeting ==
  ASSUME RuntimeInv, NEW s \in Starts, V!startForMeeting(s)
  PROVE  RuntimeInv'
  <1> USE ConnectionsAssumption DEF V!histories, V!IfStarting, V!ShownAgain
  <1>1. V!RuntimeTypeOK'
    <2>1. session' \in [Starts -> SessionRecords]
      <3>1. session \in [Starts -> SessionRecords] /\ s \in Starts
        BY ConnectionsAssumption
        DEF RuntimeInv, V!RuntimeTypeOK, SessionRecords, V!NoSession, V!startForMeeting
      <3>2. CASE V!NoSession
        <4> DEFINE r == [state |-> "starting", paused |-> FALSE]
        <4>1. r \in SessionRecords
          BY <3>1 DEF SessionRecords
        <4>2. session' = [session EXCEPT ![s] = r]
          BY <3>1, <3>2 DEF V!startForMeeting
        <4> QED
          BY <3>1, <4>1, <4>2
      <3>3. CASE ~V!NoSession
        BY <3>1, <3>3 DEF V!startForMeeting
      <3> QED
        BY <3>2, <3>3
    <2>2. engine' \in [Starts -> EngineRecords]
      BY DEF RuntimeInv, V!RuntimeTypeOK, EngineRecords, V!startForMeeting
    <2> QED
      BY <2>1, <2>2
      DEF RuntimeInv, V!RuntimeTypeOK, SessionRecords, EngineRecords, V!NoSession,
          V!Quiet, V!StillStarting, V!startForMeeting
  <1>2. StartsOwn'
    <2>1. (~V!NoSession => start[sessions] # "new")'
      BY DEF RuntimeInv, V!RuntimeTypeOK, StartsOwn, V!NoSession, V!StillStarting,
             V!startForMeeting
    <2>2. ASSUME NEW t \in Starts \ overtaken', V!StillStarting(t)'
          PROVE  t = sessions' /\ session'[t] = [state |-> "starting", paused |-> FALSE]
      <3>1. t \in Starts /\ t \notin overtaken
        BY <2>2 DEF V!startForMeeting
      <3>2. CASE t = s
        <4>1. start \in [Starts -> {"new", "saving", "probing", "connecting", "done"}]
              /\ session \in [Starts -> SessionRecords]
          BY DEF RuntimeInv, V!RuntimeTypeOK, SessionRecords
        <4>2. CASE V!NoSession
          <5>1. sessions' = s
                /\ session' = [session EXCEPT ![s] = [state |-> "starting", paused |-> FALSE]]
            BY <4>2 DEF V!startForMeeting
          <5> QED
            BY <3>1, <3>2, <4>1, <5>1
        <4>3. CASE ~V!NoSession
          <5>1. start' = [start EXCEPT ![s] = "done"]
            BY <4>3 DEF V!startForMeeting
          <5> QED
            BY <2>2, <3>1, <3>2, <4>1, <5>1 DEF V!StillStarting
        <4> QED
          BY <4>2, <4>3
      <3>3. CASE t # s
        <4>1. start'[t] = start[t]
          BY <3>1, <3>3 DEF RuntimeInv, V!RuntimeTypeOK, V!startForMeeting
        <4>2. t = sessions /\ session[t] = [state |-> "starting", paused |-> FALSE]
          BY <2>2, <3>1, <4>1 DEF RuntimeInv, StartsOwn, V!StillStarting
        <4>3. ~V!NoSession
          BY <3>1, <4>2, ConnectionsAssumption DEF V!NoSession
        <4> QED
          BY <4>2, <4>3 DEF V!startForMeeting
      <3> QED
        BY <3>2, <3>3
    <2>3. ASSUME NEW t \in Starts \ abandoned', V!StillStarting(t)'
          PROVE  t = sessions'
      <3>1. t \in Starts /\ t \notin abandoned
        BY <2>3 DEF V!startForMeeting
      <3>2. CASE t = s
        BY <2>3, <3>1, <3>2
        DEF RuntimeInv, V!RuntimeTypeOK, StartsOwn, V!NoSession, V!StillStarting,
            V!startForMeeting
      <3>3. CASE t # s
        <4>1. start'[t] = start[t]
          BY <3>1, <3>3 DEF RuntimeInv, V!RuntimeTypeOK, V!startForMeeting
        <4>2. t = sessions
          BY <2>3, <3>1, <4>1 DEF RuntimeInv, StartsOwn, V!StillStarting
        <4>3. ~V!NoSession
          BY <3>1, <4>2, ConnectionsAssumption DEF V!NoSession
        <4> QED
          BY <4>2, <4>3 DEF V!startForMeeting
      <3> QED
        BY <3>2, <3>3
    <2> QED
      BY <2>1, <2>2, <2>3 DEF StartsOwn
  <1>3. EngineFollowsStart'
    BY DEF RuntimeInv, V!RuntimeTypeOK, EngineFollowsStart, StartsOwn, V!NoSession,
           V!StillStarting, V!Quiet, V!startForMeeting
  <1>4. JoinedRuns'
    BY DEF RuntimeInv, V!RuntimeTypeOK, StartsOwn, EngineFollowsStart, JoinedRuns,
           V!NoSession, V!StillStarting, V!Quiet, V!startForMeeting
  <1>5. PausedEngine'
    BY DEF RuntimeInv, V!RuntimeTypeOK, StartsOwn, EngineFollowsStart, PausedEngine,
           V!NoSession, V!StillStarting, V!Quiet, V!startForMeeting
  <1>6. V!QuietWhilePaused'
    BY DEF RuntimeInv, V!RuntimeTypeOK, V!QuietWhilePaused, StartsOwn,
           EngineFollowsStart, PausedEngine, V!NoSession, V!StillStarting, V!Quiet,
           V!startForMeeting
  <1>7. V!PhaseFollowsSession'
    BY DEF RuntimeInv, V!RuntimeTypeOK, V!PhaseFollowsSession, StartsOwn,
           EngineFollowsStart, V!NoSession, V!StillStarting, V!Quiet, V!startForMeeting
  <1>8. V!NumberLeadsToSession'
    BY DEF RuntimeInv, V!RuntimeTypeOK, V!NumberLeadsToSession, StartsOwn, V!NoSession,
           V!StillStarting, V!Quiet, V!startForMeeting
  <1> QED
    BY <1>1, <1>2, <1>3, <1>4, <1>5, <1>6, <1>7, <1>8 DEF RuntimeInv

\* A start without a video engine ends at once, its session active.
LEMMA AfterWithoutVideo ==
  ASSUME RuntimeInv, NEW s \in Starts, V!withoutVideo(s)
  PROVE  RuntimeInv'
  <1> USE ConnectionsAssumption DEF V!histories, V!IfStarting, V!ShownAgain
  <1>1. V!RuntimeTypeOK'
    BY DEF RuntimeInv, V!RuntimeTypeOK, V!Quiet, V!NoSession, V!withoutVideo
  <1>2. StartsOwn'
    BY DEF RuntimeInv, V!RuntimeTypeOK, StartsOwn, V!NoSession, V!StillStarting,
           V!Quiet, V!withoutVideo
  <1>3. EngineFollowsStart'
    BY DEF RuntimeInv, V!RuntimeTypeOK, EngineFollowsStart, StartsOwn, V!NoSession,
           V!StillStarting, V!Quiet, V!withoutVideo
  <1>4. JoinedRuns'
    BY DEF RuntimeInv, V!RuntimeTypeOK, StartsOwn, EngineFollowsStart, JoinedRuns,
           V!NoSession, V!StillStarting, V!Quiet, V!withoutVideo
  <1>5. PausedEngine'
    BY DEF RuntimeInv, V!RuntimeTypeOK, StartsOwn, EngineFollowsStart, PausedEngine,
           V!NoSession, V!StillStarting, V!Quiet, V!withoutVideo
  <1>6. V!QuietWhilePaused'
    BY DEF RuntimeInv, V!RuntimeTypeOK, V!QuietWhilePaused, StartsOwn,
           EngineFollowsStart, PausedEngine, V!NoSession, V!StillStarting, V!Quiet,
           V!withoutVideo
  <1>7. V!PhaseFollowsSession'
    BY DEF RuntimeInv, V!RuntimeTypeOK, V!PhaseFollowsSession, StartsOwn,
           EngineFollowsStart, V!NoSession, V!StillStarting, V!Quiet, V!withoutVideo
  <1>8. V!NumberLeadsToSession'
    BY DEF RuntimeInv, V!RuntimeTypeOK, V!NumberLeadsToSession, StartsOwn, V!NoSession,
           V!StillStarting, V!Quiet, V!withoutVideo
  <1> QED
    BY <1>1, <1>2, <1>3, <1>4, <1>5, <1>6, <1>7, <1>8 DEF RuntimeInv

\* A start asks after the frame worker.
LEMMA AfterProbeWorker ==
  ASSUME RuntimeInv, NEW s \in Starts, V!probeWorker(s)
  PROVE  RuntimeInv'
  <1> USE ConnectionsAssumption DEF V!histories, V!IfStarting, V!ShownAgain
  <1>1. V!RuntimeTypeOK'
    BY DEF RuntimeInv, V!RuntimeTypeOK, V!Quiet, V!NoSession, V!probeWorker
  <1>2. StartsOwn'
    BY DEF RuntimeInv, V!RuntimeTypeOK, StartsOwn, V!NoSession, V!StillStarting,
           V!Quiet, V!probeWorker
  <1>3. EngineFollowsStart'
    BY DEF RuntimeInv, V!RuntimeTypeOK, EngineFollowsStart, StartsOwn, V!NoSession,
           V!StillStarting, V!Quiet, V!probeWorker
  <1>4. JoinedRuns'
    BY DEF RuntimeInv, V!RuntimeTypeOK, StartsOwn, EngineFollowsStart, JoinedRuns,
           V!NoSession, V!StillStarting, V!Quiet, V!probeWorker
  <1>5. PausedEngine'
    BY DEF RuntimeInv, V!RuntimeTypeOK, StartsOwn, EngineFollowsStart, PausedEngine,
           V!NoSession, V!StillStarting, V!Quiet, V!probeWorker
  <1>6. V!QuietWhilePaused'
    BY DEF RuntimeInv, V!RuntimeTypeOK, V!QuietWhilePaused, StartsOwn,
           EngineFollowsStart, PausedEngine, V!NoSession, V!StillStarting, V!Quiet,
           V!probeWorker
  <1>7. V!PhaseFollowsSession'
    BY DEF RuntimeInv, V!RuntimeTypeOK, V!PhaseFollowsSession, StartsOwn,
           EngineFollowsStart, V!NoSession, V!StillStarting, V!Quiet, V!probeWorker
  <1>8. V!NumberLeadsToSession'
    BY DEF RuntimeInv, V!RuntimeTypeOK, V!NumberLeadsToSession, StartsOwn, V!NoSession,
           V!StillStarting, V!Quiet, V!probeWorker
  <1> QED
    BY <1>1, <1>2, <1>3, <1>4, <1>5, <1>6, <1>7, <1>8 DEF RuntimeInv

\* A start without the worker's health goes on to connect.
LEMMA AfterStartBehaviorStatic ==
  ASSUME RuntimeInv, NEW s \in Starts, V!startBehaviorStatic(s)
  PROVE  RuntimeInv'
  <1> USE ConnectionsAssumption DEF V!histories, V!IfStarting, V!ShownAgain
  <1>1. V!RuntimeTypeOK'
    <2>1. session' \in [Starts -> SessionRecords]
      BY DEF RuntimeInv, V!RuntimeTypeOK, SessionRecords, V!startBehaviorStatic,
             V!startEngine
    <2>2. engine' \in [Starts -> EngineRecords]
      <3> DEFINE r == [engine[s] EXCEPT !.held = TRUE, !.running = TRUE]
      <3>1. engine \in [Starts -> EngineRecords] /\ s \in Starts
        BY ConnectionsAssumption
        DEF RuntimeInv, V!RuntimeTypeOK, EngineRecords, V!NoSession,
            V!startBehaviorStatic, V!startEngine
      <3>2. r \in EngineRecords
        BY <3>1 DEF EngineRecords
      <3>3. engine' = [engine EXCEPT ![s] = r]
        BY <3>1 DEF V!startBehaviorStatic, V!startEngine
      <3> QED
        BY <3>1, <3>2, <3>3
    <2> QED
      BY <2>1, <2>2
      DEF RuntimeInv, V!RuntimeTypeOK, SessionRecords, EngineRecords, V!NoSession,
          V!Quiet, V!StillStarting, V!startBehaviorStatic, V!startEngine
  <1>2. StartsOwn'
    BY DEF RuntimeInv, V!RuntimeTypeOK, StartsOwn, V!NoSession, V!StillStarting,
           V!Quiet, V!startBehaviorStatic, V!startEngine
  <1>3. EngineFollowsStart'
    BY DEF RuntimeInv, V!RuntimeTypeOK, EngineFollowsStart, StartsOwn, V!NoSession,
           V!StillStarting, V!Quiet, V!startBehaviorStatic, V!startEngine
  <1>4. JoinedRuns'
    BY DEF RuntimeInv, V!RuntimeTypeOK, StartsOwn, EngineFollowsStart, JoinedRuns,
           V!NoSession, V!StillStarting, V!Quiet, V!startBehaviorStatic, V!startEngine
  <1>5. PausedEngine'
    BY DEF RuntimeInv, V!RuntimeTypeOK, StartsOwn, EngineFollowsStart, PausedEngine,
           V!NoSession, V!StillStarting, V!Quiet, V!startBehaviorStatic, V!startEngine
  <1>6. V!QuietWhilePaused'
    BY DEF RuntimeInv, V!RuntimeTypeOK, V!QuietWhilePaused, StartsOwn,
           EngineFollowsStart, PausedEngine, V!NoSession, V!StillStarting, V!Quiet,
           V!startBehaviorStatic, V!startEngine
  <1>7. V!PhaseFollowsSession'
    BY DEF RuntimeInv, V!RuntimeTypeOK, V!PhaseFollowsSession, StartsOwn,
           EngineFollowsStart, V!NoSession, V!StillStarting, V!Quiet,
           V!startBehaviorStatic, V!startEngine
  <1>8. V!NumberLeadsToSession'
    BY DEF RuntimeInv, V!RuntimeTypeOK, V!NumberLeadsToSession, StartsOwn, V!NoSession,
           V!StillStarting, V!Quiet, V!startBehaviorStatic, V!startEngine
  <1> QED
    BY <1>1, <1>2, <1>3, <1>4, <1>5, <1>6, <1>7, <1>8 DEF RuntimeInv

\* A start whose worker is there goes on to connect.
LEMMA AfterWorkerReady ==
  ASSUME RuntimeInv, NEW s \in Starts, V!workerReady(s)
  PROVE  RuntimeInv'
  <1> USE ConnectionsAssumption DEF V!histories, V!IfStarting, V!ShownAgain
  <1>1. V!RuntimeTypeOK'
    <2>1. session' \in [Starts -> SessionRecords]
      BY DEF RuntimeInv, V!RuntimeTypeOK, SessionRecords, V!workerReady, V!startEngine
    <2>2. engine' \in [Starts -> EngineRecords]
      <3> DEFINE r == [engine[s] EXCEPT !.held = TRUE, !.running = TRUE]
      <3>1. engine \in [Starts -> EngineRecords] /\ s \in Starts
        BY ConnectionsAssumption
        DEF RuntimeInv, V!RuntimeTypeOK, EngineRecords, V!NoSession, V!workerReady,
            V!startEngine
      <3>2. r \in EngineRecords
        BY <3>1 DEF EngineRecords
      <3>3. engine' = [engine EXCEPT ![s] = r]
        BY <3>1 DEF V!workerReady, V!startEngine
      <3> QED
        BY <3>1, <3>2, <3>3
    <2> QED
      BY <2>1, <2>2
      DEF RuntimeInv, V!RuntimeTypeOK, SessionRecords, EngineRecords, V!NoSession,
          V!Quiet, V!StillStarting, V!workerReady, V!startEngine
  <1>2. StartsOwn'
    BY DEF RuntimeInv, V!RuntimeTypeOK, StartsOwn, V!NoSession, V!StillStarting,
           V!Quiet, V!workerReady, V!startEngine
  <1>3. EngineFollowsStart'
    BY DEF RuntimeInv, V!RuntimeTypeOK, EngineFollowsStart, StartsOwn, V!NoSession,
           V!StillStarting, V!Quiet, V!workerReady, V!startEngine
  <1>4. JoinedRuns'
    BY DEF RuntimeInv, V!RuntimeTypeOK, StartsOwn, EngineFollowsStart, JoinedRuns,
           V!NoSession, V!StillStarting, V!Quiet, V!workerReady, V!startEngine
  <1>5. PausedEngine'
    BY DEF RuntimeInv, V!RuntimeTypeOK, StartsOwn, EngineFollowsStart, PausedEngine,
           V!NoSession, V!StillStarting, V!Quiet, V!workerReady, V!startEngine
  <1>6. V!QuietWhilePaused'
    BY DEF RuntimeInv, V!RuntimeTypeOK, V!QuietWhilePaused, StartsOwn,
           EngineFollowsStart, PausedEngine, V!NoSession, V!StillStarting, V!Quiet,
           V!workerReady, V!startEngine
  <1>7. V!PhaseFollowsSession'
    BY DEF RuntimeInv, V!RuntimeTypeOK, V!PhaseFollowsSession, StartsOwn,
           EngineFollowsStart, V!NoSession, V!StillStarting, V!Quiet, V!workerReady,
           V!startEngine
  <1>8. V!NumberLeadsToSession'
    BY DEF RuntimeInv, V!RuntimeTypeOK, V!NumberLeadsToSession, StartsOwn, V!NoSession,
           V!StillStarting, V!Quiet, V!workerReady, V!startEngine
  <1> QED
    BY <1>1, <1>2, <1>3, <1>4, <1>5, <1>6, <1>7, <1>8 DEF RuntimeInv

\* A start whose worker is not there ends degraded.
LEMMA AfterWorkerNotReady ==
  ASSUME RuntimeInv, NEW s \in Starts, V!workerNotReady(s)
  PROVE  RuntimeInv'
  <1> USE ConnectionsAssumption DEF V!histories, V!IfStarting, V!ShownAgain
  <1>1. V!RuntimeTypeOK'
    BY DEF RuntimeInv, V!RuntimeTypeOK, V!Quiet, V!NoSession, V!workerNotReady,
           V!degrade
  <1>2. StartsOwn'
    BY DEF RuntimeInv, V!RuntimeTypeOK, StartsOwn, V!NoSession, V!StillStarting,
           V!Quiet, V!workerNotReady, V!degrade
  <1>3. EngineFollowsStart'
    BY DEF RuntimeInv, V!RuntimeTypeOK, EngineFollowsStart, StartsOwn, V!NoSession,
           V!StillStarting, V!Quiet, V!workerNotReady, V!degrade
  <1>4. JoinedRuns'
    BY DEF RuntimeInv, V!RuntimeTypeOK, StartsOwn, EngineFollowsStart, JoinedRuns,
           V!NoSession, V!StillStarting, V!Quiet, V!workerNotReady, V!degrade
  <1>5. PausedEngine'
    BY DEF RuntimeInv, V!RuntimeTypeOK, StartsOwn, EngineFollowsStart, PausedEngine,
           V!NoSession, V!StillStarting, V!Quiet, V!workerNotReady, V!degrade
  <1>6. V!QuietWhilePaused'
    BY DEF RuntimeInv, V!RuntimeTypeOK, V!QuietWhilePaused, StartsOwn,
           EngineFollowsStart, PausedEngine, V!NoSession, V!StillStarting, V!Quiet,
           V!workerNotReady, V!degrade
  <1>7. V!PhaseFollowsSession'
    BY DEF RuntimeInv, V!RuntimeTypeOK, V!PhaseFollowsSession, StartsOwn,
           EngineFollowsStart, V!NoSession, V!StillStarting, V!Quiet, V!workerNotReady,
           V!degrade
  <1>8. V!NumberLeadsToSession'
    BY DEF RuntimeInv, V!RuntimeTypeOK, V!NumberLeadsToSession, StartsOwn, V!NoSession,
           V!StillStarting, V!Quiet, V!workerNotReady, V!degrade
  <1> QED
    BY <1>1, <1>2, <1>3, <1>4, <1>5, <1>6, <1>7, <1>8 DEF RuntimeInv

\* A start that has joined the call ends, with an engine that runs or with none.
LEMMA AfterConnected ==
  ASSUME RuntimeInv, NEW s \in Starts, V!connected(s)
  PROVE  RuntimeInv'
  <1> USE ConnectionsAssumption DEF V!histories, V!IfStarting, V!ShownAgain
  <1>1. V!RuntimeTypeOK'
    <2>1. session' \in [Starts -> SessionRecords]
      <3>1. session \in [Starts -> SessionRecords] /\ s \in Starts
        BY ConnectionsAssumption
        DEF RuntimeInv, V!RuntimeTypeOK, SessionRecords, V!NoSession, V!connected,
            V!degrade
      <3>2. CASE engine[s].running
        <4> DEFINE r == [session[s] EXCEPT !.state = "active"]
        <4>1. r \in SessionRecords
          BY <3>1 DEF SessionRecords
        <4>2. session' = [session EXCEPT ![s] = r]
          BY <3>1, <3>2 DEF V!connected, V!degrade
        <4> QED
          BY <3>1, <4>1, <4>2
      <3>3. CASE ~engine[s].running
        <4> DEFINE r == [session[s] EXCEPT !.state = "degraded"]
        <4>1. r \in SessionRecords
          BY <3>1 DEF SessionRecords
        <4>2. session' = [session EXCEPT ![s] = r]
          BY <3>1, <3>3 DEF V!connected, V!degrade
        <4> QED
          BY <3>1, <4>1, <4>2
      <3> QED
        BY <3>2, <3>3
    <2>2. engine' \in [Starts -> EngineRecords]
      <3>1. engine \in [Starts -> EngineRecords] /\ s \in Starts
        BY ConnectionsAssumption
        DEF RuntimeInv, V!RuntimeTypeOK, EngineRecords, V!NoSession, V!connected,
            V!degrade
      <3>2. CASE engine[s].running
        <4> DEFINE r == [engine[s] EXCEPT !.timers = TRUE]
        <4>1. r \in EngineRecords
          BY <3>1 DEF EngineRecords
        <4>2. engine' = [engine EXCEPT ![s] = r]
          BY <3>1, <3>2 DEF V!connected, V!degrade
        <4> QED
          BY <3>1, <4>1, <4>2
      <3>3. CASE ~engine[s].running
        <4> DEFINE r == [engine[s] EXCEPT !.timers = TRUE, !.held = FALSE]
        <4>1. r \in EngineRecords
          BY <3>1 DEF EngineRecords
        <4>2. engine' = [engine EXCEPT ![s] = r]
          BY <3>1, <3>3 DEF V!connected, V!degrade
        <4> QED
          BY <3>1, <4>1, <4>2
      <3> QED
        BY <3>2, <3>3
    <2> QED
      BY <2>1, <2>2
      DEF RuntimeInv, V!RuntimeTypeOK, SessionRecords, EngineRecords, V!NoSession,
          V!Quiet, V!StillStarting, V!connected, V!degrade
  <1>2. StartsOwn'
    <2>1. (~V!NoSession => start[sessions] # "new")'
      BY DEF RuntimeInv, V!RuntimeTypeOK, StartsOwn, V!NoSession, V!StillStarting,
             V!connected, V!degrade
    <2>2. ASSUME NEW t \in Starts \ overtaken', V!StillStarting(t)'
          PROVE  t = sessions' /\ session'[t] = [state |-> "starting", paused |-> FALSE]
      <3>1. t \in Starts /\ t \notin overtaken
        BY <2>2 DEF V!connected, V!degrade
      <3>2. CASE t = s
        BY <2>2, <3>1, <3>2
        DEF RuntimeInv, V!RuntimeTypeOK, StartsOwn, V!NoSession, V!StillStarting,
            V!connected, V!degrade
      <3>3. CASE t # s
        <4>1. start'[t] = start[t] /\ session'[t] = session[t] /\ sessions' = sessions
          BY <3>1, <3>3 DEF RuntimeInv, V!RuntimeTypeOK, V!connected, V!degrade
        <4> QED
          BY <2>2, <3>1, <4>1 DEF RuntimeInv, StartsOwn, V!StillStarting
      <3> QED
        BY <3>2, <3>3
    <2>3. ASSUME NEW t \in Starts \ abandoned', V!StillStarting(t)'
          PROVE  t = sessions'
      <3>1. t \in Starts /\ t \notin abandoned /\ t # s /\ start'[t] = start[t]
        BY <2>3 DEF RuntimeInv, V!RuntimeTypeOK, V!StillStarting, V!connected, V!degrade
      <3> QED
        BY <2>3, <3>1 DEF RuntimeInv, StartsOwn, V!StillStarting, V!connected, V!degrade
    <2> QED
      BY <2>1, <2>2, <2>3 DEF StartsOwn
  <1>3. EngineFollowsStart'
    BY DEF RuntimeInv, V!RuntimeTypeOK, EngineFollowsStart, StartsOwn, V!NoSession,
           V!StillStarting, V!Quiet, V!connected, V!degrade
  <1>4. JoinedRuns'
    <2> SUFFICES ASSUME NEW t \in joined' \ abandoned'
                 PROVE  /\ start'[t] = "done" /\ t = sessions' /\ publisher'[t] = "connected"
                        /\ engine'[t].held /\ engine'[t].running
      BY DEF JoinedRuns
    <2>1. CASE t = s
      <3>1. s \notin abandoned /\ V!StillStarting(s) /\ engine[s].held /\ engine[s].running
        BY <2>1
        DEF RuntimeInv, V!RuntimeTypeOK, EngineFollowsStart, V!StillStarting,
            V!connected, V!degrade
      <3>2. s = sessions /\ sessions' = sessions
        BY <3>1 DEF RuntimeInv, StartsOwn, V!connected, V!degrade
      <3>3. start'[s] = "done" /\ publisher'[s] = "connected"
        BY <3>1 DEF RuntimeInv, V!RuntimeTypeOK, V!connected, V!degrade
      <3>4. engine'[s].held /\ engine'[s].running
        BY <3>1 DEF RuntimeInv, V!RuntimeTypeOK, V!connected, V!degrade
      <3> QED
        BY <2>1, <3>2, <3>3, <3>4
    <2>2. CASE t # s
      BY <2>2
      DEF RuntimeInv, V!RuntimeTypeOK, StartsOwn, EngineFollowsStart, JoinedRuns,
          V!NoSession, V!StillStarting, V!connected, V!degrade
    <2> QED
      BY <2>1, <2>2
  <1>5. PausedEngine'
    BY DEF RuntimeInv, V!RuntimeTypeOK, StartsOwn, EngineFollowsStart, PausedEngine,
           V!NoSession, V!StillStarting, V!Quiet, V!connected, V!degrade
  <1>6. V!QuietWhilePaused'
    BY DEF RuntimeInv, V!RuntimeTypeOK, V!QuietWhilePaused, StartsOwn,
           EngineFollowsStart, PausedEngine, V!NoSession, V!StillStarting, V!Quiet,
           V!connected, V!degrade
  <1>7. V!PhaseFollowsSession'
    BY DEF RuntimeInv, V!RuntimeTypeOK, V!PhaseFollowsSession, StartsOwn,
           EngineFollowsStart, V!NoSession, V!StillStarting, V!Quiet, V!connected,
           V!degrade
  <1>8. V!NumberLeadsToSession'
    BY DEF RuntimeInv, V!RuntimeTypeOK, V!NumberLeadsToSession, StartsOwn, V!NoSession,
           V!StillStarting, V!Quiet, V!connected, V!degrade
  <1> QED
    BY <1>1, <1>2, <1>3, <1>4, <1>5, <1>6, <1>7, <1>8 DEF RuntimeInv

\* A start that has failed to connect ends degraded, in the call only if abandoned there.
LEMMA AfterNotConnected ==
  ASSUME RuntimeInv, NEW s \in Starts, V!notConnected(s)
  PROVE  RuntimeInv'
  <1> USE ConnectionsAssumption DEF V!histories, V!IfStarting, V!ShownAgain
  <1>1. V!RuntimeTypeOK'
    <2>1. session' \in [Starts -> SessionRecords]
      <3> DEFINE r == [session[s] EXCEPT !.state = "degraded"]
      <3>1. session \in [Starts -> SessionRecords]
        BY DEF RuntimeInv, V!RuntimeTypeOK, SessionRecords
      <3>2. r \in SessionRecords
        BY <3>1 DEF SessionRecords
      <3>3. session' = [session EXCEPT ![s] = r]
        BY DEF V!notConnected, V!degrade
      <3> QED
        BY <3>1, <3>2, <3>3
    <2>2. engine' \in [Starts -> EngineRecords]
      <3> DEFINE r == [engine[s] EXCEPT !.held = FALSE]
      <3>1. engine \in [Starts -> EngineRecords]
        BY DEF RuntimeInv, V!RuntimeTypeOK, EngineRecords
      <3>2. r \in EngineRecords
        BY <3>1 DEF EngineRecords
      <3>3. engine' = [engine EXCEPT ![s] = r]
        BY DEF V!notConnected
      <3> QED
        BY <3>1, <3>2, <3>3
    <2> QED
      BY <2>1, <2>2
      DEF RuntimeInv, V!RuntimeTypeOK, SessionRecords, EngineRecords, V!NoSession,
          V!Quiet, V!StillStarting, V!notConnected, V!degrade
  <1>2. StartsOwn'
    <2>1. (~V!NoSession => start[sessions] # "new")'
      BY DEF RuntimeInv, V!RuntimeTypeOK, StartsOwn, V!NoSession, V!StillStarting,
             V!notConnected, V!degrade
    <2>2. ASSUME NEW t \in Starts \ overtaken', V!StillStarting(t)'
          PROVE  t = sessions' /\ session'[t] = [state |-> "starting", paused |-> FALSE]
      <3>1. t \in Starts /\ t \notin overtaken
        BY <2>2 DEF V!notConnected, V!degrade
      <3>2. CASE t = s
        BY <2>2, <3>1, <3>2
        DEF RuntimeInv, V!RuntimeTypeOK, StartsOwn, V!NoSession, V!StillStarting,
            V!notConnected, V!degrade
      <3>3. CASE t # s
        <4>1. start'[t] = start[t] /\ session'[t] = session[t] /\ sessions' = sessions
          BY <3>1, <3>3 DEF RuntimeInv, V!RuntimeTypeOK, V!notConnected, V!degrade
        <4> QED
          BY <2>2, <3>1, <4>1 DEF RuntimeInv, StartsOwn, V!StillStarting
      <3> QED
        BY <3>2, <3>3
    <2>3. ASSUME NEW t \in Starts \ abandoned', V!StillStarting(t)'
          PROVE  t = sessions'
      <3>1. t \in Starts /\ t \notin abandoned /\ t # s /\ start'[t] = start[t]
        BY <2>3 DEF RuntimeInv, V!RuntimeTypeOK, V!StillStarting, V!notConnected, V!degrade
      <3> QED
        BY <2>3, <3>1 DEF RuntimeInv, StartsOwn, V!StillStarting, V!notConnected, V!degrade
    <2> QED
      BY <2>1, <2>2, <2>3 DEF StartsOwn
  <1>3. EngineFollowsStart'
    BY DEF RuntimeInv, V!RuntimeTypeOK, EngineFollowsStart, StartsOwn, V!NoSession,
           V!StillStarting, V!Quiet, V!notConnected, V!degrade
  <1>4. JoinedRuns'
    <2> SUFFICES ASSUME NEW t \in joined' \ abandoned'
                 PROVE  /\ start'[t] = "done" /\ t = sessions' /\ publisher'[t] = "connected"
                        /\ engine'[t].held /\ engine'[t].running
      BY DEF JoinedRuns
    <2>1. CASE t = s
      BY <2>1
      DEF RuntimeInv, V!RuntimeTypeOK, StartsOwn, EngineFollowsStart, JoinedRuns,
          V!NoSession, V!StillStarting, V!notConnected, V!degrade
    <2>2. CASE t # s
      BY <2>2
      DEF RuntimeInv, V!RuntimeTypeOK, StartsOwn, EngineFollowsStart, JoinedRuns,
          V!NoSession, V!StillStarting, V!notConnected, V!degrade
    <2> QED
      BY <2>1, <2>2
  <1>5. PausedEngine'
    BY DEF RuntimeInv, V!RuntimeTypeOK, StartsOwn, EngineFollowsStart, PausedEngine,
           V!NoSession, V!StillStarting, V!Quiet, V!notConnected, V!degrade
  <1>6. V!QuietWhilePaused'
    BY DEF RuntimeInv, V!RuntimeTypeOK, V!QuietWhilePaused, StartsOwn,
           EngineFollowsStart, PausedEngine, V!NoSession, V!StillStarting, V!Quiet,
           V!notConnected, V!degrade
  <1>7. V!PhaseFollowsSession'
    BY DEF RuntimeInv, V!RuntimeTypeOK, V!PhaseFollowsSession, StartsOwn,
           EngineFollowsStart, V!NoSession, V!StillStarting, V!Quiet, V!notConnected,
           V!degrade
  <1>8. V!NumberLeadsToSession'
    BY DEF RuntimeInv, V!RuntimeTypeOK, V!NumberLeadsToSession, StartsOwn, V!NoSession,
           V!StillStarting, V!Quiet, V!notConnected, V!degrade
  <1> QED
    BY <1>1, <1>2, <1>3, <1>4, <1>5, <1>6, <1>7, <1>8 DEF RuntimeInv

\* A frame is sent by an engine that runs and is not paused.
LEMMA AfterVideoTick ==
  ASSUME RuntimeInv, NEW s \in Starts, V!videoTick(s)
  PROVE  RuntimeInv'
  <1> USE ConnectionsAssumption DEF V!histories, V!IfStarting, V!ShownAgain
  <1>1. V!RuntimeTypeOK'
    BY DEF RuntimeInv, V!RuntimeTypeOK, V!Quiet, V!NoSession, V!videoTick
  <1>2. StartsOwn'
    BY DEF RuntimeInv, V!RuntimeTypeOK, StartsOwn, V!NoSession, V!StillStarting,
           V!Quiet, V!videoTick
  <1>3. EngineFollowsStart'
    BY DEF RuntimeInv, V!RuntimeTypeOK, EngineFollowsStart, StartsOwn, V!NoSession,
           V!StillStarting, V!Quiet, V!videoTick
  <1>4. JoinedRuns'
    BY DEF RuntimeInv, V!RuntimeTypeOK, StartsOwn, EngineFollowsStart, JoinedRuns,
           V!NoSession, V!StillStarting, V!Quiet, V!videoTick
  <1>5. PausedEngine'
    BY DEF RuntimeInv, V!RuntimeTypeOK, StartsOwn, EngineFollowsStart, PausedEngine,
           V!NoSession, V!StillStarting, V!Quiet, V!videoTick
  <1>6. V!QuietWhilePaused'
    BY DEF RuntimeInv, V!RuntimeTypeOK, V!QuietWhilePaused, StartsOwn,
           EngineFollowsStart, PausedEngine, V!NoSession, V!StillStarting, V!Quiet,
           V!videoTick
  <1>7. V!PhaseFollowsSession'
    BY DEF RuntimeInv, V!RuntimeTypeOK, V!PhaseFollowsSession, StartsOwn,
           EngineFollowsStart, V!NoSession, V!StillStarting, V!Quiet, V!videoTick
  <1>8. V!NumberLeadsToSession'
    BY DEF RuntimeInv, V!RuntimeTypeOK, V!NumberLeadsToSession, StartsOwn, V!NoSession,
           V!StillStarting, V!Quiet, V!videoTick
  <1> QED
    BY <1>1, <1>2, <1>3, <1>4, <1>5, <1>6, <1>7, <1>8 DEF RuntimeInv

\* pause pauses the session's engine, if it has one that can send.
LEMMA AfterPause ==
  ASSUME RuntimeInv, V!pause
  PROVE  RuntimeInv'
  <1> USE ConnectionsAssumption DEF V!histories, V!IfStarting, V!ShownAgain
  <1>1. V!RuntimeTypeOK'
    <2>1. session' \in [Starts -> SessionRecords]
      BY DEF RuntimeInv, V!RuntimeTypeOK, SessionRecords, V!pause, V!Overtake
    <2>2. engine' \in [Starts -> EngineRecords]
      <3> DEFINE r == [engine[sessions] EXCEPT !.paused = engine[sessions].paused
                        \/ (engine[sessions].held /\ engine[sessions].running)]
      <3>1. engine \in [Starts -> EngineRecords] /\ sessions \in Starts
        BY ConnectionsAssumption
        DEF RuntimeInv, V!RuntimeTypeOK, EngineRecords, V!NoSession, V!pause,
            V!Overtake
      <3>2. r \in EngineRecords
        BY <3>1 DEF EngineRecords
      <3>3. engine' = [engine EXCEPT ![sessions] = r]
        BY <3>1 DEF V!pause, V!Overtake
      <3> QED
        BY <3>1, <3>2, <3>3
    <2> QED
      BY <2>1, <2>2
      DEF RuntimeInv, V!RuntimeTypeOK, SessionRecords, EngineRecords, V!NoSession,
          V!Quiet, V!StillStarting, V!pause, V!Overtake
  <1>2. StartsOwn'
    BY DEF RuntimeInv, V!RuntimeTypeOK, StartsOwn, V!NoSession, V!StillStarting,
           V!Quiet, V!pause, V!Overtake
  <1>3. EngineFollowsStart'
    BY DEF RuntimeInv, V!RuntimeTypeOK, EngineFollowsStart, StartsOwn, V!NoSession,
           V!StillStarting, V!Quiet, V!pause, V!Overtake
  <1>4. JoinedRuns'
    BY DEF RuntimeInv, V!RuntimeTypeOK, StartsOwn, EngineFollowsStart, JoinedRuns,
           V!NoSession, V!StillStarting, V!Quiet, V!pause, V!Overtake
  <1>5. PausedEngine'
    BY DEF RuntimeInv, V!RuntimeTypeOK, StartsOwn, EngineFollowsStart, PausedEngine,
           V!NoSession, V!StillStarting, V!Quiet, V!pause, V!Overtake
  <1>6. V!QuietWhilePaused'
    BY DEF RuntimeInv, V!RuntimeTypeOK, V!QuietWhilePaused, StartsOwn,
           EngineFollowsStart, PausedEngine, V!NoSession, V!StillStarting, V!Quiet,
           V!pause, V!Overtake
  <1>7. V!PhaseFollowsSession'
    BY DEF RuntimeInv, V!RuntimeTypeOK, V!PhaseFollowsSession, StartsOwn,
           EngineFollowsStart, V!NoSession, V!StillStarting, V!Quiet, V!pause,
           V!Overtake
  <1>8. V!NumberLeadsToSession'
    BY DEF RuntimeInv, V!RuntimeTypeOK, V!NumberLeadsToSession, StartsOwn, V!NoSession,
           V!StillStarting, V!Quiet, V!pause, V!Overtake
  <1> QED
    BY <1>1, <1>2, <1>3, <1>4, <1>5, <1>6, <1>7, <1>8 DEF RuntimeInv

\* resume lets the engine go on.
LEMMA AfterResume ==
  ASSUME RuntimeInv, V!resume
  PROVE  RuntimeInv'
  <1> USE ConnectionsAssumption DEF V!histories, V!IfStarting, V!ShownAgain
  <1>1. V!RuntimeTypeOK'
    <2>1. session' \in [Starts -> SessionRecords]
      BY DEF RuntimeInv, V!RuntimeTypeOK, SessionRecords, V!resume, V!Overtake
    <2>2. engine' \in [Starts -> EngineRecords]
      <3> DEFINE r == [engine[sessions] EXCEPT !.paused = engine[sessions].paused
                        /\ ~(engine[sessions].held /\ engine[sessions].running)]
      <3>1. engine \in [Starts -> EngineRecords] /\ sessions \in Starts
        BY ConnectionsAssumption
        DEF RuntimeInv, V!RuntimeTypeOK, EngineRecords, V!NoSession, V!resume,
            V!Overtake
      <3>2. r \in EngineRecords
        BY <3>1 DEF EngineRecords
      <3>3. engine' = [engine EXCEPT ![sessions] = r]
        BY <3>1 DEF V!resume, V!Overtake
      <3> QED
        BY <3>1, <3>2, <3>3
    <2> QED
      BY <2>1, <2>2
      DEF RuntimeInv, V!RuntimeTypeOK, SessionRecords, EngineRecords, V!NoSession,
          V!Quiet, V!StillStarting, V!resume, V!Overtake
  <1>2. StartsOwn'
    BY DEF RuntimeInv, V!RuntimeTypeOK, StartsOwn, V!NoSession, V!StillStarting,
           V!Quiet, V!resume, V!Overtake
  <1>3. EngineFollowsStart'
    BY DEF RuntimeInv, V!RuntimeTypeOK, EngineFollowsStart, StartsOwn, V!NoSession,
           V!StillStarting, V!Quiet, V!resume, V!Overtake
  <1>4. JoinedRuns'
    BY DEF RuntimeInv, V!RuntimeTypeOK, StartsOwn, EngineFollowsStart, JoinedRuns,
           V!NoSession, V!StillStarting, V!Quiet, V!resume, V!Overtake
  <1>5. PausedEngine'
    BY DEF RuntimeInv, V!RuntimeTypeOK, StartsOwn, EngineFollowsStart, PausedEngine,
           V!NoSession, V!StillStarting, V!Quiet, V!resume, V!Overtake
  <1>6. V!QuietWhilePaused'
    BY DEF RuntimeInv, V!RuntimeTypeOK, V!QuietWhilePaused, StartsOwn,
           EngineFollowsStart, PausedEngine, V!NoSession, V!StillStarting, V!Quiet,
           V!resume, V!Overtake
  <1>7. V!PhaseFollowsSession'
    BY DEF RuntimeInv, V!RuntimeTypeOK, V!PhaseFollowsSession, StartsOwn,
           EngineFollowsStart, V!NoSession, V!StillStarting, V!Quiet, V!resume,
           V!Overtake
  <1>8. V!NumberLeadsToSession'
    BY DEF RuntimeInv, V!RuntimeTypeOK, V!NumberLeadsToSession, StartsOwn, V!NoSession,
           V!StillStarting, V!Quiet, V!resume, V!Overtake
  <1> QED
    BY <1>1, <1>2, <1>3, <1>4, <1>5, <1>6, <1>7, <1>8 DEF RuntimeInv

\* interrupt changes what is said of the session and no more.
LEMMA AfterInterrupt ==
  ASSUME RuntimeInv, V!interrupt
  PROVE  RuntimeInv'
  <1> USE ConnectionsAssumption DEF V!histories, V!IfStarting, V!ShownAgain
  <1>1. V!RuntimeTypeOK'
    BY DEF RuntimeInv, V!RuntimeTypeOK, V!Quiet, V!NoSession, V!interrupt, V!Overtake,
           V!publishActivity
  <1>2. StartsOwn'
    BY DEF RuntimeInv, V!RuntimeTypeOK, StartsOwn, V!NoSession, V!StillStarting,
           V!Quiet, V!interrupt, V!Overtake, V!publishActivity
  <1>3. EngineFollowsStart'
    BY DEF RuntimeInv, V!RuntimeTypeOK, EngineFollowsStart, StartsOwn, V!NoSession,
           V!StillStarting, V!Quiet, V!interrupt, V!Overtake, V!publishActivity
  <1>4. JoinedRuns'
    BY DEF RuntimeInv, V!RuntimeTypeOK, StartsOwn, EngineFollowsStart, JoinedRuns,
           V!NoSession, V!StillStarting, V!Quiet, V!interrupt, V!Overtake,
           V!publishActivity
  <1>5. PausedEngine'
    BY DEF RuntimeInv, V!RuntimeTypeOK, StartsOwn, EngineFollowsStart, PausedEngine,
           V!NoSession, V!StillStarting, V!Quiet, V!interrupt, V!Overtake,
           V!publishActivity
  <1>6. V!QuietWhilePaused'
    BY DEF RuntimeInv, V!RuntimeTypeOK, V!QuietWhilePaused, StartsOwn,
           EngineFollowsStart, PausedEngine, V!NoSession, V!StillStarting, V!Quiet,
           V!interrupt, V!Overtake, V!publishActivity
  <1>7. V!PhaseFollowsSession'
    BY DEF RuntimeInv, V!RuntimeTypeOK, V!PhaseFollowsSession, StartsOwn,
           EngineFollowsStart, V!NoSession, V!StillStarting, V!Quiet, V!interrupt,
           V!Overtake, V!publishActivity
  <1>8. V!NumberLeadsToSession'
    BY DEF RuntimeInv, V!RuntimeTypeOK, V!NumberLeadsToSession, StartsOwn, V!NoSession,
           V!StillStarting, V!Quiet, V!interrupt, V!Overtake, V!publishActivity
  <1> QED
    BY <1>1, <1>2, <1>3, <1>4, <1>5, <1>6, <1>7, <1>8 DEF RuntimeInv

\* stop leaves the call, or overtakes a start that will join it.
LEMMA AfterStop ==
  ASSUME RuntimeInv, V!stop
  PROVE  RuntimeInv'
  <1> USE ConnectionsAssumption DEF V!histories, V!IfStarting, V!ShownAgain
  <1>1. V!RuntimeTypeOK'
    <2>1. session' \in [Starts -> SessionRecords]
      BY DEF RuntimeInv, V!RuntimeTypeOK, SessionRecords, V!stop, V!Overtake, V!close
    <2>2. engine' \in [Starts -> EngineRecords]
      <3>1. engine \in [Starts -> EngineRecords] /\ sessions \in Starts
        BY ConnectionsAssumption
        DEF RuntimeInv, V!RuntimeTypeOK, EngineRecords, V!NoSession, V!stop,
            V!Overtake, V!close
      <3>2. CASE engine[sessions].held /\ engine[sessions].running
        <4> DEFINE r == [engine[sessions] EXCEPT !.running = FALSE, !.timers = FALSE]
        <4>1. r \in EngineRecords
          BY <3>1 DEF EngineRecords
        <4>2. engine' = [engine EXCEPT ![sessions] = r]
          BY <3>1, <3>2 DEF V!stop, V!Overtake, V!close
        <4> QED
          BY <3>1, <4>1, <4>2
      <3>3. CASE ~(engine[sessions].held /\ engine[sessions].running)
        BY <3>1, <3>3 DEF V!stop, V!Overtake, V!close
      <3> QED
        BY <3>2, <3>3
    <2>3. /\ publisher' \in [Starts -> {"idle", "connecting", "connected", "closed"}]
          /\ joined' \subseteq joined
      BY DEF RuntimeInv, V!RuntimeTypeOK, V!NoSession, V!stop, V!Overtake, V!close
    <2>4. abandoned' \subseteq Starts
      <3>1. sessions \in Starts /\ abandoned \subseteq Starts
        BY DEF RuntimeInv, V!RuntimeTypeOK, V!NoSession, V!stop
      <3>2. abandoned' \subseteq abandoned \cup {sessions}
        BY DEF V!stop, V!close
      <3> QED
        BY <3>1, <3>2
    <2> QED
      BY <2>1, <2>2, <2>3, <2>4
      DEF RuntimeInv, V!RuntimeTypeOK, SessionRecords, EngineRecords, V!NoSession,
          V!Quiet, V!StillStarting, V!stop, V!Overtake, V!close
  <1>2. StartsOwn'
    BY DEF RuntimeInv, V!RuntimeTypeOK, StartsOwn, V!NoSession, V!StillStarting,
           V!Quiet, V!stop, V!Overtake, V!close
  <1>3. EngineFollowsStart'
    BY DEF RuntimeInv, V!RuntimeTypeOK, EngineFollowsStart, StartsOwn, V!NoSession,
           V!StillStarting, V!Quiet, V!stop, V!Overtake, V!close
  <1>4. JoinedRuns'
    BY DEF RuntimeInv, V!RuntimeTypeOK, StartsOwn, EngineFollowsStart, JoinedRuns,
           V!NoSession, V!StillStarting, V!Quiet, V!stop, V!Overtake, V!close
  <1>5. PausedEngine'
    BY DEF RuntimeInv, V!RuntimeTypeOK, StartsOwn, EngineFollowsStart, PausedEngine,
           V!NoSession, V!StillStarting, V!Quiet, V!stop, V!Overtake, V!close
  <1>6. V!QuietWhilePaused'
    BY DEF RuntimeInv, V!RuntimeTypeOK, V!QuietWhilePaused, StartsOwn,
           EngineFollowsStart, PausedEngine, V!NoSession, V!StillStarting, V!Quiet,
           V!stop, V!Overtake, V!close
  <1>7. V!PhaseFollowsSession'
    BY DEF RuntimeInv, V!RuntimeTypeOK, V!PhaseFollowsSession, StartsOwn,
           EngineFollowsStart, V!NoSession, V!StillStarting, V!Quiet, V!stop,
           V!Overtake, V!close
  <1>8. V!NumberLeadsToSession'
    BY DEF RuntimeInv, V!RuntimeTypeOK, V!NumberLeadsToSession, StartsOwn, V!NoSession,
           V!StillStarting, V!Quiet, V!stop, V!Overtake, V!close
  <1> QED
    BY <1>1, <1>2, <1>3, <1>4, <1>5, <1>6, <1>7, <1>8 DEF RuntimeInv

\* A response that begins changes what is said of the session and no more.
LEMMA AfterResponseCreated ==
  ASSUME RuntimeInv, V!responseCreated
  PROVE  RuntimeInv'
  <1> USE ConnectionsAssumption DEF V!histories, V!IfStarting, V!ShownAgain
  <1>1. V!RuntimeTypeOK'
    BY DEF RuntimeInv, V!RuntimeTypeOK, V!Quiet, V!NoSession, V!responseCreated,
           V!Overtake, V!publishActivity
  <1>2. StartsOwn'
    BY DEF RuntimeInv, V!RuntimeTypeOK, StartsOwn, V!NoSession, V!StillStarting,
           V!Quiet, V!responseCreated, V!Overtake, V!publishActivity
  <1>3. EngineFollowsStart'
    BY DEF RuntimeInv, V!RuntimeTypeOK, EngineFollowsStart, StartsOwn, V!NoSession,
           V!StillStarting, V!Quiet, V!responseCreated, V!Overtake, V!publishActivity
  <1>4. JoinedRuns'
    BY DEF RuntimeInv, V!RuntimeTypeOK, StartsOwn, EngineFollowsStart, JoinedRuns,
           V!NoSession, V!StillStarting, V!Quiet, V!responseCreated, V!Overtake,
           V!publishActivity
  <1>5. PausedEngine'
    BY DEF RuntimeInv, V!RuntimeTypeOK, StartsOwn, EngineFollowsStart, PausedEngine,
           V!NoSession, V!StillStarting, V!Quiet, V!responseCreated, V!Overtake,
           V!publishActivity
  <1>6. V!QuietWhilePaused'
    BY DEF RuntimeInv, V!RuntimeTypeOK, V!QuietWhilePaused, StartsOwn,
           EngineFollowsStart, PausedEngine, V!NoSession, V!StillStarting, V!Quiet,
           V!responseCreated, V!Overtake, V!publishActivity
  <1>7. V!PhaseFollowsSession'
    BY DEF RuntimeInv, V!RuntimeTypeOK, V!PhaseFollowsSession, StartsOwn,
           EngineFollowsStart, V!NoSession, V!StillStarting, V!Quiet,
           V!responseCreated, V!Overtake, V!publishActivity
  <1>8. V!NumberLeadsToSession'
    BY DEF RuntimeInv, V!RuntimeTypeOK, V!NumberLeadsToSession, StartsOwn, V!NoSession,
           V!StillStarting, V!Quiet, V!responseCreated, V!Overtake, V!publishActivity
  <1> QED
    BY <1>1, <1>2, <1>3, <1>4, <1>5, <1>6, <1>7, <1>8 DEF RuntimeInv

\* A response that ends changes what the agent is shown to do and no more.
LEMMA AfterResponseDone ==
  ASSUME RuntimeInv, V!responseDone
  PROVE  RuntimeInv'
  <1> USE ConnectionsAssumption DEF V!histories, V!IfStarting, V!ShownAgain
  <1>1. V!RuntimeTypeOK'
    BY DEF RuntimeInv, V!RuntimeTypeOK, V!Quiet, V!NoSession, V!responseDone,
           V!publishActivity
  <1>2. StartsOwn'
    BY DEF RuntimeInv, V!RuntimeTypeOK, StartsOwn, V!NoSession, V!StillStarting,
           V!Quiet, V!responseDone, V!publishActivity
  <1>3. EngineFollowsStart'
    BY DEF RuntimeInv, V!RuntimeTypeOK, EngineFollowsStart, StartsOwn, V!NoSession,
           V!StillStarting, V!Quiet, V!responseDone, V!publishActivity
  <1>4. JoinedRuns'
    BY DEF RuntimeInv, V!RuntimeTypeOK, StartsOwn, EngineFollowsStart, JoinedRuns,
           V!NoSession, V!StillStarting, V!Quiet, V!responseDone, V!publishActivity
  <1>5. PausedEngine'
    BY DEF RuntimeInv, V!RuntimeTypeOK, StartsOwn, EngineFollowsStart, PausedEngine,
           V!NoSession, V!StillStarting, V!Quiet, V!responseDone, V!publishActivity
  <1>6. V!QuietWhilePaused'
    BY DEF RuntimeInv, V!RuntimeTypeOK, V!QuietWhilePaused, StartsOwn,
           EngineFollowsStart, PausedEngine, V!NoSession, V!StillStarting, V!Quiet,
           V!responseDone, V!publishActivity
  <1>7. V!PhaseFollowsSession'
    BY DEF RuntimeInv, V!RuntimeTypeOK, V!PhaseFollowsSession, StartsOwn,
           EngineFollowsStart, V!NoSession, V!StillStarting, V!Quiet, V!responseDone,
           V!publishActivity
  <1>8. V!NumberLeadsToSession'
    BY DEF RuntimeInv, V!RuntimeTypeOK, V!NumberLeadsToSession, StartsOwn, V!NoSession,
           V!StillStarting, V!Quiet, V!responseDone, V!publishActivity
  <1> QED
    BY <1>1, <1>2, <1>3, <1>4, <1>5, <1>6, <1>7, <1>8 DEF RuntimeInv

\* A command that gives somebody the floor shows the agent as listening, even a paused one.
LEMMA AfterSetActiveSpeaker ==
  ASSUME RuntimeInv, V!setActiveSpeaker
  PROVE  RuntimeInv'
  <1> USE ConnectionsAssumption DEF V!histories, V!IfStarting, V!ShownAgain
  <1>1. V!RuntimeTypeOK'
    BY DEF RuntimeInv, V!RuntimeTypeOK, V!Quiet, V!NoSession, V!setActiveSpeaker,
           V!publishActivity
  <1>2. StartsOwn'
    BY DEF RuntimeInv, V!RuntimeTypeOK, StartsOwn, V!NoSession, V!StillStarting,
           V!Quiet, V!setActiveSpeaker, V!publishActivity
  <1>3. EngineFollowsStart'
    BY DEF RuntimeInv, V!RuntimeTypeOK, EngineFollowsStart, StartsOwn, V!NoSession,
           V!StillStarting, V!Quiet, V!setActiveSpeaker, V!publishActivity
  <1>4. JoinedRuns'
    BY DEF RuntimeInv, V!RuntimeTypeOK, StartsOwn, EngineFollowsStart, JoinedRuns,
           V!NoSession, V!StillStarting, V!Quiet, V!setActiveSpeaker, V!publishActivity
  <1>5. PausedEngine'
    BY DEF RuntimeInv, V!RuntimeTypeOK, StartsOwn, EngineFollowsStart, PausedEngine,
           V!NoSession, V!StillStarting, V!Quiet, V!setActiveSpeaker, V!publishActivity
  <1>6. V!QuietWhilePaused'
    BY DEF RuntimeInv, V!RuntimeTypeOK, V!QuietWhilePaused, StartsOwn,
           EngineFollowsStart, PausedEngine, V!NoSession, V!StillStarting, V!Quiet,
           V!setActiveSpeaker, V!publishActivity
  <1>7. V!PhaseFollowsSession'
    BY DEF RuntimeInv, V!RuntimeTypeOK, V!PhaseFollowsSession, StartsOwn,
           EngineFollowsStart, V!NoSession, V!StillStarting, V!Quiet, V!setActiveSpeaker,
           V!publishActivity
  <1>8. V!NumberLeadsToSession'
    BY DEF RuntimeInv, V!RuntimeTypeOK, V!NumberLeadsToSession, StartsOwn, V!NoSession,
           V!StillStarting, V!Quiet, V!setActiveSpeaker, V!publishActivity
  <1> QED
    BY <1>1, <1>2, <1>3, <1>4, <1>5, <1>6, <1>7, <1>8 DEF RuntimeInv

\* A transcript is sent by a session that is not paused.
LEMMA AfterTranscriptDelta ==
  ASSUME RuntimeInv, V!transcriptDelta
  PROVE  RuntimeInv'
  <1> USE ConnectionsAssumption DEF V!histories, V!IfStarting, V!ShownAgain
  <1>1. V!RuntimeTypeOK'
    BY DEF RuntimeInv, V!RuntimeTypeOK, V!Quiet, V!NoSession, V!transcriptDelta,
           V!publishActivity, V!Speaks
  <1>2. StartsOwn'
    BY DEF RuntimeInv, V!RuntimeTypeOK, StartsOwn, V!NoSession, V!StillStarting,
           V!Quiet, V!transcriptDelta, V!publishActivity, V!Speaks
  <1>3. EngineFollowsStart'
    BY DEF RuntimeInv, V!RuntimeTypeOK, EngineFollowsStart, StartsOwn, V!NoSession,
           V!StillStarting, V!Quiet, V!transcriptDelta, V!publishActivity, V!Speaks
  <1>4. JoinedRuns'
    BY DEF RuntimeInv, V!RuntimeTypeOK, StartsOwn, EngineFollowsStart, JoinedRuns,
           V!NoSession, V!StillStarting, V!Quiet, V!transcriptDelta, V!publishActivity,
           V!Speaks
  <1>5. PausedEngine'
    BY DEF RuntimeInv, V!RuntimeTypeOK, StartsOwn, EngineFollowsStart, PausedEngine,
           V!NoSession, V!StillStarting, V!Quiet, V!transcriptDelta, V!publishActivity,
           V!Speaks
  <1>6. V!QuietWhilePaused'
    BY DEF RuntimeInv, V!RuntimeTypeOK, V!QuietWhilePaused, StartsOwn,
           EngineFollowsStart, PausedEngine, V!NoSession, V!StillStarting, V!Quiet,
           V!transcriptDelta, V!publishActivity, V!Speaks
  <1>7. V!PhaseFollowsSession'
    BY DEF RuntimeInv, V!RuntimeTypeOK, V!PhaseFollowsSession, StartsOwn,
           EngineFollowsStart, V!NoSession, V!StillStarting, V!Quiet,
           V!transcriptDelta, V!publishActivity, V!Speaks
  <1>8. V!NumberLeadsToSession'
    BY DEF RuntimeInv, V!RuntimeTypeOK, V!NumberLeadsToSession, StartsOwn, V!NoSession,
           V!StillStarting, V!Quiet, V!transcriptDelta, V!publishActivity, V!Speaks
  <1> QED
    BY <1>1, <1>2, <1>3, <1>4, <1>5, <1>6, <1>7, <1>8 DEF RuntimeInv

\* Audio is sent by a session that is not paused.
LEMMA AfterAudioDelta ==
  ASSUME RuntimeInv, V!audioDelta
  PROVE  RuntimeInv'
  <1> USE ConnectionsAssumption DEF V!histories, V!IfStarting, V!ShownAgain
  <1>1. V!RuntimeTypeOK'
    BY DEF RuntimeInv, V!RuntimeTypeOK, V!Quiet, V!NoSession, V!audioDelta,
           V!publishActivity, V!Speaks
  <1>2. StartsOwn'
    BY DEF RuntimeInv, V!RuntimeTypeOK, StartsOwn, V!NoSession, V!StillStarting,
           V!Quiet, V!audioDelta, V!publishActivity, V!Speaks
  <1>3. EngineFollowsStart'
    BY DEF RuntimeInv, V!RuntimeTypeOK, EngineFollowsStart, StartsOwn, V!NoSession,
           V!StillStarting, V!Quiet, V!audioDelta, V!publishActivity, V!Speaks
  <1>4. JoinedRuns'
    BY DEF RuntimeInv, V!RuntimeTypeOK, StartsOwn, EngineFollowsStart, JoinedRuns,
           V!NoSession, V!StillStarting, V!Quiet, V!audioDelta, V!publishActivity,
           V!Speaks
  <1>5. PausedEngine'
    BY DEF RuntimeInv, V!RuntimeTypeOK, StartsOwn, EngineFollowsStart, PausedEngine,
           V!NoSession, V!StillStarting, V!Quiet, V!audioDelta, V!publishActivity,
           V!Speaks
  <1>6. V!QuietWhilePaused'
    BY DEF RuntimeInv, V!RuntimeTypeOK, V!QuietWhilePaused, StartsOwn,
           EngineFollowsStart, PausedEngine, V!NoSession, V!StillStarting, V!Quiet,
           V!audioDelta, V!publishActivity, V!Speaks
  <1>7. V!PhaseFollowsSession'
    BY DEF RuntimeInv, V!RuntimeTypeOK, V!PhaseFollowsSession, StartsOwn,
           EngineFollowsStart, V!NoSession, V!StillStarting, V!Quiet, V!audioDelta,
           V!publishActivity, V!Speaks
  <1>8. V!NumberLeadsToSession'
    BY DEF RuntimeInv, V!RuntimeTypeOK, V!NumberLeadsToSession, StartsOwn, V!NoSession,
           V!StillStarting, V!Quiet, V!audioDelta, V!publishActivity, V!Speaks
  <1> QED
    BY <1>1, <1>2, <1>3, <1>4, <1>5, <1>6, <1>7, <1>8 DEF RuntimeInv

\* Every step of the runtime keeps the invariant.
LEMMA RuntimePreserves ==
  ASSUME RuntimeInv, [V!RuntimeNext]_(V!runtimeVars)
  PROVE  RuntimeInv'
  <1>1. CASE \E s \in Starts :
               \/ V!startForMeeting(s) \/ V!withoutVideo(s) \/ V!startBehaviorStatic(s)
               \/ V!probeWorker(s) \/ V!workerReady(s) \/ V!workerNotReady(s)
               \/ V!connected(s) \/ V!notConnected(s) \/ V!videoTick(s)
    BY <1>1, AfterStartForMeeting,
       AfterWithoutVideo,
       AfterProbeWorker,
       AfterStartBehaviorStatic,
       AfterWorkerReady,
       AfterWorkerNotReady,
       AfterConnected,
       AfterNotConnected,
       AfterVideoTick
  <1>2. CASE V!pause \/ V!resume \/ V!interrupt \/ V!stop
    BY <1>2, AfterPause, AfterResume, AfterInterrupt, AfterStop
  <1>3. CASE V!responseCreated \/ V!responseDone \/ V!setActiveSpeaker
                \/ V!transcriptDelta \/ V!audioDelta
    BY <1>3, AfterResponseCreated, AfterResponseDone, AfterSetActiveSpeaker,
       AfterTranscriptDelta, AfterAudioDelta
  <1>4. CASE UNCHANGED V!runtimeVars
    BY <1>4
    DEF V!runtimeVars, RuntimeInv, V!RuntimeTypeOK, StartsOwn, EngineFollowsStart, JoinedRuns,
        PausedEngine, V!QuietWhilePaused, V!PhaseFollowsSession, V!NumberLeadsToSession,
        V!NoSession, V!StillStarting, V!histories
  <1> QED
    BY <1>1, <1>2, <1>3, <1>4 DEF V!RuntimeNext

\* The runtime keeps its invariant, whatever is started, paused or stopped meanwhile.
LEMMA RuntimeHolds ==
  V!RuntimeSpec => []RuntimeInv
  <1>1. V!RuntimeInit => RuntimeInv
    BY RuntimeInitHolds
  <1>2. RuntimeInv /\ [V!RuntimeNext]_(V!runtimeVars) => RuntimeInv'
    BY RuntimePreserves
  <1> QED
    BY <1>1, <1>2, PTL DEF V!RuntimeSpec

-----------------------------------------------------------------------------
(* The clips                                                               *)

Clips == [from: Nat, epoch: Nat]
ClipRequests == [n: 1 .. MaxInFlight + 1, epoch: Nat, from: Nat]
Pieces == [stamp: Int, came: Nat]

ClipTypes ==
    /\ clock \in Nat /\ clock >= Latency /\ epoch \in Nat
    /\ clips \in Seq(Clips) /\ ring \in Seq(Pieces)
    /\ requests \subseteq ClipRequests /\ IsFiniteSet(requests)
    /\ \A q \in requests : q.from + Latency <= clock

\* Date.now() is so far from MasterClock's time that trimBefore leaves one clip.
OneClip == Len(clips) <= 1 /\ \A i \in DOMAIN clips : clips[i].from + Latency <= clock

\* Within an epoch the clip that is kept is no earlier than the one shown last.
Forward ==
    lastFrame # Nothing =>
        /\ lastFrame \in Clips /\ lastFrame.epoch <= epoch
        /\ lastFrame.epoch = epoch => Len(clips) = 1 /\ lastFrame.from <= clips[1].from

\* Pieces in order are at least their number apart.
Spread(r) == \A i, j \in DOMAIN r : i < j => r[j].stamp - r[i].stamp >= j - i

ClipsInv ==
    /\ ClipTypes /\ OneClip /\ Forward
    /\ C!NothingStale /\ C!InFlightIsExact
    /\ inOrder => Spread(ring)
    /\ C!QueueBounded

-----------------------------------------------------------------------------
\* The least number of a set, if there is one.
LEMMA LeastIs ==
  ASSUME NEW S \in SUBSET Nat, NEW m \in S, \A k \in S : m <= k
  PROVE  C!Least(S) = m
  <1> DEFINE x == CHOOSE i \in S : \A j \in S : i <= j
  <1>1. x \in S /\ \A j \in S : x <= j
    OBVIOUS
  <1> HIDE DEF x
  <1>2. x <= m /\ m <= x /\ x \in Nat /\ m \in Nat
    BY <1>1
  <1>3. x = m
    BY <1>2
  <1> QED
    BY <1>3 DEF C!Least, x

\* There is one.
LEMMA LeastExists ==
  ASSUME NEW S \in SUBSET Nat, S # {}
  PROVE  C!Least(S) \in S /\ \A k \in S : C!Least(S) <= k
  <1> DEFINE less == OpToRel(<, Nat)
  <1>1. \A x, y \in Nat : y < x => <<y, x>> \in less
    BY DEF OpToRel
  <1>2. \E x \in S : \A y \in S : ~(<<y, x>> \in less)
    BY NatLessThanWellFounded, WFMin
  <1> HIDE DEF less
  <1>3. PICK x \in S : \A y \in S : ~(<<y, x>> \in less)
    BY <1>2
  <1>4. \A y \in S : x <= y
    <2> SUFFICES ASSUME NEW y \in S
                 PROVE  x <= y
      OBVIOUS
    <2>1. x \in Nat /\ y \in Nat /\ ~(y < x)
      BY <1>1, <1>3
    <2> QED
      BY <2>1
  <1> QED
    BY <1>4, LeastIs

\* The rest of a sequence from a place on.
LEMMA FromIs ==
  ASSUME NEW S, NEW s \in Seq(S), NEW k \in 1 .. Len(s) + 1
  PROVE  /\ C!From(s, k) \in Seq(S) /\ Len(C!From(s, k)) = Len(s) + 1 - k
         /\ \A i \in 1 .. Len(s) + 1 - k : /\ i + k - 1 \in DOMAIN s
                                           /\ C!From(s, k)[i] = s[i + k - 1]
  BY DEF C!From

\* A sequence of two, put together.
LEMMA PairIs ==
  ASSUME NEW a, NEW c
  PROVE  /\ SubSeq(<<c>>, 1, 1) = <<c>> /\ SubSeq(<<c>>, 1, 0) = <<>>
         /\ SubSeq(<<c>>, 2, 1) = <<>> /\ SubSeq(<<>>, 1, 0) = <<>>
         /\ <<>> \o <<a>> = <<a>> /\ <<a>> \o <<>> = <<a>>
         /\ <<a>> \o <<c>> = <<a, c>> /\ <<a, c>> \o <<>> = <<a, c>>
  <1> DEFINE S == {a, c}
  <1>1. /\ <<a>> \in Seq(S) /\ <<c>> \in Seq(S) /\ <<a, c>> \in Seq(S)
        /\ Len(<<c>>) = 1
    OBVIOUS
  <1> HIDE DEF S
  <1>2. /\ <<>> \o <<a>> = <<a>> /\ <<a>> \o <<>> = <<a>> /\ <<a, c>> \o <<>> = <<a, c>>
    BY <1>1, ConcatEmptySeq
  <1>3. SubSeq(<<c>>, 1, 1) = <<c>>
    BY <1>1, SubSeqFull
  <1>4. SubSeq(<<c>>, 1, 0) = <<>> /\ SubSeq(<<c>>, 2, 1) = <<>> /\ SubSeq(<<>>, 1, 0) = <<>>
    BY SubSeqEmpty
  <1>5. <<a>> \o <<c>> = <<a, c>>
    <2> DEFINE t == <<a>> \o <<c>>
    <2>1. Len(<<a>>) = 1 /\ <<a>>[1] = a /\ <<c>>[1] = c
      OBVIOUS
    <2>2. t \in Seq(S) /\ Len(t) = 2 /\ t[1] = a /\ t[2] = c
      BY <1>1, <2>1, ConcatProperties
    <2>3. Len(<<a, c>>) = 2 /\ <<a, c>>[1] = a /\ <<a, c>>[2] = c
      OBVIOUS
    <2> HIDE DEF t
    <2>4. \A i \in 1 .. 2 : t[i] = <<a, c>>[i]
      BY <2>2, <2>3
    <2>5. t = <<a, c>>
      BY <1>1, <2>2, <2>3, <2>4, SeqEqual
    <2> QED
      BY <2>5 DEF t
  <1> QED
    BY <1>2, <1>3, <1>4, <1>5

\* A piece has its stamp.
LEMMA PieceStamped ==
  ASSUME NEW r \in Seq(Pieces), NEW i \in DOMAIN r
  PROVE  r[i].stamp \in Int
  <1>1. r[i] \in Pieces
    OBVIOUS
  <1> QED
    BY <1>1 DEF Pieces

\* The rest of an ordered ring is ordered.
LEMMA FromSpread ==
  ASSUME NEW r \in Seq(Pieces), NEW k \in 1 .. Len(r) + 1, Spread(r)
  PROVE  Spread(C!From(r, k))
  <1> DEFINE t == C!From(r, k)
  <1>0. Len(r) \in Nat /\ k \in Int
    OBVIOUS
  <1>1. /\ t \in Seq(Pieces) /\ Len(t) = Len(r) + 1 - k
        /\ \A i \in 1 .. Len(r) + 1 - k : i + k - 1 \in DOMAIN r /\ t[i] = r[i + k - 1]
    BY FromIs
  <1>2. DOMAIN t = 1 .. Len(r) + 1 - k
    BY <1>1
  <1> HIDE DEF t
  <1> SUFFICES ASSUME NEW i \in DOMAIN t, NEW j \in DOMAIN t, i < j
               PROVE  t[j].stamp - t[i].stamp >= j - i
    BY DEF Spread, t
  <1>3. /\ i \in Int /\ j \in Int /\ k \in Int /\ i + k - 1 < j + k - 1
        /\ i + k - 1 \in DOMAIN r /\ j + k - 1 \in DOMAIN r
        /\ t[i] = r[i + k - 1] /\ t[j] = r[j + k - 1]
    <2>1. i \in 1 .. Len(r) + 1 - k /\ j \in 1 .. Len(r) + 1 - k
      BY <1>2
    <2>2. i \in Int /\ j \in Int /\ i + k - 1 < j + k - 1
      BY <1>0, <2>1
    <2> QED
      BY <1>0, <1>1, <2>1, <2>2
  <1>4. r[j + k - 1].stamp - r[i + k - 1].stamp >= (j + k - 1) - (i + k - 1)
    BY <1>3 DEF Spread
  <1>5. (j + k - 1) - (i + k - 1) = j - i
    BY <1>3
  <1> QED
    BY <1>3, <1>4, <1>5

\* trim leaves the end of the ring.
LEMMA TrimmedIs ==
  ASSUME NEW r \in Seq(Pieces), Len(r) > 0
  PROVE  \E k \in 1 .. Len(r) + 1 : C!Trimmed(r) = C!From(r, k)
  <1> DEFINE S == {i \in DOMAIN r : i = Len(r) \/ r[i].stamp + 1 + RingMax >= r[Len(r)].stamp + 1}
  <1>1. Len(r) \in Nat /\ DOMAIN r = 1 .. Len(r) /\ Len(r) \in DOMAIN r
    OBVIOUS
  <1>2. S \in SUBSET Nat /\ Len(r) \in S
    BY <1>1
  <1>3. C!Trimmed(r) = C!From(r, C!Least(S))
    BY DEF C!Trimmed
  <1> HIDE DEF S
  <1>4. C!Least(S) \in S
    BY <1>2, LeastExists
  <1>5. C!Least(S) \in 1 .. Len(r) + 1
    BY <1>1, <1>4 DEF S
  <1> QED
    BY <1>3, <1>5

\* What is left of a ring without its first pieces, and how much it lasts.
LEMMA RestIs ==
  ASSUME NEW r \in Seq(Pieces), NEW o \in Nat, o < Len(r)
  PROVE  /\ o + 1 \in DOMAIN r /\ C!From(r, 1 + o) # <<>>
         /\ C!From(r, 1 + o)[1] = r[o + 1]
         /\ C!From(r, 1 + o)[Len(C!From(r, 1 + o))] = r[Len(r)]
  <1> DEFINE k == 1 + o
  <1>1. Len(r) \in Nat /\ k \in 1 .. Len(r) + 1 /\ o + 1 \in DOMAIN r
    OBVIOUS
  <1>2. /\ C!From(r, k) \in Seq(Pieces) /\ Len(C!From(r, k)) = Len(r) + 1 - k
        /\ \A i \in 1 .. Len(r) + 1 - k : C!From(r, k)[i] = r[i + k - 1]
    BY <1>1, FromIs
  <1> DEFINE t == C!From(r, k)
  <1> HIDE DEF t
  <1>3. Len(r) + 1 - k = Len(r) - o /\ Len(r) - o > 0
    BY <1>1
  <1>4. /\ t \in Seq(Pieces) /\ Len(t) = Len(r) - o
        /\ \A i \in 1 .. Len(r) - o : t[i] = r[i + k - 1]
    BY <1>2, <1>3 DEF t
  <1>5. t # <<>>
    BY <1>3, <1>4
  <1>6. t[1] = r[o + 1]
    BY <1>1, <1>3, <1>4
  <1>7. Len(r) - o \in 1 .. Len(r) - o /\ (Len(r) - o) + k - 1 = Len(r)
    BY <1>1, <1>3
  <1>8. t[Len(t)] = r[Len(r)]
    BY <1>4, <1>7
  <1> QED
    BY <1>1, <1>5, <1>6, <1>8 DEF t, k

\* Nothing is left without all of them.
LEMMA RestIsNone ==
  ASSUME NEW r \in Seq(Pieces)
  PROVE  C!From(r, 1 + Len(r)) = <<>>
  <1>1. Len(r) \in Nat /\ 1 + Len(r) \in 1 .. Len(r) + 1
    OBVIOUS
  <1>2. C!From(r, 1 + Len(r)) \in Seq(Pieces) /\ Len(C!From(r, 1 + Len(r))) = Len(r) + 1 - (1 + Len(r))
    BY <1>1, FromIs
  <1>3. Len(C!From(r, 1 + Len(r))) = 0
    BY <1>1, <1>2
  <1> QED
    BY <1>2, <1>3

\* applyAudioQueueBudget leaves the end of the ring too, and of an ordered one no more
\* than the budget.
LEMMA BudgetedIs ==
  ASSUME NEW r \in Seq(Pieces)
  PROVE  /\ \E k \in 1 .. Len(r) + 1 : C!Budgeted(r) = C!From(r, k)
         /\ Spread(r) => C!getBufferedMs(C!Budgeted(r)) <= Budget
  <1> DEFINE b == C!getBufferedMs(r)
             over == C!Minus(b, Budget)
  <1>1. Len(r) \in Nat /\ DOMAIN r = 1 .. Len(r) /\ Budget \in Nat
    BY ConnectionsAssumption
  <1>2. \A i \in DOMAIN r : r[i].stamp \in Int
    BY PieceStamped
  <1>3. r = <<>> \/ (Len(r) > 0 /\ 1 \in DOMAIN r /\ Len(r) \in DOMAIN r)
    BY <1>1
  <1>4. b \in Nat /\ (Len(r) > 0 => b >= r[Len(r)].stamp + 1 - r[1].stamp)
    BY <1>1, <1>2, <1>3 DEF C!getBufferedMs, C!Minus
  <1> HIDE DEF b
  <1>5. over \in Nat /\ over >= b - Budget
    BY <1>1, <1>4 DEF C!Minus
  <1>6. C!Budgeted(r) = C!From(r, 1 + IF over < Len(r) THEN over ELSE Len(r))
    BY DEF C!Budgeted, b
  <1> HIDE DEF over
  <1>7. CASE over < Len(r)
    <2>1. C!Budgeted(r) = C!From(r, 1 + over) /\ 1 + over \in 1 .. Len(r) + 1
      BY <1>1, <1>5, <1>6, <1>7
    <2>2. ASSUME Spread(r)
          PROVE  C!getBufferedMs(C!From(r, 1 + over)) <= Budget
      <3>1. /\ over + 1 \in DOMAIN r /\ C!From(r, 1 + over) # <<>>
            /\ C!From(r, 1 + over)[1] = r[over + 1]
            /\ C!From(r, 1 + over)[Len(C!From(r, 1 + over))] = r[Len(r)]
        BY <1>5, <1>7, RestIs
      <3>2. C!getBufferedMs(C!From(r, 1 + over)) = C!Minus(r[Len(r)].stamp + 1, r[over + 1].stamp)
        BY <3>1 DEF C!getBufferedMs
      <3>3. r[over + 1].stamp - r[1].stamp >= over
        <4>1. CASE over = 0
          BY <1>1, <1>2, <1>7, <4>1
        <4>2. CASE over > 0
          <5>1. 1 \in DOMAIN r /\ 1 < over + 1
            BY <1>1, <1>5, <1>7, <4>2
          <5>2. r[over + 1].stamp - r[1].stamp >= (over + 1) - 1
            BY <2>2, <3>1, <5>1 DEF Spread
          <5> QED
            BY <1>5, <5>2
        <4> QED
          BY <1>5, <4>1, <4>2
      <3> DEFINE last == r[Len(r)].stamp
                 new == r[over + 1].stamp
                 old == r[1].stamp
      <3>4. last \in Int /\ new \in Int /\ old \in Int /\ last + 1 - old <= b
        BY <1>1, <1>2, <1>3, <1>4, <1>5, <1>7, <3>1
      <3>5. new - old >= over
        BY <3>3
      <3> HIDE DEF last, new, old
      <3>6. last + 1 - new <= Budget
        BY <1>1, <1>4, <1>5, <3>4, <3>5
      <3>7. C!Minus(last + 1, new) <= Budget
        BY <1>1, <3>4, <3>6 DEF C!Minus
      <3> QED
        BY <3>2, <3>7 DEF last, new
    <2> QED
      BY <2>1, <2>2
  <1>8. CASE ~(over < Len(r))
    <2>1. C!Budgeted(r) = <<>> /\ C!Budgeted(r) = C!From(r, 1 + Len(r)) /\ 1 + Len(r) \in 1 .. Len(r) + 1
      BY <1>1, <1>6, <1>8, RestIsNone
    <2>2. C!getBufferedMs(<<>>) <= Budget
      BY <1>1 DEF C!getBufferedMs
    <2> QED
      BY <2>1, <2>2
  <1> QED
    BY <1>7, <1>8

\* A delta goes behind what is in the ring.
LEMMA SpreadOn ==
  ASSUME NEW r \in Seq(Pieces), Spread(r), NEW stamp \in Int, NEW c \in Nat, NEW n \in Nat,
         r # <<>> => r[Len(r)].stamp < stamp
  PROVE  Spread(r \o [i \in 1 .. n |-> [stamp |-> stamp + i - 1, came |-> c]])
  <1> DEFINE p == [i \in 1 .. n |-> [stamp |-> stamp + i - 1, came |-> c]]
             t == r \o p
  <1>1. p \in Seq(Pieces) /\ Len(p) = n /\ \A i \in 1 .. n : p[i].stamp = stamp + i - 1
    BY DEF Pieces
  <1> HIDE DEF p
  <1>2. /\ Len(r) \in Nat /\ DOMAIN t = 1 .. Len(r) + n /\ DOMAIN r = 1 .. Len(r)
        /\ \A i \in DOMAIN t : IF i <= Len(r) THEN t[i] = r[i] /\ i \in DOMAIN r
                               ELSE t[i] = p[i - Len(r)] /\ i - Len(r) \in 1 .. n
    <2>0. t \in Seq(Pieces) /\ Len(t) = Len(r) + Len(p)
      BY <1>1, ConcatProperties
    <2>1. /\ Len(r) \in Nat /\ DOMAIN r = 1 .. Len(r)
          /\ t \in Seq(Pieces) /\ Len(t) = Len(r) + Len(p)
      BY <2>0
    <2>2. DOMAIN t = 1 .. Len(r) + n
      BY <1>1, <2>1
    <2>3. \A i \in 1 .. Len(r) + Len(p) : IF i <= Len(r) THEN t[i] = r[i] ELSE t[i] = p[i - Len(r)]
      BY <1>1
    <2> HIDE DEF t
    <2>4. \A i \in 1 .. Len(r) + n : IF i <= Len(r) THEN i \in 1 .. Len(r) ELSE i - Len(r) \in 1 .. n
      BY <2>1
    <2> QED
      BY <1>1, <2>1, <2>2, <2>3, <2>4
  <1> HIDE DEF t
  <1>3. \A i \in DOMAIN r : r[i].stamp \in Int
    BY PieceStamped
  <1> SUFFICES ASSUME NEW i \in DOMAIN t, NEW j \in DOMAIN t, i < j
               PROVE  t[j].stamp - t[i].stamp >= j - i
    BY DEF Spread, t, p
  <1>4. i \in Nat /\ j \in Nat /\ i >= 1
    BY <1>2
  <1>5. CASE j <= Len(r)
    BY <1>2, <1>4, <1>5 DEF Spread
  <1>6. CASE i > Len(r)
    <2>0. j > Len(r)
      BY <1>2, <1>4, <1>6
    <2>1. /\ t[i] = p[i - Len(r)] /\ i - Len(r) \in 1 .. n
          /\ t[j] = p[j - Len(r)] /\ j - Len(r) \in 1 .. n
      BY <1>2, <1>4, <1>6, <2>0
    <2>2. t[i].stamp = stamp + (i - Len(r)) - 1
      BY <1>1, <2>1
    <2>3. t[j].stamp = stamp + (j - Len(r)) - 1
      BY <1>1, <2>1
    <2> QED
      BY <1>2, <1>4, <2>2, <2>3
  <1>7. CASE i <= Len(r) /\ j > Len(r)
    <2>1. t[j].stamp = stamp + (j - Len(r)) - 1 /\ t[i] = r[i] /\ i \in DOMAIN r
      BY <1>1, <1>2, <1>4, <1>7
    <2>2. Len(r) \in DOMAIN r /\ r[Len(r)].stamp < stamp
      BY <1>2, <1>4, <1>7
    <2>3. r[Len(r)].stamp - r[i].stamp >= Len(r) - i
      <3>1. CASE i = Len(r)
        BY <1>2, <1>3, <2>2, <3>1
      <3>2. CASE i < Len(r)
        BY <2>1, <2>2, <3>2 DEF Spread
      <3> QED
        BY <1>2, <1>4, <1>7, <3>1, <3>2
    <2>4. r[Len(r)].stamp \in Int /\ r[i].stamp \in Int
      BY <1>3, <2>1, <2>2
    <2> QED
      BY <1>2, <1>4, <2>1, <2>2, <2>3, <2>4
  <1> QED
    BY <1>2, <1>4, <1>5, <1>6, <1>7

-----------------------------------------------------------------------------
\* The buffer has at most one clip, and what it holds was asked for before now.
LEMMA OneClipIs ==
  ASSUME ClipsInv
  PROVE  clips = <<>> \/ \E c \in Clips : clips = <<c>> /\ c.epoch = epoch /\ c.from + Latency <= clock
  <1>1. clips \in Seq(Clips) /\ Len(clips) \in Nat /\ Len(clips) <= 1
    BY DEF ClipsInv, ClipTypes, OneClip
  <1>2. CASE Len(clips) = 0
    BY <1>1, <1>2
  <1>3. CASE Len(clips) = 1
    <2>1. clips = <<clips[1]>> /\ clips[1] \in Clips /\ 1 \in DOMAIN clips
      BY <1>1, <1>3
    <2>2. clips[1].epoch = epoch /\ clips[1].from + Latency <= clock
      BY <2>1 DEF ClipsInv, OneClip, C!NothingStale
    <2> QED
      BY <2>1, <2>2
  <1> QED
    BY <1>1, <1>2, <1>3

\* An answer is kept unless a later one of its epoch came before it.
LEMMA KeptIs ==
  ASSUME ClipsInv, NEW q \in requests
  PROVE  LET a == [from |-> q.from, epoch |-> q.epoch]
         IN  \E c \in Clips : /\ C!Kept(C!Sorted(a)) = <<c>>
                              /\ c = a \/ (clips = <<c>> /\ c.from > a.from)
                              /\ a.from <= c.from
                              /\ clips # <<>> => clips[1].from <= c.from
  <1> DEFINE a == [from |-> q.from, epoch |-> q.epoch]
  <1>1. a \in Clips /\ a.from = q.from /\ a.from + Latency <= clock /\ a.from \in Nat
    BY DEF ClipsInv, ClipTypes, ClipRequests, Clips
  <1>2. /\ clock \in Nat /\ Latency \in Nat /\ ClipWindow \in Nat /\ MaxBuffer \in Nat /\ StartedAt \in Nat
        /\ ClipWindow + MaxBuffer < StartedAt + Latency
    BY ConnectionsAssumption DEF ClipsInv, ClipTypes
  <1> HIDE DEF a
  <1>3. ASSUME NEW c \in Clips, c.from + Latency <= clock
        PROVE  C!End(c) + MaxBuffer < StartedAt + clock
    BY <1>2, <1>3 DEF C!End, Clips
  <1>4. ASSUME NEW c \in Clips
        PROVE  C!Kept(<<c>>) = <<c>>
    <2> DEFINE S == {i \in DOMAIN <<c>> : i = Len(<<c>>) \/
                       (/\ ~(C!End(<<c>>[i]) + MaxBuffer < StartedAt + clock)
                        /\ ~((Len(<<c>>) + 1 - i) * ClipWindow > MaxBuffer))}
    <2>1. S = {1}
      OBVIOUS
    <2>2. C!Kept(<<c>>) = C!From(<<c>>, C!Least(S))
      BY DEF C!Kept
    <2> HIDE DEF S
    <2>3. C!Least(S) = 1
      BY <2>1, LeastIs
    <2> QED
      BY <2>2, <2>3 DEF C!From
  <1>5. ASSUME NEW c \in Clips, NEW d \in Clips, c.from + Latency <= clock
        PROVE  C!Kept(<<c, d>>) = <<d>>
    <2> DEFINE S == {i \in DOMAIN <<c, d>> : i = Len(<<c, d>>) \/
                       (/\ ~(C!End(<<c, d>>[i]) + MaxBuffer < StartedAt + clock)
                        /\ ~((Len(<<c, d>>) + 1 - i) * ClipWindow > MaxBuffer))}
    <2>1. S = {2}
      <3>1. C!End(c) + MaxBuffer < StartedAt + clock
        BY <1>3, <1>5
      <3> QED
        BY <3>1
    <2>2. C!Kept(<<c, d>>) = C!From(<<c, d>>, C!Least(S))
      BY DEF C!Kept
    <2> HIDE DEF S
    <2>3. C!Least(S) = 2
      BY <2>1, LeastIs
    <2> QED
      BY <2>2, <2>3 DEF C!From
  <1>6. CASE clips = <<>>
    <2> DEFINE S == {i \in DOMAIN clips : clips[i].from > a.from} \cup {Len(clips) + 1}
    <2>1. S = {1}
      BY <1>6
    <2>2. C!Sorted(a) = SubSeq(clips, 1, C!Least(S) - 1) \o <<a>> \o C!From(clips, C!Least(S))
      BY DEF C!Sorted
    <2> HIDE DEF S
    <2>3. C!Least(S) = 1
      BY <2>1, LeastIs
    <2>4. C!Sorted(a) = <<a>>
      <3>1. Len(clips) = 0
        BY <1>6
      <3>2. C!Sorted(a) = SubSeq(<<>>, 1, 0) \o <<a>> \o SubSeq(<<>>, 1, 0)
        BY <1>6, <2>2, <2>3, <3>1 DEF C!From
      <3> QED
        BY <3>2, PairIs
    <2> QED
      BY <1>1, <1>4, <1>6, <2>4 DEF a
  <1>7. CASE \E c \in Clips : clips = <<c>> /\ c.epoch = epoch /\ c.from + Latency <= clock
    <2>1. PICK c \in Clips : clips = <<c>> /\ c.epoch = epoch /\ c.from + Latency <= clock
      BY <1>7
    <2> DEFINE S == {i \in DOMAIN clips : clips[i].from > a.from} \cup {Len(clips) + 1}
    <2>2. C!Sorted(a) = SubSeq(clips, 1, C!Least(S) - 1) \o <<a>> \o C!From(clips, C!Least(S))
      BY DEF C!Sorted
    <2>3. clips[1] = c /\ c.from \in Nat
      BY <2>1 DEF Clips
    <2>4. CASE c.from > a.from
      <3>1. S = {1, 2}
        BY <2>1, <2>4
      <3> HIDE DEF S
      <3>2. C!Least(S) = 1
        BY <3>1, LeastIs
      <3>3. C!Sorted(a) = <<a, c>>
        <4>1. C!Sorted(a) = SubSeq(<<c>>, 1, 0) \o <<a>> \o SubSeq(<<c>>, 1, 1)
          BY <2>1, <2>2, <3>2 DEF C!From
        <4> QED
          BY <4>1, PairIs, ZenonT(60)
      <3>4. C!Kept(C!Sorted(a)) = <<c>>
        BY <1>1, <1>5, <3>3
      <3> QED
        BY <1>1, <2>1, <2>3, <2>4, <3>4 DEF a
    <2>5. CASE ~(c.from > a.from)
      <3>1. S = {2}
        BY <2>1, <2>5
      <3> HIDE DEF S
      <3>2. C!Least(S) = 2
        BY <3>1, LeastIs
      <3>3. C!Sorted(a) = <<c, a>>
        <4>1. C!Sorted(a) = SubSeq(<<c>>, 1, 1) \o <<a>> \o SubSeq(<<c>>, 2, 1)
          BY <2>1, <2>2, <3>2 DEF C!From
        <4> QED
          BY <4>1, PairIs, ZenonT(60)
      <3>4. C!Kept(C!Sorted(a)) = <<a>>
        BY <1>1, <1>5, <2>1, <3>3
      <3> QED
        BY <1>1, <2>1, <2>3, <2>5, <3>4 DEF a
    <2> QED
      BY <2>4, <2>5
  <1> QED
    BY <1>6, <1>7, OneClipIs

\* Nothing waits and no request is under way at first.
LEMMA ClipsInitHolds ==
  ASSUME C!ClipsInit
  PROVE  ClipsInv
  <1>1. /\ clock = Latency /\ epoch = 0 /\ clips = <<>> /\ ring = <<>> /\ requests = {}
        /\ lastFrame = Nothing /\ frame = Nothing /\ inFlight = 0
    BY DEF C!ClipsInit
  <1>2. /\ <<>> \in Seq(Clips) /\ <<>> \in Seq(Pieces) /\ Len(<<>>) = 0 /\ DOMAIN <<>> = {}
        /\ IsFiniteSet({}) /\ Cardinality({}) = 0
    BY FS_EmptySet
  <1>3. ClipTypes /\ OneClip
    BY <1>1, <1>2, ConnectionsAssumption DEF ClipTypes, OneClip
  <1>4. Forward /\ C!NothingStale /\ Spread(ring)
    BY <1>1, <1>2 DEF Forward, C!NothingStale, Spread
  <1>5. C!Cardinality(requests) = 0
    BY <1>1, <1>2 DEF C!Cardinality, Cardinality
  <1>6. C!InFlightIsExact
    BY <1>1, <1>5, ConnectionsAssumption DEF C!InFlightIsExact
  <1>7. C!QueueBounded
    BY <1>1, <1>2, ConnectionsAssumption DEF C!QueueBounded, C!getBufferedMs
  <1> QED
    BY <1>3, <1>4, <1>6, <1>7 DEF ClipsInv

\* The instance's Cardinality is that of the library.
LEMMA ClipsCardinality ==
  ASSUME NEW S
  PROVE  C!Cardinality(S) = Cardinality(S)
  BY DEF C!Cardinality, Cardinality

RequestTypes ==
    /\ requests \subseteq ClipRequests /\ IsFiniteSet(requests)
    /\ \A q \in requests : q.from + Latency <= clock

\* A request has a number of its own, and is counted.
LEMMA AskedCounts ==
  ASSUME ClipsInv, NEW r, C!maybeGenerateClip(r), clock' = clock
  PROVE  RequestTypes' /\ C!InFlightIsExact'
  <1>1. /\ requests \subseteq ClipRequests /\ IsFiniteSet(requests)
        /\ \A q \in requests : q.from + Latency <= clock
        /\ clock \in Nat /\ clock >= Latency /\ epoch \in Nat
        /\ Latency \in Nat /\ MaxInFlight \in Nat
    BY ConnectionsAssumption DEF ClipsInv, ClipTypes
  <1>2. inFlight = Cardinality(requests) /\ inFlight <= MaxInFlight /\ inFlight \in Nat
    BY <1>1, ClipsCardinality, FS_CardinalityType DEF ClipsInv, C!InFlightIsExact
  <1>3. CASE ~C!MayGenerate
    <2>1. UNCHANGED <<inFlight, requests>>
      BY <1>3 DEF C!maybeGenerateClip
    <2> QED
      BY <1>1, <1>2, <2>1, ClipsCardinality DEF RequestTypes, C!InFlightIsExact
  <1>4. CASE C!MayGenerate
    <2> DEFINE used == {q.n : q \in requests}
               free == 1 .. (MaxInFlight + 1) \ used
               n == C!Least(free)
               new == [n |-> n, epoch |-> epoch, from |-> clock - Latency]
    <2>1. inFlight < MaxInFlight /\ inFlight' = inFlight + 1 /\ requests' = requests \cup {new}
      BY <1>4 DEF C!maybeGenerateClip, C!MayGenerate
    <2>2. free # {}
      <3>1. [q \in requests |-> q.n] \in Surjection(requests, used)
        BY DEF Surjection
      <3>2. IsFiniteSet(used) /\ Cardinality(used) <= Cardinality(requests) /\ Cardinality(used) \in Nat
        BY <1>1, <3>1, FS_Surjection, FS_CardinalityType
      <3>3. IsFiniteSet(1 .. (MaxInFlight + 1)) /\ Cardinality(1 .. (MaxInFlight + 1)) = MaxInFlight + 1
        BY <1>1, FS_Interval
      <3>4. ASSUME free = {}
            PROVE  FALSE
        <4>1. 1 .. (MaxInFlight + 1) \in SUBSET used
          BY <3>4
        <4> HIDE DEF used
        <4>2. Cardinality(1 .. (MaxInFlight + 1)) <= Cardinality(used)
          BY <3>2, <4>1, FS_Subset
        <4> QED
          BY <1>1, <1>2, <3>2, <3>3, <4>2
      <3> QED
        BY <3>4
    <2>3. free \in SUBSET Nat
      BY <1>1
    <2>4. n \in free
      BY <2>2, <2>3, LeastExists
    <2> HIDE DEF n
    <2>5. n \in 1 .. MaxInFlight + 1 /\ \A q \in requests : q.n # n
      BY <2>4
    <2>6. new \in ClipRequests /\ new.n = n /\ new.from + Latency <= clock
      BY <1>1, <2>5 DEF ClipRequests
    <2> HIDE DEF new, used, free
    <2>7. new \notin requests
      BY <2>5, <2>6
    <2>8. IsFiniteSet(requests') /\ Cardinality(requests') = Cardinality(requests) + 1
      BY <1>1, <2>1, <2>7, FS_AddElement
    <2>9. inFlight' = Cardinality(requests') /\ inFlight' <= MaxInFlight
      BY <1>1, <1>2, <2>1, <2>8
    <2>10. RequestTypes'
      BY <1>1, <2>1, <2>6, <2>8 DEF RequestTypes
    <2>11. C!Cardinality(requests') = Cardinality(requests')
      BY ClipsCardinality
    <2> QED
      BY <2>9, <2>10, <2>11 DEF C!InFlightIsExact
  <1> QED
    BY <1>3, <1>4

\* An answer, of whatever kind, is counted.
LEMMA AnsweredCounts ==
  ASSUME ClipsInv, NEW q \in requests, C!Answered(q), clock' = clock
  PROVE  RequestTypes' /\ C!InFlightIsExact'
  <1>1. /\ requests \subseteq ClipRequests /\ IsFiniteSet(requests)
        /\ \A p \in requests : p.from + Latency <= clock
        /\ MaxInFlight \in Nat
    BY ConnectionsAssumption DEF ClipsInv, ClipTypes
  <1>2. inFlight = Cardinality(requests) /\ inFlight <= MaxInFlight /\ inFlight \in Nat
    BY <1>1, ClipsCardinality, FS_CardinalityType DEF ClipsInv, C!InFlightIsExact
  <1>3. inFlight' = C!Minus(inFlight, 1) /\ requests' = requests \ {q}
    BY DEF C!Answered
  <1>4. IsFiniteSet(requests') /\ Cardinality(requests') = Cardinality(requests) - 1
    BY <1>1, <1>3, FS_RemoveElement
  <1>5. Cardinality(requests') \in Nat
    BY <1>4, FS_CardinalityType
  <1>6. inFlight' = Cardinality(requests') /\ inFlight' <= MaxInFlight
    BY <1>1, <1>2, <1>3, <1>4, <1>5 DEF C!Minus
  <1>7. C!Cardinality(requests') = Cardinality(requests')
    BY ClipsCardinality
  <1> QED
    BY <1>1, <1>3, <1>4, <1>6, <1>7 DEF RequestTypes, C!InFlightIsExact

\* What is in the ring is in order, and no more than the budget.
RingKept == ring \in Seq(Pieces) /\ (inOrder => Spread(ring)) /\ C!QueueBounded

\* A delta is in the ring, cut to the budget, and may ask for a clip.
LEMMA IngestKeepsRing ==
  ASSUME ClipsInv, C!ingest
  PROVE  RingKept'
  <1>1. PICK stamp \in C!Stamps, n \in 1 .. MaxPieces :
           LET pieces == [i \in 1 .. n |-> [stamp |-> stamp + i - 1, came |-> clock]]
           IN  /\ ring' = C!Budgeted(C!Trimmed(ring \o pieces))
               /\ inOrder' = (inOrder /\ (ring # <<>> => ring[Len(ring)].stamp < stamp))
    BY DEF C!ingest
  <1> DEFINE p == [i \in 1 .. n |-> [stamp |-> stamp + i - 1, came |-> clock]]
             all == ring \o p
             kept == C!Trimmed(all)
  <1>2. /\ ring \in Seq(Pieces) /\ clock \in Nat /\ StartedAt \in Nat
        /\ inOrder => Spread(ring)
    BY ConnectionsAssumption DEF ClipsInv, ClipTypes
  <1>3. stamp \in Int
    BY <1>2 DEF C!Stamps
  <1>4. n \in Nat /\ n >= 1
    OBVIOUS
  <1>5. p \in Seq(Pieces) /\ Len(p) = n
    BY <1>2, <1>3, <1>4 DEF Pieces
  <1>6. all \in Seq(Pieces) /\ Len(all) > 0
    <2>1. all \in Seq(Pieces) /\ Len(all) = Len(ring) + Len(p) /\ Len(ring) \in Nat
      BY <1>2, <1>5, ConcatProperties, LenProperties
    <2> QED
      BY <1>4, <1>5, <2>1
  <1>7. inOrder' => Spread(all)
    BY <1>1, <1>2, <1>3, <1>4, SpreadOn
  <1>8. ring' = C!Budgeted(kept)
    BY <1>1
  <1> HIDE DEF p, all
  <1>9. PICK k \in 1 .. Len(all) + 1 : kept = C!From(all, k)
    BY <1>6, TrimmedIs
  <1>10. kept \in Seq(Pieces) /\ (inOrder' => Spread(kept))
    BY <1>6, <1>7, <1>9, FromIs, FromSpread
  <1> HIDE DEF kept
  <1>11. PICK j \in 1 .. Len(kept) + 1 : ring' = C!From(kept, j)
    BY <1>8, <1>10, BudgetedIs
  <1>12. ring' \in Seq(Pieces) /\ (inOrder' => Spread(ring'))
    BY <1>10, <1>11, FromIs, FromSpread
  <1>13. inOrder' => C!getBufferedMs(ring') <= Budget
    BY <1>8, <1>10, BudgetedIs
  <1> QED
    BY <1>12, <1>13 DEF RingKept, C!QueueBounded

\* The clips as they are.
LEMMA ClipsStay ==
  ASSUME ClipsInv, UNCHANGED <<clips, epoch, lastFrame>>, frame' = Nothing, clock' \in Nat,
         clock <= clock'
  PROVE  OneClip' /\ Forward' /\ C!NothingStale'
  <1>1. clips \in Seq(Clips) /\ clock \in Nat /\ Latency \in Nat
    BY ConnectionsAssumption DEF ClipsInv, ClipTypes
  <1>2. \A i \in DOMAIN clips : clips[i].from \in Nat
    <2>1. \A i \in DOMAIN clips : clips[i] \in Clips
      BY <1>1
    <2> QED
      BY <2>1 DEF Clips
  <1>3. OneClip'
    BY <1>1, <1>2 DEF ClipsInv, OneClip
  <1> QED
    BY <1>3 DEF ClipsInv, Forward, C!NothingStale

\* The parts, put together.
LEMMA ClipsTogether ==
  ASSUME RequestTypes', C!InFlightIsExact', RingKept', OneClip', Forward', C!NothingStale',
         clock' \in Nat, clock' >= Latency, epoch' \in Nat, clips' \in Seq(Clips)
  PROVE  ClipsInv'
  BY DEF RequestTypes, RingKept, ClipsInv, ClipTypes

\* A command begins a new epoch, with nothing in it.
LEMMA CommandPreserves ==
  ASSUME ClipsInv, NEW n \in {1, 2}, C!Invalidates(n), C!Clears,
         UNCHANGED <<clock, lastFrame, inFlight, requests>>
  PROVE  ClipsInv'
  <1>1. /\ epoch' = epoch + n /\ clips' = <<>> /\ ring' = <<>> /\ inOrder' = TRUE /\ frame' = Nothing
        /\ epoch \in Nat /\ clock \in Nat /\ clock >= Latency
    BY DEF C!Invalidates, C!Clears, C!Silent, ClipsInv, ClipTypes
  <1>2. <<>> \in Seq(Clips) /\ <<>> \in Seq(Pieces) /\ Len(<<>>) = 0 /\ DOMAIN <<>> = {}
    OBVIOUS
  <1>3. RequestTypes' /\ C!InFlightIsExact'
    BY ClipsCardinality DEF ClipsInv, ClipTypes, RequestTypes, C!InFlightIsExact
  <1>4. RingKept'
    BY <1>1, <1>2, ConnectionsAssumption DEF RingKept, Spread, C!QueueBounded, C!getBufferedMs
  <1>5. OneClip' /\ C!NothingStale'
    BY <1>1, <1>2 DEF OneClip, C!NothingStale
  <1>6. Forward'
    <2>1. lastFrame # Nothing => lastFrame \in Clips /\ lastFrame.epoch <= epoch
      BY DEF ClipsInv, Forward
    <2>2. lastFrame # Nothing => lastFrame.epoch \in Nat
      BY <2>1 DEF Clips
    <2>3. lastFrame # Nothing => lastFrame.epoch < epoch'
      BY <1>1, <2>1, <2>2
    <2> QED
      BY <1>1, <2>1, <2>2, <2>3 DEF Forward
  <1>7. epoch' \in Nat
    BY <1>1
  <1> QED
    BY <1>1, <1>2, <1>3, <1>4, <1>5, <1>6, <1>7, ClipsTogether

\* What the timer shows, and keeps: a clip that the buffer has, or the last frame once
\* more when it has none for the time.
LEMMA TickShows ==
  ASSUME C!videoTick
  PROVE  /\ running /\ ~isPaused /\ lastFrame' = frame'
         /\ UNCHANGED <<clock, running, isPaused, audioClock, ring, inOrder, epoch, clips,
                        inFlight, requests>>
         /\ \/ \E i \in DOMAIN clips : frame' = clips[i]
            \/ C!ClipsAt(audioClock) = {} /\ UNCHANGED lastFrame
  <1>1. C!ClipsAt(audioClock) \subseteq {clips[i] : i \in DOMAIN clips}
    BY DEF C!ClipsAt
  <1>2. lastFrame' \in IF C!ClipsAt(audioClock) # {} THEN C!ClipsAt(audioClock) ELSE {lastFrame}
    BY DEF C!videoTick
  <1>3. /\ running /\ ~isPaused /\ lastFrame' = frame'
        /\ UNCHANGED <<clock, running, isPaused, audioClock, ring, inOrder, epoch, clips,
                       inFlight, requests>>
    BY DEF C!videoTick
  <1>4. CASE C!ClipsAt(audioClock) # {}
    <2>1. lastFrame' \in {clips[i] : i \in DOMAIN clips}
      BY <1>1, <1>2, <1>4
    <2> QED
      BY <1>3, <2>1
  <1>5. CASE C!ClipsAt(audioClock) = {}
    BY <1>2, <1>3, <1>5
  <1> QED
    BY <1>4, <1>5

\* Audio, answers, the timer and the commands.
LEMMA ClipsPreserves ==
  ASSUME ClipsInv, [C!ClipsNext]_(C!clipVars)
  PROVE  ClipsInv'
  <1>0. /\ clock \in Nat /\ clock >= Latency /\ epoch \in Nat /\ clips \in Seq(Clips)
        /\ Latency \in Nat /\ RequestTypes /\ RingKept /\ C!InFlightIsExact
    BY ConnectionsAssumption DEF ClipsInv, ClipTypes, RequestTypes, RingKept
  <1>1. CASE C!Tick
    <2>1. /\ clock' = clock + 1 /\ frame' = Nothing
          /\ UNCHANGED <<ring, inOrder, epoch, clips, lastFrame, inFlight, requests>>
      BY <1>1 DEF C!Tick, C!Silent
    <2>2. RequestTypes'
      <3>1. \A q \in requests : q.from \in Nat /\ q.from + Latency <= clock
        BY <1>0 DEF RequestTypes, ClipRequests
      <3> QED
        BY <1>0, <2>1, <3>1 DEF RequestTypes
    <2>3. RingKept' /\ C!InFlightIsExact'
      BY <1>0, <2>1, ClipsCardinality DEF RingKept, C!QueueBounded, C!InFlightIsExact
    <2>4. clock' \in Nat /\ clock <= clock' /\ clock' >= Latency
      BY <1>0, <2>1
    <2> QED
      BY <1>0, <2>1, <2>2, <2>3, <2>4, ClipsStay, ClipsTogether
  <1>2. CASE C!ingest
    <2>1. /\ frame' = Nothing /\ UNCHANGED <<clock, epoch, clips, lastFrame>>
          /\ \E r : C!maybeGenerateClip(r)
      BY <1>2 DEF C!ingest
    <2>2. RequestTypes' /\ C!InFlightIsExact'
      BY <2>1, AskedCounts
    <2>3. RingKept'
      BY <1>2, IngestKeepsRing
    <2> QED
      BY <1>0, <2>1, <2>2, <2>3, ClipsStay, ClipsTogether
  <1>3. CASE \E q \in requests : C!stale(q) \/ C!fails(q)
    <2>1. PICK q \in requests : C!stale(q) \/ C!fails(q)
      BY <1>3
    <2>2. /\ C!Answered(q) /\ frame' = Nothing
          /\ UNCHANGED <<clock, ring, inOrder, epoch, clips, lastFrame>>
      BY <2>1 DEF C!stale, C!fails, C!Silent
    <2>3. RequestTypes' /\ C!InFlightIsExact'
      BY <2>2, AnsweredCounts
    <2>4. RingKept'
      BY <1>0, <2>2 DEF RingKept, C!QueueBounded
    <2> QED
      BY <1>0, <2>2, <2>3, <2>4, ClipsStay, ClipsTogether
  <1>4. CASE \E q \in requests : C!enqueueClip(q)
    <2>1. PICK q \in requests : C!enqueueClip(q)
      BY <1>4
    <2> DEFINE a == [from |-> q.from, epoch |-> q.epoch]
    <2>2. /\ q.epoch = epoch /\ C!Answered(q) /\ frame' = Nothing
          /\ clips' = C!Kept(C!Sorted(a))
          /\ UNCHANGED <<clock, ring, inOrder, epoch, lastFrame>>
      BY <2>1 DEF C!enqueueClip, C!Current, C!Silent
    <2>3. RequestTypes' /\ C!InFlightIsExact'
      BY <2>2, AnsweredCounts
    <2>4. RingKept'
      BY <1>0, <2>2 DEF RingKept, C!QueueBounded
    <2>5. PICK c \in Clips : /\ C!Kept(C!Sorted(a)) = <<c>>
                             /\ c = a \/ (clips = <<c>> /\ c.from > a.from)
                             /\ a.from <= c.from
                             /\ clips # <<>> => clips[1].from <= c.from
      BY KeptIs
    <2>6. clips' = <<c>> /\ <<c>> \in Seq(Clips) /\ Len(<<c>>) = 1 /\ DOMAIN <<c>> = {1} /\ <<c>>[1] = c
      BY <2>2, <2>5
    <2>7. c.epoch = epoch /\ c.from + Latency <= clock
      <3>1. CASE c = a
        BY <1>0, <2>2, <3>1 DEF RequestTypes
      <3>2. CASE clips = <<c>>
        <4>1. 1 \in DOMAIN clips /\ clips[1] = c
          BY <2>6, <3>2
        <4> QED
          BY <4>1 DEF ClipsInv, OneClip, C!NothingStale
      <3> QED
        BY <2>5, <3>1, <3>2
    <2>8. OneClip' /\ C!NothingStale'
      <3>1. OneClip'
        <4>1. Len(clips') = 1 /\ \A i \in DOMAIN clips' : clips'[i] = c
          BY <2>6
        <4>2. c.from + Latency <= clock'
          BY <2>2, <2>7
        <4> QED
          BY <4>1, <4>2 DEF OneClip
      <3>2. \A i \in DOMAIN clips' : clips'[i].epoch = epoch'
        BY <2>2, <2>6, <2>7
      <3>3. C!NothingStale'
        BY <2>2, <3>2 DEF C!NothingStale
      <3> QED
        BY <3>1, <3>3
    <2>9. Forward'
      <3> SUFFICES ASSUME lastFrame # Nothing
                   PROVE  /\ lastFrame \in Clips /\ lastFrame.epoch <= epoch
                          /\ lastFrame.epoch = epoch => Len(clips') = 1 /\ lastFrame.from <= clips'[1].from
        BY <2>2 DEF Forward
      <3>1. lastFrame \in Clips /\ lastFrame.epoch <= epoch
        BY DEF ClipsInv, Forward
      <3>2. ASSUME lastFrame.epoch = epoch
            PROVE  lastFrame.from <= c.from
        <4>1. Len(clips) = 1 /\ lastFrame.from <= clips[1].from
          BY <3>2 DEF ClipsInv, Forward
        <4>2. clips # <<>> /\ clips[1] \in Clips
          <5>1. clips # <<>>
            BY <4>1, Len(<<>>) = 0
          <5>2. PICK d \in Clips : clips = <<d>> /\ d.epoch = epoch
            BY <5>1, OneClipIs
          <5> QED
            BY <5>1, <5>2
        <4>3. lastFrame.from \in Nat /\ clips[1].from \in Nat /\ c.from \in Nat
          BY <3>1, <4>2 DEF Clips
        <4> QED
          BY <2>5, <4>1, <4>2, <4>3
      <3> QED
        BY <2>6, <3>1, <3>2
    <2> QED
      BY <1>0, <2>2, <2>3, <2>4, <2>6, <2>8, <2>9, ClipsTogether
  <1>5. CASE C!videoTick
    <2>1. /\ running /\ ~isPaused /\ lastFrame' = frame'
          /\ UNCHANGED <<clock, running, isPaused, audioClock, ring, inOrder, epoch, clips,
                         inFlight, requests>>
          /\ \/ \E i \in DOMAIN clips : frame' = clips[i]
             \/ C!ClipsAt(audioClock) = {} /\ UNCHANGED lastFrame
      BY <1>5, TickShows
    <2>2. RequestTypes' /\ RingKept' /\ C!InFlightIsExact'
      BY <1>0, <2>1, ClipsCardinality DEF RequestTypes, RingKept, C!QueueBounded, C!InFlightIsExact
    <2>3. CASE C!ClipsAt(audioClock) = {} /\ UNCHANGED lastFrame
      <3>1. OneClip' /\ Forward'
        BY <2>1, <2>3 DEF ClipsInv, OneClip, Forward
      <3>2. C!ClipsAt(audioClock)' = {}
        BY <2>1, <2>3 DEF C!ClipsAt, C!End
      <3>3. C!NothingStale'
        BY <2>1, <3>2 DEF ClipsInv, C!NothingStale
      <3> QED
        BY <1>0, <2>1, <2>2, <3>1, <3>3, ClipsTogether
    <2>4. CASE \E i \in DOMAIN clips : frame' = clips[i]
      <3>1. PICK c \in Clips : clips = <<c>> /\ c.epoch = epoch
        <4>1. clips # <<>>
          BY <2>4
        <4> QED
          BY <4>1, OneClipIs
      <3>2. Len(clips) = 1 /\ DOMAIN clips = {1} /\ clips[1] = c
        BY <3>1
      <3>3. frame' = c /\ lastFrame' = c
        BY <2>1, <2>4, <3>2
      <3>4. OneClip'
        BY <2>1 DEF ClipsInv, OneClip
      <3>5. C!NothingStale'
        BY <2>1, <3>1, <3>2, <3>3 DEF ClipsInv, C!NothingStale
      <3>6. Forward'
        <4>1. c.from \in Nat /\ c.epoch \in Nat
          BY DEF Clips
        <4> QED
          BY <2>1, <3>1, <3>2, <3>3, <4>1 DEF Forward
      <3> QED
        BY <1>0, <2>1, <2>2, <3>4, <3>5, <3>6, ClipsTogether
    <2> QED
      BY <2>1, <2>3, <2>4
  <1>6. CASE C!pause \/ C!resume \/ C!interrupt \/ C!stop
    <2>1. \E n \in {1, 2} : C!Invalidates(n)
      BY <1>6 DEF C!pause, C!resume, C!interrupt, C!stop
    <2>2. C!Clears /\ UNCHANGED <<clock, lastFrame, inFlight, requests>>
      BY <1>6 DEF C!pause, C!resume, C!interrupt, C!stop
    <2> QED
      BY <2>1, <2>2, CommandPreserves
  <1>7. CASE UNCHANGED C!clipVars
    <2>1. ClipTypes' /\ OneClip' /\ Forward' /\ C!InFlightIsExact'
      BY <1>7, ClipsCardinality
      DEF C!clipVars, ClipsInv, ClipTypes, OneClip, Forward, C!InFlightIsExact
    <2>2. C!NothingStale'
      BY <1>7 DEF C!clipVars, ClipsInv, C!NothingStale, C!ClipsAt, C!End
    <2> QED
      BY <1>7, <2>1, <2>2 DEF C!clipVars, ClipsInv, C!QueueBounded
  <1> QED
    BY <1>1, <1>2, <1>3, <1>4, <1>5, <1>6, <1>7 DEF C!ClipsNext

\* So the clips' invariant holds in every reachable state.
LEMMA ClipsHold ==
  C!ClipsSpec => []ClipsInv
  <1>1. C!ClipsInit => ClipsInv
    BY ClipsInitHolds
  <1>2. ClipsInv /\ [C!ClipsNext]_(C!clipVars) => ClipsInv'
    BY ClipsPreserves
  <1> QED
    BY <1>1, <1>2, PTL DEF C!ClipsSpec

\* A frame that is shown is the last one, or of the one clip there is, which is of the
\* epoch, and no earlier than the last frame if that is too.
LEMMA ShownForward ==
  ASSUME ClipsInv, [C!ClipsNext]_(C!clipVars), frame' # Nothing, lastFrame # Nothing,
         ~UNCHANGED C!clipVars
  PROVE  \/ frame'.epoch > lastFrame.epoch
         \/ frame'.epoch = lastFrame.epoch /\ frame'.from >= lastFrame.from
  <1>1. C!videoTick
    BY DEF C!ClipsNext, C!Tick, C!ingest, C!pause, C!resume, C!interrupt, C!stop, C!stale,
           C!enqueueClip, C!fails, C!Clears, C!Silent
  <1>2. lastFrame \in Clips /\ lastFrame.epoch <= epoch
    BY DEF ClipsInv, Forward
  <1>3. lastFrame.from \in Nat /\ lastFrame.epoch \in Nat /\ epoch \in Nat
    BY <1>2 DEF Clips, ClipsInv, ClipTypes
  <1>4. CASE UNCHANGED lastFrame
    BY <1>1, <1>3, <1>4, TickShows
  <1>5. CASE \E i \in DOMAIN clips : frame' = clips[i]
    <2>1. PICK i \in DOMAIN clips : frame' = clips[i]
      BY <1>5
    <2>2. PICK c \in Clips : clips = <<c>> /\ c.epoch = epoch
      <3>1. clips # <<>>
        BY <2>1
      <3> QED
        BY <3>1, OneClipIs
    <2>3. DOMAIN clips = {1} /\ clips[1] = c
      BY <2>2
    <2>4. frame' = c
      BY <2>1, <2>3
    <2>5. c.from \in Nat
      BY DEF Clips
    <2>6. lastFrame.epoch = epoch => lastFrame.from <= c.from
      BY <2>2, <2>3 DEF ClipsInv, Forward
    <2> QED
      BY <1>2, <1>3, <2>2, <2>4, <2>5, <2>6
  <1> QED
    BY <1>1, <1>4, <1>5, TickShows

-----------------------------------------------------------------------------
(* The pages that look on                                                  *)

PageStates == {"none", "open", "closing", "closed"}

\* EverybodyIsTold is inductive once the sockets have their states.
HubInv ==
    /\ page \in [Pages -> PageStates]
    /\ entry \subseteq Pages
    /\ DOMAIN seen = Pages
    /\ H!EverybodyIsTold

\* No page is there at first.
LEMMA HubInitHolds ==
  ASSUME H!HubInit
  PROVE  HubInv
  BY DEF H!HubInit, HubInv, PageStates, H!EverybodyIsTold

\* A broadcast reaches every page that is open.
LEMMA BroadcastHolds ==
  ASSUME HubInv, NEW value, H!broadcast(value), UNCHANGED <<page, entry>>
  PROVE  HubInv'
  <1>1. ASSUME NEW w \in Pages, page[w] = "open"
        PROVE  w \in entry /\ seen'[w] = mode'
    BY <1>1 DEF HubInv, H!EverybodyIsTold, H!broadcast
  <1>2. DOMAIN seen' = Pages
    BY DEF H!broadcast
  <1> QED
    BY <1>1, <1>2 DEF HubInv, H!EverybodyIsTold

\* Pages come, leave and are closed, with the meeting or without, and each open one has
\* been told what was said last.
LEMMA HubPreserves ==
  ASSUME HubInv, [H!HubNext]_(H!hubVars)
  PROVE  HubInv'
  <1>1. CASE \E w \in Pages : H!connection(w)
    BY <1>1 DEF H!connection, HubInv, PageStates, H!EverybodyIsTold
  <1>2. CASE \E w \in Pages : H!handleMessage(w)
    BY <1>2, BroadcastHolds DEF H!handleMessage
  <1>3. CASE \E w \in Pages : H!pageLeaves(w)
    BY <1>3 DEF H!pageLeaves, HubInv, PageStates, H!EverybodyIsTold
  <1>4. CASE \E w \in Pages : H!closed(w)
    BY <1>4 DEF H!closed, H!removeSocket, HubInv, PageStates, H!EverybodyIsTold
  <1>5. CASE H!publishActivityMode
    BY <1>5, BroadcastHolds DEF H!publishActivityMode
  <1>6. CASE H!closeMeeting
    BY <1>6 DEF H!closeMeeting, HubInv, PageStates, H!EverybodyIsTold
  <1>7. CASE H!interviewEnds \/ UNCHANGED H!hubVars
    BY <1>7 DEF H!interviewEnds, H!hubVars, HubInv, PageStates, H!EverybodyIsTold
  <1> QED
    BY <1>1, <1>2, <1>3, <1>4, <1>5, <1>6, <1>7 DEF H!HubNext

\* So every page that is open is told, in every reachable state.
LEMMA HubHolds == H!HubSpec => []HubInv
  <1>1. H!HubInit => HubInv
    BY HubInitHolds
  <1>2. HubInv /\ [H!HubNext]_(H!hubVars) => HubInv'
    BY HubPreserves
  <1> QED
    BY <1>1, <1>2, PTL DEF H!HubSpec

-----------------------------------------------------------------------------
(* The whole                                                               *)

\* The parts begin as they do by themselves.
LEMMA PartsBegin ==
  ASSUME ConnectionsInit
  PROVE  /\ RecordingInit /\ A2FInit /\ G!GpuInit /\ R!ClientInit /\ V!RuntimeInit
         /\ C!ClipsInit /\ H!HubInit
  BY DEF ConnectionsInit

\* A step of the whole is a step of each part or leaves it as it is.
LEMMA StepsOfTheParts ==
  ASSUME [ConnectionsNext]_allParts
  PROVE  /\ [RecordingNext]_recordedVars /\ [A2FNext]_a2fVars
         /\ [G!GpuNext]_(G!gpuVars) /\ [R!ClientNext]_(R!clientVars)
         /\ [V!RuntimeNext]_(V!runtimeVars) /\ [C!ClipsNext]_(C!clipVars)
         /\ [H!HubNext]_(H!hubVars)
  <1> DEFINE Still == /\ gpuVars' = gpuVars => UNCHANGED G!gpuVars
                      /\ clientVars' = clientVars => UNCHANGED R!clientVars
                      /\ runtimeVars' = runtimeVars => UNCHANGED V!runtimeVars
                      /\ clipVars' = clipVars => UNCHANGED C!clipVars
                      /\ hubVars' = hubVars => UNCHANGED H!hubVars
  <1>1. Still
    BY DEF gpuVars, G!gpuVars, clientVars, R!clientVars, runtimeVars, V!runtimeVars, V!histories,
           clipVars, C!clipVars, hubVars, H!hubVars
  <1> HIDE DEF Still
  <1>2. CASE RecordingStep
    <2>1. InRecording
      BY <1>2 DEF RecordingStep
    <2>2. RecordingNext
      BY <1>2 DEF RecordingStep, RecordingNext
    <2> QED
      BY <1>1, <2>1, <2>2 DEF InRecording, Still
  <1>3. CASE RedisStep
    <2>1. InRedis
      BY <1>3 DEF RedisStep
    <2>2. R!ClientNext
      BY <1>3 DEF RedisStep, R!ClientNext
    <2> QED
      BY <1>1, <2>1, <2>2 DEF InRedis, Still
  <1>4. CASE GpuStep
    <2>1. InGpu
      BY <1>4 DEF GpuStep
    <2>2. G!GpuNext
      BY <1>4 DEF GpuStep, G!GpuNext
    <2> QED
      BY <1>1, <2>1, <2>2 DEF InGpu, Still
  <1>5. CASE RuntimeStep
    <2>1. InRuntime
      BY <1>5 DEF RuntimeStep
    <2>2. V!RuntimeNext
      BY <1>5 DEF RuntimeStep, V!RuntimeNext
    <2> QED
      BY <1>1, <2>1, <2>2 DEF InRuntime, Still
  <1>6. CASE ClipStep
    <2>1. InClips
      BY <1>6 DEF ClipStep
    <2>2. C!ClipsNext
      BY <1>6 DEF ClipStep, C!ClipsNext
    <2> QED
      BY <1>1, <2>1, <2>2 DEF InClips, Still
  <1>7. CASE A2FStep
    <2>1. InA2F
      BY <1>7 DEF A2FStep
    <2>2. A2FNext
      BY <1>7 DEF A2FStep, A2FNext
    <2> QED
      BY <1>1, <2>1, <2>2 DEF InA2F, Still
  <1>8. CASE HubStep
    <2>1. InHub
      BY <1>8 DEF HubStep
    <2>2. H!HubNext
      BY <1>8 DEF HubStep, H!HubNext
    <2> QED
      BY <1>1, <2>1, <2>2 DEF InHub, Still
  <1>9. CASE UNCHANGED allParts
    BY <1>1, <1>9 DEF allParts, Still
  <1> QED
    BY <1>2, <1>3, <1>4, <1>5, <1>6, <1>7, <1>8, <1>9 DEF ConnectionsNext

\* So the whole implements each of its parts.
LEMMA PartsAreImplemented ==
  ConnectionsSpec => /\ RecordingSpec /\ A2FSpec /\ G!GpuSpec /\ R!ClientSpec
                     /\ V!RuntimeSpec /\ C!ClipsSpec /\ H!HubSpec
  <1>1. ConnectionsInit => /\ RecordingInit /\ A2FInit /\ G!GpuInit /\ R!ClientInit
                           /\ V!RuntimeInit /\ C!ClipsInit /\ H!HubInit
    BY PartsBegin
  <1>2. [ConnectionsNext]_allParts
          => /\ [RecordingNext]_recordedVars /\ [A2FNext]_a2fVars
             /\ [G!GpuNext]_(G!gpuVars) /\ [R!ClientNext]_(R!clientVars)
             /\ [V!RuntimeNext]_(V!runtimeVars) /\ [C!ClipsNext]_(C!clipVars)
             /\ [H!HubNext]_(H!hubVars)
    BY StepsOfTheParts
  <1> QED
    BY <1>1, <1>2, PTL DEF ConnectionsSpec, RecordingSpec, A2FSpec, G!GpuSpec, R!ClientSpec,
                           V!RuntimeSpec, C!ClipsSpec, H!HubSpec

\* A publisher that is in the call belongs to the session of the meeting.
LEMMA RuntimeInvImplies ==
  ASSUME RuntimeInv
  PROVE  V!RuntimeTypeOK /\ V!NobodyLeftInTheCall
  BY DEF RuntimeInv, JoinedRuns, V!NobodyLeftInTheCall

-----------------------------------------------------------------------------
(* The theorems                                                            *)

\* After the end of a meeting its recording is over or its stop is under way, unless a
\* start raced the stop or the stop failed; and with no request given up or overlapping,
\* what the meeting's metadata says of the recording is what the provider does
\* (meetingOrchestrator.ts, kickoffRecording and stopRecording, and the routes).
THEOREM RecordingKeptCorrect == ConnectionsSpec => []RecordingKept
  <1>1. RecordingInv => RecordingKept
    BY RecordingInvImplies
  <1> QED
    BY <1>1, PartsAreImplemented, RecordingHolds, PTL

\* No caller of the Redis client is given another's reply, over heartbeats, handshakes,
\* replies in two chunks, queues that are full and disconnects, unless the client had two
\* sockets or lost one in the middle of a reply (redisClient.ts, handleData).
THEOREM OwnReplyCorrect == ConnectionsSpec => []OwnReply
  <1>1. ClientInv => OwnReply
    BY ClientInvImplies DEF OwnReply
  <1> QED
    BY <1>1, PartsAreImplemented, ClientHolds, PTL

\* Commands that wait for Redis have a connection, a timer or a handshake before them,
\* and a session on the pod a socket or a timer: nobody waits for nothing.
THEOREM SomebodyReconnectsCorrect == ConnectionsSpec => []SomebodyReconnects
  <1>1. ClientInv /\ GpuInv => SomebodyReconnects
    BY DEF ClientInv, GpuInv, SomebodyReconnects
  <1> QED
    BY <1>1, PartsAreImplemented, ClientHolds, GpuHolds, PTL

\* A stopped session has no timer, no heartbeat and no open socket on the pod, nobody is
\* in the call for it who had joined and could leave, and where no command overtook a
\* start the phase, paused or not, and the routing of the number follow the session.
THEOREM NothingOutlivesItsSessionCorrect == ConnectionsSpec => []NothingOutlivesItsSession
  <1>1. GpuInv /\ RuntimeInv => NothingOutlivesItsSession
    BY GpuInvImplies, RuntimeInvImplies DEF GpuInv, RuntimeInv, NothingOutlivesItsSession
  <1> QED
    BY <1>1, PartsAreImplemented, GpuHolds, RuntimeHolds, PTL

\* A paused session sends out nothing and is not shown as speaking, and nothing that waits
\* to be shown, or is shown and is not the frame that was shown last, was asked for before
\* the last interruption, pause, resume or stop.
THEOREM QuietAfterInterruptionCorrect == ConnectionsSpec => []QuietAfterInterruption
  <1>1. RuntimeInv /\ ClipsInv => QuietAfterInterruption
    BY DEF RuntimeInv, ClipsInv, QuietAfterInterruption
  <1> QED
    BY <1>1, PartsAreImplemented, RuntimeHolds, ClipsHold, PTL

\* inFlight counts the requests under way exactly, and the ring holds no more audio than
\* the clock and the limits allow (musetalkClipScheduler.ts).
THEOREM ClipsCountedCorrect == ConnectionsSpec => []ClipsCounted
  <1>1. ClipsInv => ClipsCounted
    BY DEF ClipsInv, ClipsCounted
  <1> QED
    BY <1>1, PartsAreImplemented, ClipsHold, PTL

\* What ingestChunk wrote and no window has read yet fits the ring and is in its slot,
\* overruns and skipped hops included.
THEOREM RingHoldsUnreadCorrect == ConnectionsSpec => []RingHoldsUnread
  <1>1. RingInv => RingHoldsUnread
    BY DEF RingInv
  <1> QED
    BY <1>1, PartsAreImplemented, RingHolds, PTL

\* The pod gets the chunks of audio in their order over reconnections and dropped chunks,
\* the frames are made of consecutive samples in their order, and every page that is open
\* knows the agent's mode.
THEOREM HeardAndShownInOrderCorrect == ConnectionsSpec => []HeardAndShownInOrder
  <1>1. GpuInv /\ FramesInv /\ HubInv => HeardAndShownInOrder
    BY GpuInvImplies, FramesInvImplies DEF HubInv, HeardAndShownInOrder
  <1> QED
    BY <1>1, PartsAreImplemented, GpuHolds, FramesHold, HubHolds, PTL

\* No step shows a frame of an earlier epoch than the last frame's, nor one of an earlier
\* moment of its epoch (clipBuffer.ts, getFrameAtTime).
THEOREM PictureGoesForwardCorrect == ConnectionsSpec => PictureGoesForward
  <1>1. ClipsInv /\ [C!ClipsNext]_(C!clipVars)
          => [frame' # Nothing /\ lastFrame # Nothing
                => \/ frame'.epoch > lastFrame.epoch
                   \/ frame'.epoch = lastFrame.epoch /\ frame'.from >= lastFrame.from
             ]_(C!clipVars)
    BY ShownForward
  <1> QED
    BY <1>1, PartsAreImplemented, ClipsHold, PTL DEF C!ClipsSpec, PictureGoesForward,
       C!PictureGoesForward
=============================================================================
