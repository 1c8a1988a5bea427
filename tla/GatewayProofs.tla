----------------------------- MODULE GatewayProofs -----------------------------
(***************************************************************************)
(* The gateway's stores, for any number of commands, calls, links, tickets *)
(* and sessions, any times to live and any clocks.                         *)
(*                                                                         *)
(* None of the properties is inductive.  What has to be known besides:     *)
(*   commands  who works holds the lease, the log has the revisions, and   *)
(*             a setting that differs is on its way, or is a copy that     *)
(*             others have set or that missed it (CommandsInv);            *)
(*   events    what a call has loaded is the log of its key, and the log   *)
(*             has an event for every call that ended (LogInv);            *)
(*   sessions  what is saved is an earlier state of what memory has, or    *)
(*             what the last restart failed to read, and a session that is *)
(*             opened is starting (SessionsInv);                           *)
(*   tickets   the key of a redeemed ticket is there until the ticket has  *)
(*             expired (TicketsInv);                                       *)
(*   links     a barred link has its key until it expires, a link that is  *)
(*             being issued is in no list, and who is about to write the   *)
(*             list back has it as it is (LinksInv).                       *)
(*                                                                         *)
(* At the end the parts are put together: a run of the gateway is a run of *)
(* each of them.                                                           *)
(***************************************************************************)
EXTENDS MCGateway, CandidateAdmissionProofs, FiniteSetTheorems

-----------------------------------------------------------------------------
(* The runtime commands                                                    *)

\* Until a lease runs out under its command, a command that is under way has it.
LeaseIsHeld ==
    "expired" \notin troubles =>
        \A k \in Commands : command[k].pc \in Working => lease # Nobody /\ lease.by = k

\* A command gets its revision with its intent, and the log is never behind it.
RevisionsInLog ==
    \A k \in Commands :
        /\ command[k].revision <= revision
        /\ command[k].pc \in {"new", "rejected", "holding", "leased", "refused"}
              => command[k].revision = 0

\* Where a setting is while nothing has gone wrong: everywhere the same where it was not
\* missed or set by others, unless a command takes it to the pod, or has to take it to
\* the running avatar yet.
Holds(c, k) == c \notin others => Copy(c) = k

SettingUnderWay ==
    troubles = {} =>
        /\ \A k \in Commands :
              command[k].pc = "syncing" =>
                  Holds("gateway", k) /\ (k \in inTransit \/ Holds("pod", k))
        /\ \A k \in Commands :
              command[k].pc = "synced" => Holds("gateway", k) /\ Holds("pod", k)
        /\ \A k \in inTransit : command[k].pc = "syncing"
        /\ (\A k \in Commands : command[k].pc \notin {"syncing", "synced"})
              => \A c, d \in Copies \ others : Copy(c) = Copy(d)

\* Without a pod nothing is on its way to it.
PodIsThere == inTransit # {} => configured

Past(pc) == pc \in Working \cup Ended /\ pc \notin {"holding", "leased", "requested"}

\* Of the commands c, the one that is about to be recorded is the newest, and of those
\* that are past it the last.
Newest(c, last) ==
    /\ \A j, k \in Commands : c[k].pc = "requested" => c[j].revision <= c[k].revision
    /\ \A k \in Commands : last # Nobody /\ Past(c[k].pc) => c[k].revision <= c[last].revision

CommandsInv ==
    /\ CommandsTypeOK
    /\ LeaseIsHeld
    /\ RevisionsInLog
    /\ "expired" \notin troubles => Newest(command, lastCommand)
    /\ PodIsThere
    /\ SettingUnderWay

\* What every step of a command leaves as it is.
LEMMA CommandStepFact ==
    ASSUME CommandsTypeOK, NEW k \in Commands,
           \/ deny(k) \/ acquire(k) \/ leaseEvent(k) \/ intent(k) \/ recordsCommand(k)
           \/ fails(k) \/ applyOther(k) \/ patch(k) \/ syncPodCommandWithRetry(k)
           \/ syncFails(k) \/ setRuntime(k) \/ releaseReads(k) \/ releaseDeletes(k)
    PROVE  \A j \in Commands \ {k} : command'[j] = command[j]
BY DEF CommandsTypeOK, Goes, deny, acquire, leaseEvent, intent, recordsCommand, fails,
       applyOther, patch, syncPodCommandWithRetry, syncFails, setRuntime, releaseReads,
       releaseDeletes

\* Who sets the setting without a command leaves the commands alone.
LEMMA ElsewhereFact ==
    ASSUME Elsewhere
    PROVE  UNCHANGED <<lease, command, revision, lastCommand, inTransit, taken, synced, troubles>>
BY DEF Elsewhere, speakerChanged, upsertStart, startForMeeting, stopForMeeting, turnChanges,
       podChanges

\* Where a command may be, and who may own it.
PCs == {"new", "rejected"} \cup Working \cup Ended
LeaseOwners == LockOwners \cup {Nobody}

\* A command whose fields are replaced is a command.
LEMMA CommandRecord ==
    ASSUME NEW x \in [pc: PCs, owner: LeaseOwners, revision: Nat],
           NEW p \in PCs, NEW o \in LeaseOwners, NEW n \in Nat
    PROVE  /\ [x EXCEPT !.pc = p] \in [pc: PCs, owner: LeaseOwners, revision: Nat]
           /\ [x EXCEPT !.owner = o, !.pc = p] \in [pc: PCs, owner: LeaseOwners, revision: Nat]
           /\ [x EXCEPT !.pc = p, !.revision = n] \in [pc: PCs, owner: LeaseOwners, revision: Nat]
OBVIOUS

\* Every step of a command keeps the types.
LEMMA CommandsTypeStep ==
    ASSUME CommandsTypeOK, [CommandsNext]_commandVars
    PROVE  CommandsTypeOK'
<1> DEFINE Cs == [Commands -> [pc: PCs, owner: LeaseOwners, revision: Nat]]
           Rest == /\ revision \in Nat
                   /\ lastCommand \in Commands \cup {Nobody}
                   /\ {configured, known, running} \subseteq BOOLEAN
                   /\ {gateway, runtime, pod} \subseteq Commands \cup {Nobody}
                   /\ inTransit \cup taken \cup synced \subseteq Commands
                   /\ others \subseteq Copies
                   /\ troubles \subseteq {"expired", "timeout"}
<1>1. command \in Cs /\ lease \in {Nobody} \cup [owner: LockOwners, by: Commands] /\ Rest
  BY DEF CommandsTypeOK, PCs, LeaseOwners
<1>2. SUFFICES /\ command' \in Cs
               /\ lease' \in {Nobody} \cup [owner: LockOwners, by: Commands]
               /\ Rest'
  BY DEF CommandsTypeOK, PCs, LeaseOwners
<1>3. \A p \in {"new", "rejected", "holding", "leased", "requested", "recorded", "syncing",
                "synced", "releasing", "deleting", "refused", "done"} : p \in PCs
  BY DEF PCs, Working, Ended
<1>4. ASSUME NEW k \in Commands, NEW p \in PCs, Goes(k, p) PROVE command' \in Cs
  BY <1>1, <1>4, CommandRecord DEF Goes
<1>5. ASSUME NEW k \in Commands,
             \/ deny(k) \/ leaseEvent(k) \/ recordsCommand(k) \/ fails(k) \/ applyOther(k)
             \/ patch(k) \/ syncPodCommandWithRetry(k) \/ syncFails(k) \/ setRuntime(k)
             \/ releaseReads(k) \/ releaseDeletes(k)
      PROVE  command' \in Cs
  <2>1. \E p \in PCs : Goes(k, p)
    BY <1>3, <1>5 DEF deny, leaseEvent, recordsCommand, fails, applyOther, patch,
       syncPodCommandWithRetry, syncFails, setRuntime, releaseReads, releaseDeletes
  <2> QED
    BY <1>4, <2>1
<1>6. ASSUME NEW k \in Commands,
             \/ deny(k) \/ leaseEvent(k) \/ recordsCommand(k) \/ fails(k) \/ applyOther(k)
             \/ patch(k) \/ syncPodCommandWithRetry(k) \/ syncFails(k) \/ setRuntime(k)
             \/ releaseReads(k) \/ releaseDeletes(k)
      PROVE  lease' \in {Nobody} \cup [owner: LockOwners, by: Commands]
  BY <1>1, <1>6 DEF deny, leaseEvent, recordsCommand, fails, applyOther, patch,
     syncPodCommandWithRetry, syncFails, setRuntime, releaseReads, releaseDeletes
<1>7. ASSUME NEW k \in Commands, deny(k) \/ leaseEvent(k) \/ syncFails(k) PROVE Rest'
  <2>1. /\ revision' = revision + 1 /\ lastCommand' = lastCommand
        /\ configured' = configured /\ known' = known /\ running' = running
        /\ gateway' = gateway /\ runtime' = runtime /\ pod' = pod
        /\ inTransit' = inTransit /\ taken' = taken /\ synced' = synced
        /\ others' = others /\ troubles' = troubles
    BY <1>7 DEF deny, leaseEvent, syncFails, settings, present
  <2> QED
    BY <1>1, <2>1
<1>8. ASSUME NEW k \in Commands, recordsCommand(k) \/ fails(k) \/ applyOther(k) \/ patch(k)
      PROVE  Rest'
  <2>1. CASE recordsCommand(k) \/ fails(k) \/ applyOther(k)
    BY <1>1, <2>1 DEF recordsCommand, fails, applyOther, settings, present
  <2>2. CASE patch(k)
    BY <1>1, <2>2 DEF patch, present, Copies
  <2> QED
    BY <1>8, <2>1, <2>2
<1>9. ASSUME NEW k \in Commands, syncPodCommandWithRetry(k) \/ setRuntime(k) PROVE Rest'
  <2>1. CASE setRuntime(k)
    BY <1>1, <2>1 DEF setRuntime, present, Copies
  <2>2. CASE syncPodCommandWithRetry(k)
    BY <1>1, <2>2 DEF syncPodCommandWithRetry, Awaited, present
  <2> QED
    BY <1>9, <2>1, <2>2
<1>10. ASSUME NEW k \in Commands, releaseReads(k) \/ releaseDeletes(k) PROVE Rest'
  BY <1>1, <1>10 DEF releaseReads, releaseDeletes, settings, present
<1>11. ASSUME NEW k \in Commands, acquire(k)
       PROVE  /\ command' \in Cs
              /\ lease' \in {Nobody} \cup [owner: LockOwners, by: Commands]
              /\ Rest'
  <2>1. PICK o \in LockOwners, p \in {"holding", "rejected"} :
           /\ lease' \in {lease, [owner |-> o, by |-> k]}
           /\ command' = [command EXCEPT ![k].owner = o, ![k].pc = p]
    BY <1>11 DEF acquire
  <2>2. command' = [command EXCEPT ![k] = [command[k] EXCEPT !.owner = o, !.pc = p]]
    BY <1>1, <2>1
  <2>3. p \in PCs /\ o \in LeaseOwners
    BY <1>3 DEF LeaseOwners
  <2>4. command' \in Cs
    BY <1>1, <2>2, <2>3, CommandRecord
  <2>5. lease' \in {Nobody} \cup [owner: LockOwners, by: Commands]
    BY <1>1, <2>1
  <2>6. Rest'
    BY <1>1, <1>11 DEF acquire, settings, present
  <2> QED
    BY <2>4, <2>5, <2>6
<1>12. ASSUME NEW k \in Commands, intent(k)
       PROVE  /\ command' \in Cs
              /\ lease' \in {Nobody} \cup [owner: LockOwners, by: Commands]
              /\ Rest'
  <2>1. command' = [command EXCEPT ![k] = [command[k] EXCEPT !.pc = "requested",
                                                             !.revision = revision + 1]]
    BY <1>1, <1>12 DEF intent
  <2>2. revision + 1 \in Nat /\ "requested" \in PCs
    BY <1>1, <1>3
  <2>3. command' \in Cs
    BY <1>1, <2>1, <2>2, CommandRecord
  <2> QED
    BY <1>1, <1>12, <2>3 DEF intent, settings, present
<1>13. ASSUME NEW k \in Commands, podTakes(k) \/ podDrops(k)
       PROVE  /\ command' \in Cs
              /\ lease' \in {Nobody} \cup [owner: LockOwners, by: Commands]
              /\ Rest'
  BY <1>1, <1>13 DEF podTakes, podDrops, present, Copies
<1>14. CASE expire \/ UNCHANGED commandVars
  BY <1>1, <1>14 DEF expire, commandVars, settings, present
<1>15. CASE Elsewhere
  <2>1. command' \in Cs /\ lease' \in {Nobody} \cup [owner: LockOwners, by: Commands]
    BY <1>1, <1>15, ElsewhereFact
  <2>2. CASE speakerChanged \/ turnChanges \/ podChanges
    BY <1>1, <2>2 DEF speakerChanged, turnChanges, podChanges, present, Copies
  <2>3. CASE upsertStart \/ startForMeeting \/ stopForMeeting
    BY <1>1, <2>3 DEF upsertStart, startForMeeting, stopForMeeting, Copies
  <2> QED
    BY <1>15, <2>1, <2>2, <2>3 DEF Elsewhere
<1> QED
  BY <1>5, <1>6, <1>7, <1>8, <1>9, <1>10, <1>11, <1>12, <1>13, <1>14, <1>15 DEF CommandsNext

\* The step of one command and what it does to the lease: a command that comes to hold
\* it found it free, and one that lets go of it is under way no longer.
LEMMA LeaseStep ==
    ASSUME CommandsTypeOK, LeaseIsHeld, [CommandsNext]_commandVars
    PROVE  LeaseIsHeld'
<1> SUFFICES ASSUME "expired" \notin troubles', NEW j \in Commands, command'[j].pc \in Working
             PROVE  lease' # Nobody /\ lease'.by = j
  BY DEF LeaseIsHeld
<1>0. "expired" \notin troubles
  BY ElsewhereFact DEF CommandsNext, commandVars, settings, deny, acquire, leaseEvent, intent, recordsCommand,
     fails, applyOther, patch, podTakes, podDrops, syncPodCommandWithRetry, Awaited, syncFails,
     setRuntime, releaseReads, releaseDeletes, expire
<1>1. \A k \in Commands : command[k].pc \in Working => lease # Nobody /\ lease.by = k
  BY <1>0 DEF LeaseIsHeld
<1>2. ASSUME NEW k \in Commands,
             \/ deny(k) \/ leaseEvent(k) \/ intent(k) \/ recordsCommand(k) \/ fails(k)
             \/ applyOther(k) \/ patch(k) \/ syncPodCommandWithRetry(k) \/ syncFails(k)
             \/ setRuntime(k) \/ releaseReads(k)
      PROVE  lease' # Nobody /\ lease'.by = j
  <2>1. UNCHANGED lease
    BY <1>2 DEF deny, leaseEvent, intent, recordsCommand, fails, applyOther, patch,
       syncPodCommandWithRetry, syncFails, setRuntime, releaseReads
  <2>2. command[j].pc \in Working
    <3>1. CASE j = k
      BY <1>2, <3>1 DEF CommandsTypeOK, Goes, Working, Ended, deny, leaseEvent, intent,
         recordsCommand, fails, applyOther, patch, syncPodCommandWithRetry, syncFails,
         setRuntime, releaseReads
    <3>2. CASE j # k
      BY <1>2, <3>2, CommandStepFact
    <3> QED
      BY <3>1, <3>2
  <2> QED
    BY <1>1, <2>1, <2>2
<1>3. ASSUME NEW k \in Commands, acquire(k) PROVE lease' # Nobody /\ lease'.by = j
  <2>1. PICK o \in LockOwners, reply \in {"OK", "error"} :
           /\ lease' \in IF ~Free THEN {lease}
                         ELSE IF reply = "OK" THEN {[owner |-> o, by |-> k]}
                         ELSE {lease, [owner |-> o, by |-> k]}
           /\ command' = [command EXCEPT ![k].owner = o,
                                         ![k].pc = IF Free /\ reply = "OK" THEN "holding"
                                                   ELSE "rejected"]
    BY <1>3 DEF acquire
  <2>2. CASE j = k
    <3>1. Free /\ reply = "OK"
      BY <2>1, <2>2 DEF CommandsTypeOK, Working
    <3>2. lease' = [owner |-> o, by |-> k]
      BY <2>1, <3>1
    <3>3. lease' \in [owner: LockOwners, by: Commands]
      BY <3>2
    <3> QED
      BY <2>2, <3>2, <3>3, CommandsAssumption
  <2>3. CASE j # k
    <3>1. command[j].pc \in Working
      BY <1>3, <2>3, CommandStepFact
    <3> QED
      BY <1>1, <2>1, <3>1 DEF Free
  <2> QED
    BY <2>2, <2>3
<1>4. ASSUME NEW k \in Commands, releaseDeletes(k) PROVE lease' # Nobody /\ lease'.by = j
  <2>1. command[k].pc \in Working /\ command'[k].pc \notin Working
    BY <1>4 DEF CommandsTypeOK, Goes, Working, releaseDeletes
  <2>2. j # k /\ command[j].pc \in Working
    BY <1>4, <2>1, CommandStepFact
  <2> QED
    BY <1>1, <2>1, <2>2
<1>5. CASE expire
  <2>1. command[j].pc \in Working
    BY <1>5 DEF expire
  <2>2. lease # Nobody /\ lease.by = j
    BY <1>1, <2>1
  <2>3. "expired" \in troubles'
    BY <1>5, <2>1, <2>2 DEF expire
  <2> QED
    BY <2>3
<1>6. ASSUME (\E k \in Commands : podTakes(k) \/ podDrops(k)) \/ Elsewhere
      PROVE  lease' # Nobody /\ lease'.by = j
  <2>1. UNCHANGED <<lease, command>>
    BY <1>6, ElsewhereFact DEF podTakes, podDrops
  <2> QED
    BY <1>1, <2>1
<1>7. CASE UNCHANGED commandVars
  BY <1>1, <1>7 DEF commandVars
<1> QED
  BY <1>2, <1>3, <1>4, <1>5, <1>6, <1>7 DEF CommandsNext

\* There is one lease, so that one command works at a time.
LEMMA OneAtATime == LeaseIsHeld => OneCommandAtATime
BY DEF LeaseIsHeld, OneCommandAtATime

\* The log's revision only grows, and intent alone gives one to a command.
LEMMA RevisionStep ==
    ASSUME CommandsTypeOK, RevisionsInLog, [CommandsNext]_commandVars
    PROVE  RevisionsInLog'
<1> USE DEF CommandsTypeOK, RevisionsInLog, Goes, Working, Ended, settings
<1>1. ASSUME NEW k \in Commands, deny(k) \/ leaseEvent(k) \/ syncFails(k)
      PROVE  RevisionsInLog'
  BY <1>1 DEF deny, leaseEvent, syncFails
<1>2. ASSUME NEW k \in Commands, acquire(k) PROVE RevisionsInLog'
  <2>1. PICK o \in LockOwners, pc \in {"holding", "rejected"} :
           command' = [command EXCEPT ![k].owner = o, ![k].pc = pc]
    BY <1>2 DEF acquire
  <2> QED
    BY <1>2, <2>1 DEF acquire
<1>3. ASSUME NEW k \in Commands, intent(k) PROVE RevisionsInLog'
  BY <1>3 DEF intent
<1>4. ASSUME NEW k \in Commands, recordsCommand(k) \/ fails(k) \/ applyOther(k) \/ patch(k)
      PROVE  RevisionsInLog'
  BY <1>4 DEF recordsCommand, fails, applyOther, patch
<1>5. ASSUME NEW k \in Commands, syncPodCommandWithRetry(k) \/ setRuntime(k)
      PROVE  RevisionsInLog'
  BY <1>5 DEF syncPodCommandWithRetry, setRuntime
<1>6. ASSUME NEW k \in Commands, releaseReads(k) \/ releaseDeletes(k) PROVE RevisionsInLog'
  BY <1>6 DEF releaseReads, releaseDeletes
<1>7. ASSUME (\E k \in Commands : podTakes(k) \/ podDrops(k)) \/ Elsewhere
      PROVE  RevisionsInLog'
  <2>1. UNCHANGED <<command, revision>>
    BY <1>7, ElsewhereFact DEF podTakes, podDrops
  <2> QED
    BY <2>1
<1>8. CASE expire \/ UNCHANGED commandVars
  BY <1>8 DEF expire, commandVars
<1> QED
  BY <1>1, <1>2, <1>3, <1>4, <1>5, <1>6, <1>7, <1>8 DEF CommandsNext

\* A step that neither gives a revision nor records a command keeps who is newest; one
\* that has no revision may be refused.
LEMMA NewestKept ==
    ASSUME NEW c, NEW d, NEW last \in Commands \cup {Nobody}, Newest(c, last),
           \A k \in Commands : c[k].revision \in Nat,
           \A k \in Commands :
              /\ d[k].revision = c[k].revision
              /\ d[k].pc = "requested" => c[k].pc = "requested"
              /\ Past(d[k].pc) => Past(c[k].pc) \/ c[k].revision = 0
    PROVE  Newest(d, last)
<1>1. \A j, k \in Commands : d[k].pc = "requested" => d[j].revision <= d[k].revision
  BY DEF Newest
<1>2. ASSUME NEW k \in Commands, last # Nobody, Past(d[k].pc)
      PROVE  d[k].revision <= d[last].revision
  <2>1. last \in Commands
    BY <1>2
  <2>2. d[k].revision = c[k].revision /\ d[last].revision = c[last].revision
    BY <2>1
  <2>3. c[last].revision \in Nat
    BY <2>1
  <2>4. c[k].revision <= c[last].revision
    BY <1>2, <2>1, <2>3 DEF Newest
  <2> QED
    BY <2>2, <2>4
<1> QED
  BY <1>1, <1>2 DEF Newest

\* Who intends has the lease, and nobody who comes later can be newer.
LEMMA NewestStep ==
    ASSUME CommandsTypeOK, LeaseIsHeld, RevisionsInLog, "expired" \notin troubles,
           Newest(command, lastCommand), [CommandsNext]_commandVars
    PROVE  Newest(command', lastCommand')
<1>1. \A k \in Commands : command[k].revision \in Nat /\ command[k].revision <= revision
  BY DEF CommandsTypeOK, RevisionsInLog
<1>2. \A j, k \in Commands :
         command[j].pc \in Working /\ command[k].pc \in Working => j = k
  BY DEF LeaseIsHeld
<1>3. lastCommand \in Commands \cup {Nobody} /\ revision \in Nat
  BY DEF CommandsTypeOK
<1>4. ASSUME UNCHANGED lastCommand,
             \A j \in Commands :
                /\ command'[j].revision = command[j].revision
                /\ command'[j].pc = "requested" => command[j].pc = "requested"
                /\ Past(command'[j].pc) => Past(command[j].pc) \/ command[j].revision = 0
      PROVE  Newest(command', lastCommand')
  BY <1>1, <1>3, <1>4, NewestKept
<1>5. ASSUME NEW k \in Commands,
             \/ deny(k) \/ leaseEvent(k) \/ fails(k) \/ applyOther(k) \/ patch(k)
             \/ syncPodCommandWithRetry(k) \/ syncFails(k) \/ setRuntime(k)
             \/ releaseReads(k) \/ releaseDeletes(k)
      PROVE  Newest(command', lastCommand')
  <2>1. \A j \in Commands :
           /\ command'[j].revision = command[j].revision
           /\ command'[j].pc = "requested" => command[j].pc = "requested"
           /\ Past(command'[j].pc) => Past(command[j].pc) \/ command[j].revision = 0
    BY <1>5 DEF CommandsTypeOK, RevisionsInLog, Goes, Past, Working, Ended, deny, leaseEvent,
       fails, applyOther, patch, syncPodCommandWithRetry, syncFails, setRuntime, releaseReads,
       releaseDeletes
  <2>2. UNCHANGED lastCommand
    BY <1>5 DEF deny, leaseEvent, fails, applyOther, patch, syncPodCommandWithRetry,
       syncFails, setRuntime, releaseReads, releaseDeletes, settings
  <2> QED
    BY <1>4, <2>1, <2>2
<1>6. ASSUME NEW k \in Commands, acquire(k) PROVE Newest(command', lastCommand')
  <2>1. PICK o \in LockOwners, pc \in {"holding", "rejected"} :
           command' = [command EXCEPT ![k].owner = o, ![k].pc = pc]
    BY <1>6 DEF acquire
  <2>2. \A j \in Commands :
           /\ command'[j].revision = command[j].revision
           /\ command'[j].pc = "requested" => command[j].pc = "requested"
           /\ Past(command'[j].pc) => Past(command[j].pc) \/ command[j].revision = 0
    BY <2>1 DEF CommandsTypeOK, Past, Working, Ended
  <2>3. UNCHANGED lastCommand
    BY <1>6 DEF acquire
  <2> QED
    BY <1>4, <2>2, <2>3
<1>7. ASSUME NEW k \in Commands, intent(k) PROVE Newest(command', lastCommand')
  <2>1. /\ command[k].pc = "leased"
        /\ command'[k].pc = "requested" /\ command'[k].revision = revision + 1
        /\ \A j \in Commands \ {k} : command'[j] = command[j]
        /\ lastCommand' = lastCommand
    BY <1>7 DEF CommandsTypeOK, intent
  <2>2. \A j \in Commands \ {k} : command[j].pc # "requested"
    BY <1>2, <2>1 DEF Working
  <2>3. ~Past(command'[k].pc)
    BY <2>1 DEF Past
  <2>4. \A j \in Commands : command'[j].revision \in Nat /\ command'[j].revision <= revision + 1
    BY <1>1, <1>3, <2>1
  <2>5. \A i, j \in Commands :
           command'[i].pc = "requested" => command'[j].revision <= command'[i].revision
    BY <2>1, <2>2, <2>4
  <2>6. ASSUME NEW j \in Commands, lastCommand # Nobody, Past(command'[j].pc)
        PROVE  command'[j].revision <= command'[lastCommand].revision
    <3>1. lastCommand \in Commands
      BY <1>3, <2>6
    <3>2. command'[j] = command[j]
      BY <2>1, <2>3, <2>6
    <3>3. command[j].revision <= command[lastCommand].revision
      BY <2>6, <3>1, <3>2 DEF Newest
    <3>4. CASE lastCommand = k
      BY <1>1, <1>3, <2>1, <3>2, <3>4
    <3>5. CASE lastCommand # k
      BY <2>1, <3>1, <3>2, <3>3, <3>5
    <3> QED
      BY <3>4, <3>5
  <2> QED
    BY <2>1, <2>5, <2>6 DEF Newest
<1>8. ASSUME NEW k \in Commands, recordsCommand(k) PROVE Newest(command', lastCommand')
  <2>1. /\ command[k].pc = "requested" /\ command'[k].pc = "recorded"
        /\ \A j \in Commands : command'[j].revision = command[j].revision
        /\ \A j \in Commands \ {k} : command'[j] = command[j]
        /\ lastCommand' = k
    BY <1>8 DEF CommandsTypeOK, Goes, recordsCommand
  <2>2. \A j \in Commands \ {k} : command[j].pc # "requested"
    BY <1>2, <2>1 DEF Working
  <2> QED
    BY <2>1, <2>2 DEF Newest
<1>9. ASSUME UNCHANGED <<command, lastCommand>> PROVE Newest(command', lastCommand')
  BY <1>9
<1>10. ASSUME (\E k \in Commands : podTakes(k) \/ podDrops(k)) \/ Elsewhere
       PROVE  Newest(command', lastCommand')
  BY <1>9, <1>10, ElsewhereFact DEF podTakes, podDrops
<1>11. CASE expire \/ UNCHANGED commandVars
  BY <1>9, <1>11 DEF expire, commandVars
<1> QED
  BY <1>5, <1>6, <1>7, <1>8, <1>10, <1>11 DEF CommandsNext

\* Only a command that has a pod to go to goes on its way.
LEMMA PodStep ==
    ASSUME PodIsThere, [CommandsNext]_commandVars
    PROVE  PodIsThere'
<1>1. configured' = configured
  BY DEF CommandsNext, commandVars, settings, present, deny, acquire, leaseEvent, intent,
     recordsCommand, fails, applyOther, patch, podTakes, podDrops, syncPodCommandWithRetry,
     syncFails, setRuntime, releaseReads, releaseDeletes, expire, Elsewhere, speakerChanged,
     upsertStart, startForMeeting, stopForMeeting, turnChanges, podChanges
<1>2. inTransit' \subseteq inTransit \/ configured
  BY ElsewhereFact DEF CommandsNext, commandVars, settings, deny, acquire, leaseEvent, intent,
     recordsCommand, fails, applyOther, patch, podTakes, podDrops, syncPodCommandWithRetry,
     syncFails, setRuntime, releaseReads, releaseDeletes, expire
<1> QED
  BY <1>1, <1>2 DEF PodIsThere

\* A copy that somebody else sets is not claimed to be that of a command.
LEMMA ElsewhereHolds ==
    ASSUME CommandsTypeOK, Elsewhere
    PROVE  /\ others \subseteq others'
           /\ \A c \in Copies \ others' : Copy(c)' = Copy(c)
<1>1. CASE speakerChanged
  BY <1>1 DEF speakerChanged, Copies, Copy
<1>2. CASE upsertStart
  BY <1>2 DEF upsertStart, Copies, Copy
<1>3. CASE startForMeeting
  BY <1>3 DEF startForMeeting, Copies, Copy
<1>4. CASE stopForMeeting
  BY <1>4 DEF stopForMeeting, Copies, Copy
<1>5. CASE turnChanges
  BY <1>5 DEF turnChanges, Copies, Copy
<1>6. CASE podChanges
  BY <1>6 DEF podChanges, Copies, Copy
<1> QED
  BY <1>1, <1>2, <1>3, <1>4, <1>5, <1>6 DEF Elsewhere

\* Only the command that is under way touches a setting that is claimed, and it awaits the
\* pod.
LEMMA SettingStep ==
    ASSUME CommandsTypeOK, LeaseIsHeld, PodIsThere, SettingUnderWay,
           [CommandsNext]_commandVars
    PROVE  SettingUnderWay'
<1> SUFFICES ASSUME troubles' = {}
             PROVE  SettingUnderWay'
  BY DEF SettingUnderWay
<1>0. troubles = {}
  BY ElsewhereFact DEF CommandsNext, commandVars, settings, deny, acquire, leaseEvent, intent,
     recordsCommand, fails, applyOther, patch, podTakes, podDrops, syncPodCommandWithRetry,
     Awaited, syncFails, setRuntime, releaseReads, releaseDeletes, expire
<1>1. /\ \A k \in Commands :
            command[k].pc = "syncing" =>
                Holds("gateway", k) /\ (k \in inTransit \/ Holds("pod", k))
      /\ \A k \in Commands :
            command[k].pc = "synced" => Holds("gateway", k) /\ Holds("pod", k)
      /\ \A k \in inTransit : command[k].pc = "syncing"
      /\ (\A k \in Commands : command[k].pc \notin {"syncing", "synced"})
            => \A c, d \in Copies \ others : Copy(c) = Copy(d)
  BY <1>0 DEF SettingUnderWay
<1>2. \A j, k \in Commands :
         command[j].pc \in Working /\ command[k].pc \in Working => j = k
  BY <1>0 DEF LeaseIsHeld
<1>3. inTransit \subseteq Commands
  BY DEF CommandsTypeOK
<1>4. ASSUME UNCHANGED settings,
             \A j \in Commands :
                /\ command'[j].pc = "syncing" <=> command[j].pc = "syncing"
                /\ command'[j].pc = "synced" <=> command[j].pc = "synced"
      PROVE  SettingUnderWay'
  BY <1>1, <1>3, <1>4 DEF SettingUnderWay, Holds, Copy, settings
<1>5. ASSUME NEW k \in Commands,
             \/ deny(k) \/ leaseEvent(k) \/ intent(k) \/ recordsCommand(k) \/ fails(k)
             \/ applyOther(k) \/ releaseReads(k) \/ releaseDeletes(k)
      PROVE  SettingUnderWay'
  <2>1. \A j \in Commands :
           /\ command'[j].pc = "syncing" <=> command[j].pc = "syncing"
           /\ command'[j].pc = "synced" <=> command[j].pc = "synced"
    BY <1>5 DEF CommandsTypeOK, Goes, deny, leaseEvent, intent, recordsCommand, fails,
       applyOther, releaseReads, releaseDeletes
  <2>2. UNCHANGED settings
    BY <1>5 DEF deny, leaseEvent, intent, recordsCommand, fails, applyOther, releaseReads,
       releaseDeletes
  <2> QED
    BY <1>4, <2>1, <2>2
<1>6. ASSUME NEW k \in Commands, acquire(k) PROVE SettingUnderWay'
  <2>1. PICK o \in LockOwners, p \in {"holding", "rejected"} :
           command' = [command EXCEPT ![k].owner = o, ![k].pc = p]
    BY <1>6 DEF acquire
  <2>2. \A j \in Commands :
           /\ command'[j].pc = "syncing" <=> command[j].pc = "syncing"
           /\ command'[j].pc = "synced" <=> command[j].pc = "synced"
    BY <1>6, <2>1 DEF CommandsTypeOK, acquire
  <2>3. UNCHANGED settings
    BY <1>6 DEF acquire
  <2> QED
    BY <1>4, <2>2, <2>3
<1>7. ASSUME NEW k \in Commands, patch(k) PROVE SettingUnderWay'
  <2>1. /\ command[k].pc = "recorded" /\ command'[k].pc = "syncing"
        /\ \A j \in Commands \ {k} : command'[j] = command[j]
        /\ "gateway" \notin others' => gateway' = k
        /\ "pod" \notin others' => k \in inTransit'
        /\ inTransit' \subseteq inTransit \cup {k}
    BY <1>7 DEF CommandsTypeOK, Goes, patch
  <2>2. \A j \in Commands \ {k} : command'[j].pc \notin {"syncing", "synced"}
    BY <1>2, <2>1 DEF Working
  <2>3. inTransit = {}
    BY <1>1, <1>2, <1>3, <2>1 DEF Working
  <2>4. Holds("gateway", k)' /\ (k \in inTransit' \/ Holds("pod", k)')
    BY <2>1 DEF Holds, Copy
  <2> QED
    BY <1>3, <2>1, <2>2, <2>3, <2>4 DEF SettingUnderWay
<1>8. ASSUME NEW k \in Commands, podTakes(k) \/ podDrops(k) PROVE SettingUnderWay'
  <2>1. command[k].pc = "syncing" /\ UNCHANGED command
    BY <1>1, <1>8 DEF podTakes, podDrops
  <2>2. \A j \in Commands \ {k} : command[j].pc \notin {"syncing", "synced"}
    BY <1>2, <2>1 DEF Working
  <2>3. Holds("gateway", k)' /\ Holds("pod", k)'
    BY <1>1, <1>8, <2>1 DEF Holds, Copy, podTakes, podDrops
  <2>4. inTransit' \subseteq inTransit
    BY <1>8 DEF podTakes, podDrops
  <2> QED
    BY <1>1, <1>3, <2>1, <2>2, <2>3, <2>4 DEF SettingUnderWay
<1>9. ASSUME NEW k \in Commands, syncPodCommandWithRetry(k) \/ syncFails(k)
      PROVE  SettingUnderWay'
  <2>1. /\ command[k].pc = "syncing" /\ command'[k].pc = "synced"
        /\ \A j \in Commands \ {k} : command'[j] = command[j]
        /\ UNCHANGED <<gateway, runtime, pod, inTransit, others>>
    BY <1>9 DEF CommandsTypeOK, Goes, syncPodCommandWithRetry, syncFails, settings
  <2>2. \A j \in Commands \ {k} : command[j].pc \notin {"syncing", "synced"}
    BY <1>2, <2>1 DEF Working
  <2>3. k \notin inTransit
    BY <1>9 DEF syncPodCommandWithRetry, Awaited, syncFails, PodIsThere
  <2>4. Holds("gateway", k)' /\ Holds("pod", k)'
    BY <1>1, <2>1, <2>3 DEF Holds, Copy
  <2>5. inTransit = {}
    BY <1>1, <1>3, <2>2, <2>3
  <2> QED
    BY <1>3, <2>1, <2>2, <2>4, <2>5 DEF SettingUnderWay
<1>10. ASSUME NEW k \in Commands, setRuntime(k) PROVE SettingUnderWay'
  <2>1. /\ command[k].pc = "synced" /\ command'[k].pc = "releasing"
        /\ \A j \in Commands \ {k} : command'[j] = command[j]
        /\ "runtime" \notin others' => runtime' = k
        /\ \A c \in {"gateway", "pod"} : c \in others' <=> c \in others
        /\ UNCHANGED <<gateway, pod, inTransit>>
    BY <1>10 DEF CommandsTypeOK, Goes, setRuntime
  <2>2. \A j \in Commands : command'[j].pc \notin {"syncing", "synced"}
    BY <1>2, <2>1 DEF Working
  <2>3. inTransit = {}
    BY <1>1, <1>2, <1>3, <2>1 DEF Working
  <2>4. \A c \in Copies \ others' : Copy(c)' = k
    BY <1>1, <2>1 DEF Holds, Copy, Copies
  <2> QED
    BY <2>1, <2>2, <2>3, <2>4 DEF SettingUnderWay
<1>11. CASE Elsewhere
  <2>1. /\ UNCHANGED <<command, inTransit>>
        /\ others \subseteq others'
        /\ \A c \in Copies \ others' : Copy(c)' = Copy(c)
    BY <1>11, ElsewhereFact, ElsewhereHolds
  <2>2. \A k \in Commands, c \in Copies : Holds(c, k) => Holds(c, k)'
    BY <2>1 DEF Holds
  <2>3. "gateway" \in Copies /\ "pod" \in Copies
    BY DEF Copies
  <2> QED
    BY <1>1, <1>3, <2>1, <2>2, <2>3 DEF SettingUnderWay
<1>12. CASE expire \/ UNCHANGED commandVars
  BY <1>4, <1>12 DEF expire, commandVars, settings
<1> QED
  BY <1>5, <1>6, <1>7, <1>8, <1>9, <1>10, <1>11, <1>12 DEF CommandsNext

\* When nobody is under way, nobody is on the way to the pod.
LEMMA SettledAgree == SettingUnderWay => SettingsAgree
BY DEF SettingUnderWay, SettingsAgree, Working

\* No command has begun at first.
LEMMA CommandsInitHolds == CommandsInit => CommandsInv
<1> SUFFICES ASSUME CommandsInit
             PROVE  CommandsInv
  OBVIOUS
<1>1. CommandsTypeOK
  <2>1. [pc |-> "new", owner |-> Nobody, revision |-> 0]
           \in [pc: {"new", "rejected"} \cup Working \cup Ended,
                owner: LockOwners \cup {Nobody}, revision: Nat]
    OBVIOUS
  <2> QED
    BY <2>1 DEF CommandsInit, CommandsTypeOK, Copies
<1>2. LeaseIsHeld
  BY DEF CommandsInit, LeaseIsHeld, Working
<1>3. RevisionsInLog
  BY DEF CommandsInit, RevisionsInLog
<1>4. Newest(command, lastCommand)
  BY DEF CommandsInit, Newest
<1>5. SettingUnderWay
  BY DEF CommandsInit, SettingUnderWay, Copies, Copy
<1>6. PodIsThere
  BY DEF CommandsInit, PodIsThere
<1> QED
  BY <1>1, <1>2, <1>3, <1>4, <1>5, <1>6 DEF CommandsInv

\* Every step of the commands preserves the invariant.
LEMMA CommandsStep == CommandsInv /\ [CommandsNext]_commandVars => CommandsInv'
<1> SUFFICES ASSUME CommandsInv, [CommandsNext]_commandVars
             PROVE  CommandsInv'
  OBVIOUS
<1>1. CommandsTypeOK' /\ LeaseIsHeld' /\ RevisionsInLog' /\ PodIsThere' /\ SettingUnderWay'
  BY CommandsTypeStep, LeaseStep, RevisionStep, PodStep, SettingStep DEF CommandsInv
<1>2. "expired" \in troubles => "expired" \in troubles'
  BY ElsewhereFact DEF CommandsNext, commandVars, settings, deny, acquire, leaseEvent, intent, recordsCommand,
     fails, applyOther, patch, podTakes, podDrops, syncPodCommandWithRetry, Awaited, syncFails,
     setRuntime, releaseReads, releaseDeletes, expire
<1>3. "expired" \notin troubles' => Newest(command', lastCommand')
  BY <1>2, NewestStep DEF CommandsInv
<1> QED
  BY <1>1, <1>3 DEF CommandsInv, Newest

\* Runtime commands of one meeting, for any number of them and of owners: until a lease
\* runs out under its command they go one after the other, and the last one recorded is
\* the newest; if besides the pod answers in time, then of the gateway, the running avatar
\* and the pod those agree, when all are done, that were there for the last command, got
\* it and were not set by anybody else since (the runtime command route).
THEOREM CommandsInOrderCorrect == CommandsSpec => []CommandsInOrder
<1>1. CommandsInv => CommandsInOrder
  <2>1. CommandsInv => LastCommandIsNewest
    BY DEF CommandsInv, LastCommandIsNewest, Newest, Past
  <2> QED
    BY <2>1, OneAtATime, SettledAgree DEF CommandsInv, CommandsInOrder
<1> QED
  BY <1>1, CommandsInitHolds, CommandsStep, PTL DEF CommandsSpec

-----------------------------------------------------------------------------
(* The runtime event log                                                   *)

\* Who has loaded the log has an object with a state in it, and so has the key.
CallsHoldStates ==
    /\ loaded # NoKey => heap[loaded] # NoKey
    /\ \A c \in Calls : call[c].pc = "loaded" =>
          call[c].object \in Calls /\ heap[call[c].object] # NoKey

\* An event is appended by a call that has ended, and in a state no two events have one
\* id.
Named(s) == \A d, e \in s.events : d.id = e.id => d = e
EventsAreOfEnded ==
    \A c \in Calls : call[c].pc # "done" =>
        /\ \A o \in Calls : heap[o] # NoKey => c \notin Ids(heap[o].events)
        /\ savedLog # NoKey => c \notin Ids(savedLog.events)
        /\ \A p \in returned : p.event.id # c
EventsAreNamed ==
    /\ \A o \in Calls : heap[o] # NoKey => Named(heap[o])
    /\ savedLog # NoKey => Named(savedLog)

\* The log while it was neither loaded twice nor lost: what the next append changes.
Current == IF loaded # NoKey THEN heap[loaded]
           ELSE IF savedLog # NoKey THEN savedLog ELSE FreshState

\* Until then there is one object, no event has a revision above its own or that of
\* another event, and while it was not trimmed either, it has all events with their keys.
OneLog ==
    spoilt \subseteq {"trimmed"} =>
        /\ \A c \in Calls : call[c].pc = "loaded" => call[c].object = loaded
        /\ \A p \in returned : p.event.revision <= Current.revision
        /\ \A p, q \in returned : p.event.revision = q.event.revision => p.event = q.event
        /\ \A p \in returned, e \in Current.events :
              p.event.revision = e.revision => p.event = e
HasAll ==
    spoilt = {} =>
        \A p \in returned : /\ p.event \in Current.events
                            /\ p.key # NoKey => Current.index[p.key] = p.event.id

LogInv ==
    /\ LogTypeOK
    /\ CallsHoldStates
    /\ LogsAreGood
    /\ EventsAreOfEnded
    /\ EventsAreNamed
    /\ OneLog
    /\ HasAll

\* What a state is after an append: the new event is in it, and of the others those that
\* were not trimmed, each with its entry in the index.
LEMMA AppendedFact ==
    ASSUME NEW s \in LogState, GoodLog(s), Named(s), NEW c \in Calls, c \notin Ids(s.events),
           NEW key \in Keys \cup {NoKey}
    PROVE  LET event == [id |-> c, revision |-> s.revision + 1]
               next == Appended(s, c, key)
           IN  /\ next \in LogState /\ GoodLog(next) /\ Named(next)
               /\ next.revision = s.revision + 1
               /\ event \in next.events /\ next.events \subseteq s.events \cup {event}
               /\ {d \in next.events : d.id = c} = {event}
               /\ \A e \in s.events : e.id \in Ids(next.events) => e \in next.events
               /\ key \in Keys => next.index[key] = c
               /\ \A k \in Keys \ {key} :
                     s.index[k] \in Ids(next.events) => next.index[k] = s.index[k]
<1> DEFINE event == [id |-> c, revision |-> s.revision + 1]
           all == s.events \cup {event}
           events == Trimmed(all)
           index == [k \in Keys |-> IF k = key THEN c ELSE Pruned(s.index, events)[k]]
           next == Appended(s, c, key)
<1>1. /\ s.revision \in Nat /\ s.events \subseteq Event /\ s.index \in [Keys -> Calls \cup {NoKey}]
      /\ event \in Event
      /\ event.id = c /\ event.revision = s.revision + 1
  BY DEF LogState, Event
<1>2. next = [revision |-> s.revision + 1, events |-> events, index |-> index]
  BY DEF Appended
<1>3. \A e \in s.events : e.revision \in 1..s.revision
  BY DEF GoodLog
<1>4. events \subseteq all
  BY DEF Trimmed
<1>5. event \in events
  <2>1. CASE Cardinality(all) <= MaxEvents
    BY <2>1 DEF Trimmed
  <2>2. CASE ~(Cardinality(all) <= MaxEvents)
    <3>1. s.events # {}
      <4> SUFFICES ASSUME s.events = {}
                   PROVE  FALSE
        OBVIOUS
      <4>1. all = {event}
        OBVIOUS
      <4>2. Cardinality(all) = 1
        BY <4>1, FS_Singleton
      <4> QED
        BY <2>2, <4>2, EventsAssumption
    <3>2. PICK d \in s.events : d.revision < event.revision
      BY <1>1, <1>3, <3>1
    <3> QED
      BY <2>2, <3>2 DEF Trimmed
  <2> QED
    BY <2>1, <2>2
<1> HIDE DEF events
<1>6. \A e \in s.events : e.id # c
  BY DEF Ids
<1>7. \A e \in events : e.id = c => e = event
  BY <1>4, <1>6
<1>8. index \in [Keys -> Calls \cup {NoKey}]
  <2>1. \A k \in Keys : Pruned(s.index, events)[k] \in {s.index[k], NoKey}
    BY DEF Pruned
  <2> QED
    BY <1>1, <2>1
<1>9. next \in LogState
  BY <1>1, <1>2, <1>4, <1>8 DEF LogState
<1>10. \A d, e \in events : (d.id = e.id => d = e) /\ (d.revision = e.revision => d = e)
  <2> SUFFICES ASSUME NEW d \in events, NEW e \in events
               PROVE  (d.id = e.id => d = e) /\ (d.revision = e.revision => d = e)
    OBVIOUS
  <2>1. CASE d \in s.events /\ e \in s.events
    BY <2>1 DEF GoodLog, Named
  <2>2. CASE d = event /\ e \in s.events
    BY <1>1, <1>3, <1>6, <2>2
  <2>3. CASE e = event /\ d \in s.events
    BY <1>1, <1>3, <1>6, <2>3
  <2> QED
    BY <1>4, <2>1, <2>2, <2>3
<1>11. \A e \in events : e.revision \in 1..(s.revision + 1)
  BY <1>1, <1>3, <1>4
<1>12. \A k \in Keys : index[k] = NoKey \/ index[k] \in Ids(events)
  <2>1. c \in Ids(events)
    BY <1>1, <1>5 DEF Ids
  <2> QED
    BY <2>1 DEF Pruned
<1>13. GoodLog(next) /\ Named(next)
  <2>1. next.events = events /\ next.revision = s.revision + 1 /\ next.index = index
    BY <1>2
  <2> HIDE DEF next, index, event
  <2> QED
    BY <1>10, <1>11, <1>12, <2>1 DEF GoodLog, Named
<1>14. {d \in events : d.id = c} = {event}
  BY <1>1, <1>5, <1>7
<1>15. \A e \in s.events : e.id \in Ids(events) => e \in events
  <2> SUFFICES ASSUME NEW e \in s.events, e.id \in Ids(events)
               PROVE  e \in events
    OBVIOUS
  <2>1. PICK d \in events : d.id = e.id
    BY DEF Ids
  <2>2. d \in s.events
    BY <1>1, <1>4, <1>6, <2>1
  <2> QED
    BY <2>1, <2>2 DEF Named
<1>16. \A k \in Keys \ {key} : s.index[k] \in Ids(events) => index[k] = s.index[k]
  BY DEF Pruned
<1>17. key \in Keys => index[key] = c
  OBVIOUS
<1>18. next.events = events /\ next.revision = s.revision + 1 /\ next.index = index
  BY <1>2
<1> HIDE DEF next, index, event
<1> QED
  BY <1>4, <1>5, <1>9, <1>13, <1>14, <1>15, <1>16, <1>17, <1>18 DEF next, event

\* What recording a command makes of a good log: only the revision moves, and never back.
LEMMA RecordedFact ==
    ASSUME NEW s \in LogState, GoodLog(s), Named(s), NEW n \in Nat
    PROVE  /\ Recorded(s, n) \in LogState /\ GoodLog(Recorded(s, n)) /\ Named(Recorded(s, n))
           /\ Recorded(s, n).events = s.events /\ Recorded(s, n).index = s.index
           /\ Recorded(s, n).revision \in Nat /\ s.revision <= Recorded(s, n).revision
           /\ n <= s.revision => Recorded(s, n) = s
<1> DEFINE m == IF n > s.revision THEN n ELSE s.revision
<1>1. /\ s.revision \in Nat /\ s.events \subseteq Event
      /\ s.index \in [Keys -> Calls \cup {NoKey}]
      /\ s = [revision |-> s.revision, events |-> s.events, index |-> s.index]
  BY DEF LogState
<1>2. Recorded(s, n) = [revision |-> m, events |-> s.events, index |-> s.index]
  BY <1>1 DEF Recorded
<1>3. m \in Nat /\ s.revision <= m /\ (n <= s.revision => m = s.revision)
  BY <1>1
<1> HIDE DEF m
<1>4. Recorded(s, n) \in LogState
  BY <1>1, <1>2, <1>3 DEF LogState
<1>5. GoodLog(Recorded(s, n)) /\ Named(Recorded(s, n))
  <2>1. \A e \in s.events : e.revision \in 1..m
    <3>1. \A e \in s.events : e.revision \in 1..s.revision
      BY DEF GoodLog
    <3> QED
      BY <1>1, <1>3, <3>1
  <2> QED
    BY <1>2, <2>1 DEF GoodLog, Named
<1> QED
  BY <1>1, <1>2, <1>3, <1>4, <1>5

\* No call has begun at first, and Redis has no log.
LEMMA LogInitHolds == LogInit => LogInv
<1> SUFFICES ASSUME LogInit
             PROVE  LogInv
  OBVIOUS
<1>1. LogTypeOK
  BY EventsAssumption DEF LogInit, LogTypeOK
<1>2. CallsHoldStates /\ LogsAreGood /\ EventsAreOfEnded /\ EventsAreNamed
  BY DEF LogInit, CallsHoldStates, LogsAreGood, EventsAreOfEnded, EventsAreNamed
<1>3. OneLog /\ HasAll
  BY DEF LogInit, OneLog, HasAll
<1> QED
  BY <1>1, <1>2, <1>3 DEF LogInv

\* A call that begins has loaded nothing yet.
LEMMA BeginCallPreserves ==
    ASSUME LogInv, NEW c \in Calls, BeginCall(c)
    PROVE  LogInv'
<1>1. /\ UNCHANGED <<heap, loaded, savedLog, returned, crashes, spoilt>>
      /\ call' = [call EXCEPT ![c] = IF loaded = NoKey
                                     THEN [pc |-> "loading", object |-> NoKey]
                                     ELSE [pc |-> "loaded", object |-> loaded]]
      /\ call[c].pc = "new"
  BY DEF BeginCall
<1>2. LogTypeOK'
  <2>1. call' \in [Calls -> [pc: {"new", "loading", "loaded", "done"},
                             object: Calls \cup {NoKey}]]
    BY <1>1 DEF LogInv, LogTypeOK
  <2> QED
    BY <1>1, <2>1 DEF LogInv, LogTypeOK
<1>3. call'[c] \in {[pc |-> "loading", object |-> NoKey], [pc |-> "loaded", object |-> loaded]}
  BY <1>1 DEF LogInv, LogTypeOK
<1>4. call'[c].pc = "loaded" => call'[c].object = loaded /\ loaded # NoKey
  BY <1>1 DEF LogInv, LogTypeOK
<1>5. \A d \in Calls \ {c} : call'[d] = call[d]
  BY <1>1 DEF LogInv, LogTypeOK
<1>6. CallsHoldStates'
  BY <1>1, <1>4, <1>5 DEF LogInv, LogTypeOK, CallsHoldStates
<1>7. LogsAreGood' /\ EventsAreNamed' /\ HasAll'
  BY <1>1 DEF LogInv, LogsAreGood, EventsAreNamed, HasAll, Current
<1>8. EventsAreOfEnded'
  <2>1. \A d \in Calls : call'[d].pc # "done" => call[d].pc # "done"
    BY <1>1, <1>5
  <2> QED
    BY <1>1, <2>1 DEF LogInv, EventsAreOfEnded
<1>9. OneLog'
  BY <1>1, <1>4, <1>5 DEF LogInv, OneLog, Current
<1> QED
  BY <1>2, <1>6, <1>7, <1>8, <1>9 DEF LogInv

\* The object that is loaded is what the log was, unless it is loaded twice or Redis does
\* not answer.
LEMMA LoadPreserves ==
    ASSUME LogInv, NEW c \in Calls, Load(c)
    PROVE  LogInv'
<1>1. PICK failed \in BOOLEAN :
         /\ heap' = [heap EXCEPT ![c] = IF failed \/ savedLog = NoKey THEN FreshState
                                        ELSE savedLog]
         /\ spoilt' = spoilt \cup (IF loaded # NoKey THEN {"replaced"} ELSE {})
                             \cup (IF failed /\ savedLog # NoKey THEN {"unread"} ELSE {})
  BY DEF Load
<1>2. /\ call[c].pc = "loading"
      /\ loaded' = c
      /\ call' = [call EXCEPT ![c] = [pc |-> "loaded", object |-> c]]
      /\ UNCHANGED <<savedLog, returned, crashes>>
  BY DEF Load
<1>3. FreshState \in LogState /\ GoodLog(FreshState) /\ Named(FreshState)
  <2>1. FreshState \in LogState
    BY DEF FreshState, LogState
  <2>2. FreshState.events = {} /\ \A k \in Keys : FreshState.index[k] = NoKey
    BY DEF FreshState
  <2> QED
    BY <2>1, <2>2 DEF GoodLog, Named
<1>4. /\ heap'[c] \in {FreshState, savedLog} \cap LogState
      /\ heap'[c] # NoKey
      /\ \A o \in Calls \ {c} : heap'[o] = heap[o]
      /\ call'[c] = [pc |-> "loaded", object |-> c]
      /\ \A d \in Calls \ {c} : call'[d] = call[d]
  BY <1>1, <1>2, <1>3, EventsAssumption DEF LogInv, LogTypeOK
<1>5. LogTypeOK'
  <2>1. heap' \in [Calls -> LogState \cup {NoKey}]
    BY <1>1, <1>3 DEF LogInv, LogTypeOK
  <2>2. call' \in [Calls -> [pc: {"new", "loading", "loaded", "done"},
                             object: Calls \cup {NoKey}]]
    BY <1>2 DEF LogInv, LogTypeOK
  <2>3. spoilt' \subseteq {"replaced", "unread", "trimmed", "unsaved"}
    BY <1>1 DEF LogInv, LogTypeOK
  <2> QED
    BY <1>2, <2>1, <2>2, <2>3 DEF LogInv, LogTypeOK
<1>6. CallsHoldStates'
  <2>1. \A o \in Calls : heap[o] # NoKey => heap'[o] # NoKey
    BY <1>4
  <2> QED
    BY <1>2, <1>4, <2>1 DEF LogInv, CallsHoldStates
<1>7. heap'[c] = FreshState \/ (savedLog # NoKey /\ heap'[c] = savedLog)
  BY <1>4
<1>8. LogsAreGood' /\ EventsAreNamed'
  <2>1. GoodLog(heap'[c]) /\ Named(heap'[c])
    BY <1>3, <1>7 DEF LogInv, LogsAreGood, EventsAreNamed
  <2> QED
    BY <1>2, <1>4, <2>1 DEF LogInv, LogsAreGood, EventsAreNamed
<1>9. EventsAreOfEnded'
  <2> SUFFICES ASSUME NEW d \in Calls, call'[d].pc # "done"
               PROVE  /\ \A o \in Calls : heap'[o] # NoKey => d \notin Ids(heap'[o].events)
                      /\ savedLog # NoKey => d \notin Ids(savedLog.events)
                      /\ \A p \in returned : p.event.id # d
    BY <1>2 DEF EventsAreOfEnded
  <2>1. call[d].pc # "done"
    BY <1>2, <1>4
  <2>2. /\ \A o \in Calls : heap[o] # NoKey => d \notin Ids(heap[o].events)
        /\ savedLog # NoKey => d \notin Ids(savedLog.events)
        /\ \A p \in returned : p.event.id # d
    BY <2>1 DEF LogInv, EventsAreOfEnded
  <2>3. d \notin Ids(heap'[c].events)
    BY <1>7, <2>2 DEF Ids, FreshState
  <2> QED
    BY <1>4, <2>2, <2>3
<1>10. ASSUME spoilt' \subseteq {"trimmed"}
       PROVE  /\ loaded = NoKey /\ Current' = Current
              /\ \A d \in Calls : call'[d].pc = "loaded" => call'[d].object = c
  <2>1. loaded = NoKey /\ (savedLog # NoKey => heap'[c] = savedLog)
        /\ spoilt \subseteq {"trimmed"}
    BY <1>1, <1>4, <1>10 DEF LogInv, LogTypeOK
  <2>2. c # NoKey
    BY EventsAssumption
  <2>3. Current' = Current
    BY <1>2, <1>7, <2>1, <2>2 DEF Current
  <2>4. \A d \in Calls : call[d].pc = "loaded" => call[d].object = loaded /\ call[d].object \in Calls
    BY <2>1 DEF LogInv, OneLog, CallsHoldStates
  <2>5. \A d \in Calls \ {c} : call'[d].pc # "loaded"
    BY <1>4, <2>1, <2>4, EventsAssumption
  <2> QED
    BY <1>4, <2>1, <2>3, <2>5
<1>11. spoilt \subseteq spoilt'
  BY <1>1
<1>12. OneLog'
  BY <1>2, <1>10, <1>11 DEF LogInv, OneLog
<1>13. HasAll'
  BY <1>2, <1>10, <1>11 DEF LogInv, HasAll
<1> QED
  BY <1>5, <1>6, <1>8, <1>9, <1>12, <1>13 DEF LogInv

\* What the key has after a call's SET, sent or lost: a good state in the call's object,
\* with events of the state that was there and the call's own.
LEMMA SavePreserves ==
    ASSUME LogInv, NEW c \in Calls, call[c].pc = "loaded", Done(c), UNCHANGED crashes,
           NEW s \in LogState, GoodLog(s), Named(s), saveState(c, s),
           Ids(s.events) \subseteq Ids(heap[call[c].object].events) \cup {c},
           NEW t, t \subseteq {"trimmed"}, spoilt' = spoilt \cup t,
           returned' \subseteq [key: Keys \cup {NoKey}, event: Event],
           \A p \in returned' : p \in returned \/ p.event.id = c
    PROVE  /\ LogTypeOK' /\ CallsHoldStates' /\ LogsAreGood' /\ EventsAreOfEnded'
           /\ EventsAreNamed'
           /\ Current' = s
           /\ spoilt \subseteq {"trimmed"} =>
                 /\ Current = heap[call[c].object]
                 /\ \A d \in Calls : call'[d].pc = "loaded" => call'[d].object = loaded'
<1> DEFINE o == call[c].object
<1>1. /\ o \in Calls /\ heap[o] # NoKey
      /\ heap' = [heap EXCEPT ![o] = s] /\ loaded' = o /\ savedLog' \in {s, savedLog}
      /\ call' = [call EXCEPT ![c].pc = "done"]
      /\ s # NoKey
  BY EventsAssumption DEF LogInv, CallsHoldStates, saveState, Done
<1> HIDE DEF o
<1>2. /\ heap'[o] = s /\ \A q \in Calls \ {o} : heap'[q] = heap[q]
      /\ call'[c].pc = "done" /\ \A d \in Calls \ {c} : call'[d] = call[d]
      /\ o # NoKey
  BY <1>1, EventsAssumption DEF LogInv, LogTypeOK
<1>3. LogTypeOK'
  <2>1. heap' \in [Calls -> LogState \cup {NoKey}] /\ savedLog' \in LogState \cup {NoKey}
    BY <1>1 DEF LogInv, LogTypeOK
  <2>2. call' \in [Calls -> [pc: {"new", "loading", "loaded", "done"},
                             object: Calls \cup {NoKey}]]
    BY <1>1 DEF LogInv, LogTypeOK
  <2>3. spoilt' \subseteq {"replaced", "unread", "trimmed", "unsaved"}
    BY DEF LogInv, LogTypeOK
  <2>4. crashes' \in Nat
    BY DEF LogInv, LogTypeOK
  <2> QED
    BY <1>1, <2>1, <2>2, <2>3, <2>4 DEF LogTypeOK
<1>4. CallsHoldStates'
  <2>1. \A q \in Calls : heap[q] # NoKey => heap'[q] # NoKey
    BY <1>1, <1>2
  <2> QED
    BY <1>1, <1>2, <2>1 DEF LogInv, CallsHoldStates
<1>5. LogsAreGood' /\ EventsAreNamed'
  BY <1>1, <1>2 DEF LogInv, LogsAreGood, EventsAreNamed
<1>6. EventsAreOfEnded'
  <2> SUFFICES ASSUME NEW d \in Calls, call'[d].pc # "done"
               PROVE  /\ \A q \in Calls : heap'[q] # NoKey => d \notin Ids(heap'[q].events)
                      /\ savedLog' # NoKey => d \notin Ids(savedLog'.events)
                      /\ \A p \in returned' : p.event.id # d
    BY DEF EventsAreOfEnded
  <2>1. d # c /\ call[d].pc # "done"
    BY <1>2
  <2>2. /\ \A q \in Calls : heap[q] # NoKey => d \notin Ids(heap[q].events)
        /\ savedLog # NoKey => d \notin Ids(savedLog.events)
        /\ \A p \in returned : p.event.id # d
    BY <2>1 DEF LogInv, EventsAreOfEnded
  <2>3. d \notin Ids(s.events)
    BY <1>1, <2>1, <2>2 DEF o
  <2> QED
    BY <1>1, <1>2, <2>1, <2>2, <2>3
<1>7. Current' = s
  BY <1>1, <1>2 DEF Current
<1>8. ASSUME spoilt \subseteq {"trimmed"}
      PROVE  /\ Current = heap[o]
             /\ \A d \in Calls : call'[d].pc = "loaded" => call'[d].object = loaded'
  <2>1. \A d \in Calls : call[d].pc = "loaded" => call[d].object = loaded
    BY <1>8 DEF LogInv, OneLog
  <2>2. loaded = o
    BY <2>1 DEF o
  <2> QED
    BY <1>1, <1>2, <2>1, <2>2 DEF Current
<1> QED
  BY <1>3, <1>4, <1>5, <1>6, <1>7, <1>8 DEF o

\* A new event is the only one with its revision; an old one is found by its key.
LEMMA AppendPreserves ==
    ASSUME LogInv, NEW c \in Calls, append(c)
    PROVE  LogInv'
<1> DEFINE s == heap[call[c].object]
<1>1. call[c].pc = "loaded" /\ Done(c) /\ UNCHANGED crashes
  BY DEF append
<1>2. PICK key \in Keys \cup {NoKey} :
         IF Existing(s, key) # {}
         THEN /\ returned' = returned \cup {[key |-> key, event |-> e] : e \in Existing(s, key)}
              /\ UNCHANGED <<heap, loaded, savedLog, spoilt>>
         ELSE /\ returned' = returned \cup
                    {[key |-> key, event |-> e] : e \in {d \in Appended(s, c, key).events :
                                                            d.id = c}}
              /\ saveState(c, Appended(s, c, key))
              /\ spoilt' = spoilt \cup IF Ids(s.events) \subseteq Ids(Appended(s, c, key).events)
                                       THEN {} ELSE {"trimmed"}
  BY DEF append
<1>3. /\ call[c].object \in Calls /\ s \in LogState /\ s # NoKey
      /\ GoodLog(s) /\ Named(s) /\ c \notin Ids(s.events)
  BY <1>1 DEF LogInv, LogTypeOK, CallsHoldStates, LogsAreGood, EventsAreNamed,
     EventsAreOfEnded
<1>4. s.events \subseteq Event /\ s.index \in [Keys -> Calls \cup {NoKey}] /\ s.revision \in Nat
  BY <1>3 DEF LogState
<1>5. /\ returned \subseteq [key: Keys \cup {NoKey}, event: Event]
      /\ NoKey \notin Calls \cup Keys
  BY EventsAssumption DEF LogInv, LogTypeOK
<1> HIDE DEF s
<1>6. CASE Existing(s, key) # {}
  <2>1. PICK e \in s.events : key # NoKey /\ e.id = s.index[key]
    BY <1>6 DEF Existing
  <2>2. Existing(s, key) = {e}
    BY <1>3, <2>1 DEF Existing, Named
  <2>3. returned' = returned \cup {[key |-> key, event |-> e]}
    BY <1>2, <1>6, <2>2
  <2>4. UNCHANGED <<heap, loaded, savedLog, spoilt, crashes>>
    BY <1>1, <1>2, <1>6
  <2>5. /\ call' \in [Calls -> [pc: {"new", "loading", "loaded", "done"},
                               object: Calls \cup {NoKey}]]
        /\ call'[c].pc = "done" /\ \A d \in Calls \ {c} : call'[d] = call[d]
    BY <1>1 DEF LogInv, LogTypeOK, Done
  <2>6. LogTypeOK'
    BY <1>4, <2>3, <2>4, <2>5 DEF LogInv, LogTypeOK
  <2>7. CallsHoldStates' /\ LogsAreGood' /\ EventsAreNamed'
    BY <2>4, <2>5 DEF LogInv, CallsHoldStates, LogsAreGood, EventsAreNamed
  <2>8. EventsAreOfEnded'
    <3>1. \A d \in Calls : call'[d].pc # "done" => call[d].pc # "done" /\ e.id # d
      <4>1. \A d \in Calls : call[d].pc # "done" => d \notin Ids(s.events)
        BY <1>3 DEF LogInv, EventsAreOfEnded, s
      <4> QED
        BY <2>5, <4>1 DEF Ids
    <3> QED
      BY <2>3, <2>4, <3>1 DEF LogInv, EventsAreOfEnded
  <2>9. ASSUME spoilt \subseteq {"trimmed"} PROVE Current = s
    BY <1>1, <1>3, <1>5, <2>9 DEF LogInv, OneLog, Current, s
  <2>10. UNCHANGED Current
    BY <2>4 DEF Current
  <2>11. OneLog'
    <3> SUFFICES ASSUME spoilt \subseteq {"trimmed"}
                 PROVE  OneLog'
      BY <2>4 DEF OneLog
    <3>1. /\ \A d \in Calls : call[d].pc = "loaded" => call[d].object = loaded
          /\ \A p \in returned : p.event.revision <= s.revision
          /\ \A p, q \in returned : p.event.revision = q.event.revision => p.event = q.event
          /\ \A p \in returned, d \in s.events :
                p.event.revision = d.revision => p.event = d
      BY <2>9 DEF LogInv, OneLog
    <3>2. /\ e.revision <= s.revision
          /\ \A d \in s.events : e.revision = d.revision => e = d
      BY <1>3, <1>4, <2>1 DEF GoodLog
    <3>3. Current' = s
      BY <2>9, <2>10
    <3>4. \A p \in returned' : p \in returned \/ p.event = e
      BY <2>3
    <3> QED
      BY <2>1, <2>4, <2>5, <3>1, <3>2, <3>3, <3>4 DEF OneLog
  <2>12. HasAll'
    BY <2>1, <2>3, <2>4, <2>9, <2>10 DEF LogInv, HasAll
  <2> QED
    BY <2>6, <2>7, <2>8, <2>11, <2>12 DEF LogInv
<1>7. CASE Existing(s, key) = {}
  <2> DEFINE event == [id |-> c, revision |-> s.revision + 1]
             next == Appended(s, c, key)
             t == IF Ids(s.events) \subseteq Ids(next.events) THEN {} ELSE {"trimmed"}
  <2>1. /\ next \in LogState /\ GoodLog(next) /\ Named(next)
        /\ next.revision = s.revision + 1
        /\ event \in next.events /\ next.events \subseteq s.events \cup {event}
        /\ {d \in next.events : d.id = c} = {event}
        /\ \A e \in s.events : e.id \in Ids(next.events) => e \in next.events
        /\ key \in Keys => next.index[key] = c
        /\ \A k \in Keys \ {key} : s.index[k] \in Ids(next.events) => next.index[k] = s.index[k]
    BY <1>3, AppendedFact
  <2>2. /\ event.id = c /\ event.revision = s.revision + 1 /\ event \in Event
        /\ t \subseteq {"trimmed"}
    BY <1>4 DEF Event
  <2>3. /\ saveState(c, next) /\ spoilt' = spoilt \cup t
        /\ returned' = returned \cup {[key |-> key, event |-> event]}
    BY <1>2, <1>7, <2>1
  <2> HIDE DEF next, event
  <2>4. Ids(next.events) \subseteq Ids(s.events) \cup {c}
    BY <2>1, <2>2 DEF Ids
  <2>5. /\ returned' \subseteq [key: Keys \cup {NoKey}, event: Event]
        /\ \A p \in returned' : p \in returned \/ p.event.id = c
    BY <1>5, <2>2, <2>3
  <2>6. /\ LogTypeOK' /\ CallsHoldStates' /\ LogsAreGood' /\ EventsAreOfEnded'
        /\ EventsAreNamed'
        /\ Current' = next
        /\ spoilt \subseteq {"trimmed"} =>
              /\ Current = s
              /\ \A d \in Calls : call'[d].pc = "loaded" => call'[d].object = loaded'
    <3> HIDE DEF t
    <3> QED
      BY <1>1, <2>1, <2>2, <2>3, <2>4, <2>5, SavePreserves DEF s
  <2>7. OneLog'
    <3> SUFFICES ASSUME spoilt' \subseteq {"trimmed"}
                 PROVE  OneLog'
      BY DEF OneLog
    <3>1. spoilt \subseteq {"trimmed"}
      BY <2>3
    <3>2. /\ \A p \in returned : p.event.revision <= s.revision
          /\ \A p, q \in returned : p.event.revision = q.event.revision => p.event = q.event
          /\ \A p \in returned, d \in s.events :
                p.event.revision = d.revision => p.event = d
      BY <2>6, <3>1 DEF LogInv, OneLog
    <3>3. /\ \A p \in returned : p.event.revision \in Nat
          /\ \A d \in s.events : d.revision \in Nat /\ d.revision <= s.revision
      BY <1>3, <1>4, <1>5 DEF GoodLog, Event
    <3>4. \A p \in returned' : (p \in returned /\ p.event.revision < event.revision) \/ p.event = event
      BY <1>4, <2>2, <2>3, <3>2, <3>3
    <3>5. \A d \in next.events :
             (d \in s.events /\ d.revision < event.revision) \/ d = event
      BY <1>4, <2>1, <2>2, <3>3
    <3>6. \A p \in returned' : p.event.revision <= next.revision
      BY <1>4, <2>1, <2>2, <3>3, <3>4
    <3>7. event.revision \in Nat
      BY <1>4, <2>2
    <3>8. \A p, q \in returned' : p.event.revision = q.event.revision => p.event = q.event
      BY <3>2, <3>3, <3>4, <3>7
    <3>9. \A p \in returned', d \in next.events : p.event.revision = d.revision => p.event = d
      BY <3>2, <3>3, <3>4, <3>5, <3>7
    <3> QED
      BY <2>6, <3>1, <3>6, <3>8, <3>9 DEF OneLog
  <2>8. HasAll'
    <3> SUFFICES ASSUME spoilt' = {}, NEW p \in returned'
                 PROVE  /\ p.event \in next.events
                        /\ p.key # NoKey => next.index[p.key] = p.event.id
      BY <2>6 DEF HasAll
    <3>1. spoilt = {} /\ Ids(s.events) \subseteq Ids(next.events)
      BY <2>3
    <3>2. CASE p \in returned
      <4>1. p.event \in s.events /\ (p.key # NoKey => s.index[p.key] = p.event.id)
        BY <2>6, <3>1, <3>2 DEF LogInv, HasAll
      <4>2. p.event.id \in Ids(next.events)
        BY <3>1, <4>1 DEF Ids
      <4>3. p.key # key \/ key = NoKey
        BY <1>7, <4>1 DEF Existing
      <4>4. p.key \in Keys \cup {NoKey}
        BY <1>5, <3>2
      <4> QED
        BY <2>1, <4>1, <4>2, <4>3, <4>4
    <3>3. CASE p = [key |-> key, event |-> event]
      BY <2>1, <2>2, <3>3
    <3> QED
      BY <2>3, <3>2, <3>3
  <2> QED
    BY <2>6, <2>7, <2>8 DEF LogInv
<1> QED
  BY <1>6, <1>7

\* A recorded command takes the revision of an event that was answered: while nothing
\* is lost, the state is not behind it.
LEMMA RecordPreserves ==
    ASSUME LogInv, NEW c \in Calls, recordCommand(c)
    PROVE  LogInv'
<1> DEFINE s == heap[call[c].object]
<1>1. /\ call[c].pc = "loaded" /\ Done(c) /\ UNCHANGED <<returned, crashes, spoilt>>
  BY DEF recordCommand
<1>2. PICK r \in returned : saveState(c, Recorded(s, r.event.revision))
  BY DEF recordCommand
<1>3. /\ s \in LogState /\ GoodLog(s) /\ Named(s) /\ s.revision \in Nat
      /\ returned \subseteq [key: Keys \cup {NoKey}, event: Event]
  BY <1>1 DEF LogInv, LogTypeOK, CallsHoldStates, LogsAreGood, EventsAreNamed, LogState
<1> DEFINE n == r.event.revision
           next == Recorded(s, n)
<1>4. /\ n \in Nat
      /\ \A p \in returned : p.event.revision \in Nat
  BY <1>3 DEF Event
<1>5. /\ next \in LogState /\ GoodLog(next) /\ Named(next)
      /\ next.events = s.events /\ next.index = s.index
      /\ n <= s.revision => next = s
  <2> HIDE DEF s, n
  <2> QED
    BY <1>3, <1>4, RecordedFact
<1> HIDE DEF s, n, next
<1>6. Ids(next.events) \subseteq Ids(s.events) \cup {c} /\ spoilt' = spoilt \cup {}
  BY <1>1, <1>5
<1>7. saveState(c, next)
  BY <1>2 DEF next, n
<1>8. /\ LogTypeOK' /\ CallsHoldStates' /\ LogsAreGood' /\ EventsAreOfEnded'
      /\ EventsAreNamed'
      /\ Current' = next
      /\ spoilt \subseteq {"trimmed"} =>
            /\ Current = s
            /\ \A d \in Calls : call'[d].pc = "loaded" => call'[d].object = loaded'
  BY <1>1, <1>3, <1>5, <1>6, <1>7, SavePreserves DEF s
<1>9. ASSUME spoilt \subseteq {"trimmed"} PROVE next = s
  <2>1. n <= s.revision
    BY <1>8, <1>9 DEF LogInv, OneLog, n
  <2> QED
    BY <1>5, <2>1
<1>10. OneLog'
  BY <1>1, <1>8, <1>9 DEF LogInv, OneLog
<1>11. HasAll'
  BY <1>1, <1>8, <1>9 DEF LogInv, HasAll
<1> QED
  BY <1>8, <1>10, <1>11 DEF LogInv

\* What a restart finds is what was in memory, unless a SET was lost.
LEMMA CrashPreserves ==
    ASSUME LogInv, Crash
    PROVE  LogInv'
<1>1. /\ loaded' = NoKey
      /\ heap' = [c \in Calls |-> NoKey]
      /\ call' = [c \in Calls |-> IF call[c].pc = "new" THEN call[c]
                                  ELSE [pc |-> "done", object |-> NoKey]]
      /\ spoilt' = spoilt \cup IF loaded # NoKey /\ savedLog # heap[loaded] THEN {"unsaved"}
                               ELSE {}
      /\ UNCHANGED <<savedLog, returned>>
      /\ crashes' = crashes + 1
  BY DEF Crash
<1>2. \A c \in Calls : (call'[c] = call[c] /\ call[c].pc = "new") \/ call'[c].pc = "done"
  BY <1>1
<1>3. LogTypeOK'
  <2>1. call' \in [Calls -> [pc: {"new", "loading", "loaded", "done"},
                             object: Calls \cup {NoKey}]]
    BY <1>1 DEF LogInv, LogTypeOK
  <2>2. spoilt' \subseteq {"replaced", "unread", "trimmed", "unsaved"}
    BY <1>1 DEF LogInv, LogTypeOK
  <2> QED
    BY <1>1, <2>1, <2>2 DEF LogInv, LogTypeOK
<1>4. CallsHoldStates'
  BY <1>1, <1>2 DEF CallsHoldStates
<1>5. LogsAreGood' /\ EventsAreNamed'
  BY <1>1 DEF LogInv, LogsAreGood, EventsAreNamed
<1>6. EventsAreOfEnded'
  BY <1>1, <1>2 DEF LogInv, EventsAreOfEnded
<1>7. ASSUME spoilt' \subseteq {"trimmed"} PROVE Current' = Current
  <2>1. loaded = NoKey \/ (savedLog = heap[loaded] /\ heap[loaded] # NoKey)
    BY <1>1, <1>7 DEF LogInv, CallsHoldStates
  <2> QED
    BY <1>1, <2>1 DEF Current
<1>8. spoilt \subseteq spoilt'
  BY <1>1
<1>9. OneLog'
  BY <1>1, <1>2, <1>7, <1>8 DEF LogInv, OneLog
<1>10. HasAll'
  BY <1>1, <1>7, <1>8 DEF LogInv, HasAll
<1> QED
  BY <1>3, <1>4, <1>5, <1>6, <1>9, <1>10 DEF LogInv

\* Every step of the log preserves the invariant.
LEMMA LogStep == LogInv /\ [LogNext]_logVars => LogInv'
<1> SUFFICES ASSUME LogInv, [LogNext]_logVars
             PROVE  LogInv'
  OBVIOUS
<1>1. ASSUME NEW c \in Calls, BeginCall(c) PROVE LogInv'
  BY <1>1, BeginCallPreserves
<1>2. ASSUME NEW c \in Calls, Load(c) PROVE LogInv'
  BY <1>2, LoadPreserves
<1>3. ASSUME NEW c \in Calls, append(c) PROVE LogInv'
  BY <1>3, AppendPreserves
<1>4. ASSUME NEW c \in Calls, recordCommand(c) PROVE LogInv'
  BY <1>4, RecordPreserves
<1>5. CASE Crash
  BY <1>5, CrashPreserves
<1>6. CASE UNCHANGED logVars
  BY <1>6 DEF logVars, LogInv, LogTypeOK, CallsHoldStates, LogsAreGood, EventsAreOfEnded,
     EventsAreNamed, OneLog, HasAll, Current
<1> QED
  BY <1>1, <1>2, <1>3, <1>4, <1>5, <1>6 DEF LogNext

\* The event log of a key, for any calls, keys, length and number of restarts: every copy
\* of it is good whatever is lost or overwritten, no two events that were answered have
\* one revision, and two calls with one idempotency key are answered with one event,
\* except for what OneEventPerKey excepts (append and recordCommand).
THEOREM AppendedOnceCorrect == LogSpec => []AppendedOnce
<1>1. LogInv => OneEventPerKey
  <2> SUFFICES ASSUME LogInv, NEW p \in returned, NEW q \in returned
               PROVE  /\ p.key = q.key /\ p.key # NoKey /\ spoilt = {} => p.event = q.event
                      /\ p.event.revision = q.event.revision /\ spoilt \subseteq {"trimmed"}
                            => p.event = q.event
    BY DEF OneEventPerKey
  <2>1. p.event.revision = q.event.revision /\ spoilt \subseteq {"trimmed"}
           => p.event = q.event
    BY DEF LogInv, OneLog
  <2>2. ASSUME p.key = q.key, p.key # NoKey, spoilt = {} PROVE p.event = q.event
    <3>1. /\ p.event \in Current.events /\ q.event \in Current.events
          /\ p.event.id = q.event.id
      BY <2>2 DEF LogInv, HasAll
    <3>2. Named(Current)
      BY <2>2, <3>1 DEF LogInv, EventsAreNamed, CallsHoldStates, LogTypeOK, Current, FreshState,
         Named
    <3> QED
      BY <3>1, <3>2 DEF Named
  <2> QED
    BY <2>1, <2>2
<1>2. LogInv => AppendedOnce
  BY <1>1 DEF LogInv, AppendedOnce
<1> QED
  BY <1>2, LogInitHolds, LogStep, PTL DEF LogSpec

-----------------------------------------------------------------------------
(* The realtime sessions                                                   *)

\* Sessions of the process, of its keys and of the old key.
SessionsTypeOK ==
    /\ sessionNow \in Nat /\ sessionRestarts \in Nat
    /\ session \in [Sessions -> S!SessionRecords \cup {NoSession}]
    /\ savedSession \in [Sessions -> S!SessionRecords \cup {NoSession}]
    /\ legacy \in [Sessions -> S!SessionRecords \cup {NoSession}]

\* A session whose call is not answered is starting.
OpeningAreStarting ==
    \A s \in opening \cap Sessions : session[s] # NoSession /\ session[s].status = "starting"

\* A session of the old key is found by the restart and not before.
LegacyWaits ==
    \A s \in Sessions :
        legacy[s] # NoSession /\ s \notin migrated =>
            session[s] = NoSession /\ savedSession[s] = NoSession

SessionsInv ==
    /\ SessionsTypeOK
    /\ OpeningAreStarting
    /\ LegacyWaits
    /\ SavedNeverAhead

\* One session that is not migrated: what Redis has is behind what memory has.
Behind(copy, r) ==
    copy # NoSession =>
        /\ r # NoSession
        /\ copy.events <= r.events
        /\ copy.status = "closed" => r.status = "closed"

\* Memory gets a later record of one session, and Redis none that is ahead of it.
LEMMA PatchPreserves ==
    ASSUME SessionsInv, NEW s \in Sessions, NEW r \in S!SessionRecords,
           session' = [session EXCEPT ![s] = r],
           savedSession'[s] # savedSession[s] => Behind(savedSession'[s], r),
           savedSession' \in [Sessions -> S!SessionRecords \cup {NoSession}],
           \A t \in Sessions \ {s} : savedSession'[t] = savedSession[t],
           Behind(session[s], r),
           legacy[s] = NoSession \/ session[s] # NoSession,
           savedSession[s] = NoSession \/ session[s] # NoSession,
           sessionNow' = sessionNow, sessionRestarts' = sessionRestarts,
           legacy' = legacy, migrated' = migrated, unread' = unread,
           \A t \in opening' : (t \in opening /\ t # s) \/ (t = s /\ r.status = "starting")
    PROVE  SessionsInv'
<1>1. /\ r # NoSession
      /\ session'[s] = r /\ \A t \in Sessions \ {s} : session'[t] = session[t]
  BY GatewayAssumption DEF SessionsInv, SessionsTypeOK
<1>2. SessionsTypeOK'
  BY DEF SessionsInv, SessionsTypeOK
<1>3. OpeningAreStarting'
  BY <1>1 DEF SessionsInv, OpeningAreStarting
<1>4. LegacyWaits'
  BY <1>1 DEF SessionsInv, LegacyWaits
<1>5. ASSUME NEW t \in Sessions, t \notin migrated, ~(t \in unread /\ session'[t] = NoSession)
      PROVE  Behind(savedSession'[t], session'[t])
  <2>1. Behind(savedSession[t], session[t])
    BY <1>1, <1>5 DEF SessionsInv, SavedNeverAhead, S!SavedNeverAhead, Behind
  <2>2. CASE t # s
    BY <1>1, <2>1, <2>2
  <2>3. CASE t = s /\ savedSession'[s] = savedSession[s]
    <3>1. savedSession[s] # NoSession =>
             /\ session[s] # NoSession
             /\ savedSession[s].events \in Nat /\ session[s].events \in Nat /\ r.events \in Nat
      BY <2>1, <2>3 DEF Behind, SessionsInv, SessionsTypeOK, S!SessionRecords
    <3> QED
      BY <1>1, <2>1, <2>3, <3>1 DEF Behind
  <2> QED
    BY <1>1, <2>2, <2>3
<1>6. SavedNeverAhead'
  BY <1>5 DEF SavedNeverAhead, S!SavedNeverAhead, Behind
<1> QED
  BY <1>2, <1>3, <1>4, <1>6 DEF SessionsInv

\* persist sends records that are not ahead of the last one.
LEMMA PersistFact ==
    ASSUME SessionsInv, NEW s \in Sessions, NEW r \in S!SessionRecords,
           NEW writes, writes \subseteq S!SessionRecords, S!Persist(s, writes),
           \A w \in writes : Behind(w, r)
    PROVE  /\ savedSession'[s] # savedSession[s] => Behind(savedSession'[s], r)
           /\ savedSession' \in [Sessions -> S!SessionRecords \cup {NoSession}]
           /\ \A t \in Sessions \ {s} : savedSession'[t] = savedSession[t]
<1>1. savedSession' = savedSession \/ \E w \in writes : savedSession' = [savedSession EXCEPT ![s] = w]
  BY DEF S!Persist
<1> QED
  BY <1>1 DEF SessionsInv, SessionsTypeOK

\* A patch of one session that keeps it closed, and its events.
LEMMA PatchStep ==
    ASSUME SessionsInv, NEW s \in Sessions, NEW r \in S!SessionRecords, S!Patch(s, r),
           session[s] # NoSession => /\ session[s].events <= r.events
                                     /\ session[s].status = "closed" => r.status = "closed",
           legacy[s] = NoSession \/ session[s] # NoSession,
           savedSession[s] = NoSession \/ session[s] # NoSession,
           sessionNow' = sessionNow, sessionRestarts' = sessionRestarts,
           legacy' = legacy, migrated' = migrated, unread' = unread,
           \A t \in opening' : (t \in opening /\ t # s) \/ (t = s /\ r.status = "starting")
    PROVE  SessionsInv'
<1>1. session' = [session EXCEPT ![s] = r] /\ S!Persist(s, {r})
  BY DEF S!Patch
<1>2. r.events \in Nat /\ r # NoSession
  BY GatewayAssumption DEF S!SessionRecords
<1>3. Behind(r, r) /\ Behind(session[s], r)
  BY <1>2 DEF Behind
<1>4. /\ savedSession'[s] # savedSession[s] => Behind(savedSession'[s], r)
      /\ savedSession' \in [Sessions -> S!SessionRecords \cup {NoSession}]
      /\ \A t \in Sessions \ {s} : savedSession'[t] = savedSession[t]
  BY <1>1, <1>3, PersistFact
<1> QED
  BY <1>1, <1>3, <1>4, PatchPreserves

\* What the code makes of a session is a session.
LEMMA SessionRecordFact ==
    ASSUME NEW r \in S!SessionRecords, sessionNow \in Nat,
           NEW status \in {"starting", "active", "error", "closed"}
    PROVE  /\ S!Active \in S!SessionRecords
           /\ [S!Active EXCEPT !.status = status] \in S!SessionRecords
           /\ [r EXCEPT !.status = status] \in S!SessionRecords
           /\ [r EXCEPT !.status = status].events = r.events
           /\ [r EXCEPT !.status = status].status = status
           /\ S!Closed(r) \in S!SessionRecords /\ S!Closed(r).status = "closed"
           /\ S!Closed(r).events = r.events
           /\ r.events \in Nat
           /\ [r EXCEPT !.events = @ + 1, !.lastActivityAt = sessionNow] \in S!SessionRecords
           /\ r.events <= [r EXCEPT !.events = @ + 1, !.lastActivityAt = sessionNow].events
           /\ [r EXCEPT !.events = @ + 1, !.lastActivityAt = sessionNow].status = r.status
<1>1. /\ [r EXCEPT !.events = @ + 1, !.lastActivityAt = sessionNow] \in S!SessionRecords
      /\ r.events <= [r EXCEPT !.events = @ + 1, !.lastActivityAt = sessionNow].events
      /\ [r EXCEPT !.events = @ + 1, !.lastActivityAt = sessionNow].status = r.status
  <2>1. r.events \in Nat /\ r.events + 1 \in Nat /\ r.events <= r.events + 1
    BY DEF S!SessionRecords
  <2>2. \A n \in Nat :
           /\ [r EXCEPT !.events = n, !.lastActivityAt = sessionNow] \in S!SessionRecords
           /\ [r EXCEPT !.events = n, !.lastActivityAt = sessionNow].events = n
           /\ [r EXCEPT !.events = n, !.lastActivityAt = sessionNow].status = r.status
    BY DEF S!SessionRecords
  <2> QED
    BY <2>1, <2>2
<1>2. S!Active \in S!SessionRecords /\ [S!Active EXCEPT !.status = status] \in S!SessionRecords
  BY DEF S!Active, S!Session, S!SessionRecords
<1>3. /\ [r EXCEPT !.status = status] \in S!SessionRecords
      /\ [r EXCEPT !.status = status].events = r.events
      /\ [r EXCEPT !.status = status].status = status
      /\ r.events \in Nat
  BY DEF S!SessionRecords
<1>4. /\ S!Closed(r) \in S!SessionRecords /\ S!Closed(r).status = "closed"
      /\ S!Closed(r).events = r.events
  BY DEF S!SessionRecords, S!Closed
<1> QED
  BY <1>1, <1>2, <1>3, <1>4

\* A session that is new, or opened again, is starting.
LEMMA NewSessionPreserves ==
    ASSUME SessionsInv, NEW s \in Sessions, S!token(s) \/ S!createRealtimeCall(s)
    PROVE  SessionsInv'
<1> DEFINE starting == [S!Active EXCEPT !.status = "starting"]
<1>1. /\ session[s] = NoSession /\ savedSession[s] = NoSession /\ legacy[s] = NoSession
      /\ sessionNow \in Nat
  BY DEF S!token, S!createRealtimeCall, S!New, SessionsInv, SessionsTypeOK
<1>2. /\ S!Active \in S!SessionRecords /\ starting \in S!SessionRecords
      /\ S!Active.events = 0 /\ S!Active.status = "active"
      /\ starting.events = 0 /\ starting.status = "starting"
  BY <1>1 DEF S!Active, S!Session, S!SessionRecords
<1> HIDE DEF starting
<1>3. CASE S!createRealtimeCall(s)
  <2>1. /\ S!Patch(s, starting) /\ UNCHANGED <<sessionNow, sessionRestarts, legacy, migrated, unread>>
        /\ opening' = opening \cup {s}
    BY <1>3 DEF S!createRealtimeCall, starting
  <2>2. \A t \in opening' : (t \in opening /\ t # s) \/ (t = s /\ starting.status = "starting")
    BY <1>2, <2>1
  <2> QED
    BY <1>1, <1>2, <2>1, <2>2, PatchStep
<1>4. CASE S!token(s)
  <2>1. /\ session' = [session EXCEPT ![s] = S!Active]
        /\ S!Persist(s, {starting, S!Active})
        /\ UNCHANGED <<sessionNow, sessionRestarts, legacy, migrated, unread, opening>>
    BY <1>4 DEF S!token, starting
  <2>2. S!Active # NoSession
    BY <1>2, GatewayAssumption
  <2>3. \A w \in {starting, S!Active} : Behind(w, S!Active)
    BY <1>2, <2>2 DEF Behind
  <2>4. /\ savedSession'[s] # savedSession[s] => Behind(savedSession'[s], S!Active)
        /\ savedSession' \in [Sessions -> S!SessionRecords \cup {NoSession}]
        /\ \A t \in Sessions \ {s} : savedSession'[t] = savedSession[t]
    BY <1>2, <2>1, <2>3, PersistFact
  <2>5. Behind(session[s], S!Active)
    BY <1>1 DEF Behind
  <2>6. s \notin opening
    BY <1>1 DEF SessionsInv, OpeningAreStarting
  <2>7. \A t \in opening' : t \in opening /\ t # s
    BY <2>1, <2>6
  <2> QED
    BY <1>1, <1>2, <2>1, <2>4, <2>5, <2>7, PatchPreserves
<1> QED
  BY <1>3, <1>4

\* Only a session that is being opened is established, or fails.
LEMMA AnsweredPreserves ==
    ASSUME SessionsInv, NEW s \in Sessions, S!established(s) \/ S!markError(s)
    PROVE  SessionsInv'
<1>1. PICK status \in {"active", "error"} :
         /\ s \in opening /\ opening' = opening \ {s}
         /\ S!Patch(s, [session[s] EXCEPT !.status = status])
         /\ UNCHANGED <<sessionNow, sessionRestarts, legacy, migrated, unread>>
  BY DEF S!established, S!markError
<1>2. /\ session[s] # NoSession /\ session[s] \in S!SessionRecords
      /\ session[s].status = "starting" /\ sessionNow \in Nat
  BY <1>1 DEF SessionsInv, OpeningAreStarting, SessionsTypeOK
<1> DEFINE r == [session[s] EXCEPT !.status = status]
<1>3. r \in S!SessionRecords /\ r.events = session[s].events /\ session[s].events \in Nat
  <2>1. status \in {"starting", "active", "error", "closed"}
    OBVIOUS
  <2>2. session[s].events \in Nat
    BY <1>2 DEF S!SessionRecords
  <2>3. /\ [session[s] EXCEPT !.status = status] \in S!SessionRecords
        /\ [session[s] EXCEPT !.status = status].events = session[s].events
    <3> DEFINE x == session[s]
    <3>1. x \in S!SessionRecords /\ sessionNow \in Nat
      BY <1>2
    <3> HIDE DEF x
    <3>2. /\ [x EXCEPT !.status = status] \in S!SessionRecords
          /\ [x EXCEPT !.status = status].events = x.events
      BY <2>1, <3>1 DEF S!SessionRecords
    <3> QED
      BY <3>2 DEF x
  <2> QED
    BY <2>2, <2>3
<1>4. \A t \in opening' : t \in opening /\ t # s
  BY <1>1
<1>5. session[s].events <= r.events /\ session[s].status # "closed"
  BY <1>2, <1>3
<1>6. S!Patch(s, r)
  BY <1>1
<1> HIDE DEF r
<1> QED
  BY <1>1, <1>2, <1>3, <1>4, <1>5, <1>6, PatchStep

\* An event and a deletion make a known session a later one.
LEMMA KnownPreserves ==
    ASSUME SessionsInv, NEW s \in Sessions, S!registerEvent(s) \/ S!delete(s)
    PROVE  SessionsInv'
<1>1. /\ session[s] # NoSession /\ session[s] \in S!SessionRecords /\ s \notin opening
      /\ sessionNow \in Nat
      /\ UNCHANGED <<sessionNow, sessionRestarts, legacy, migrated, unread, opening>>
  BY DEF S!registerEvent, S!delete, S!Known, SessionsInv, SessionsTypeOK
<1>2. CASE S!delete(s)
  <2>1. S!Patch(s, S!Closed(session[s]))
    BY <1>2 DEF S!delete
  <2>2. /\ S!Closed(session[s]) \in S!SessionRecords
        /\ S!Closed(session[s]).status = "closed"
        /\ S!Closed(session[s]).events = session[s].events /\ session[s].events \in Nat
    BY <1>1, SessionRecordFact
  <2>3. \A t \in opening' : t \in opening /\ t # s
    BY <1>1
  <2> QED
    BY <1>1, <2>1, <2>2, <2>3, PatchStep
<1>3. CASE S!registerEvent(s)
  <2> DEFINE r == [session[s] EXCEPT !.events = @ + 1, !.lastActivityAt = sessionNow]
  <2>1. S!Patch(s, r)
    BY <1>3 DEF S!registerEvent
  <2>2. /\ r \in S!SessionRecords /\ session[s].events <= r.events
        /\ r.status = session[s].status
    BY <1>1, SessionRecordFact
  <2>3. \A t \in opening' : t \in opening /\ t # s
    BY <1>1
  <2> HIDE DEF r
  <2> QED
    BY <1>1, <2>1, <2>2, <2>3, PatchStep
<1> QED
  BY <1>2, <1>3

\* The sweep closes a session as a deletion does.
LEMMA SweepPreserves ==
    ASSUME SessionsInv, NEW s \in Sessions, S!sweep(s)
    PROVE  SessionsInv'
<1> DEFINE r == session[s]
           half == [r EXCEPT !.status = "closed"]
<1>1. /\ r # NoSession /\ r \in S!SessionRecords /\ r.status = "active" /\ sessionNow \in Nat
      /\ session' = [session EXCEPT ![s] = S!Closed(r)]
      /\ S!Persist(s, {half, S!Closed(r)})
      /\ UNCHANGED <<sessionNow, sessionRestarts, legacy, migrated, unread, opening>>
  BY DEF S!sweep, SessionsInv, SessionsTypeOK
<1>2. /\ half \in S!SessionRecords /\ half.events = r.events
      /\ S!Closed(r) \in S!SessionRecords /\ S!Closed(r).status = "closed"
      /\ S!Closed(r).events = r.events /\ r.events \in Nat
  BY <1>1, SessionRecordFact
<1>3. S!Closed(r) # NoSession
  BY <1>2, GatewayAssumption
<1> HIDE DEF half
<1>4. Behind(r, S!Closed(r)) /\ \A w \in {half, S!Closed(r)} : Behind(w, S!Closed(r))
  BY <1>2, <1>3 DEF Behind
<1>5. /\ savedSession'[s] # savedSession[s] => Behind(savedSession'[s], S!Closed(r))
      /\ savedSession' \in [Sessions -> S!SessionRecords \cup {NoSession}]
      /\ \A t \in Sessions \ {s} : savedSession'[t] = savedSession[t]
  BY <1>1, <1>2, <1>4, PersistFact
<1>6. \A t \in opening' : t \in opening /\ t # s
  BY <1>1 DEF SessionsInv, OpeningAreStarting
<1> HIDE DEF r
<1>7. Behind(session[s], S!Closed(r)) /\ session[s] # NoSession
  BY <1>1, <1>4 DEF r
<1>8. session' = [session EXCEPT ![s] = S!Closed(r)]
  BY <1>1
<1> QED
  BY <1>1, <1>2, <1>5, <1>6, <1>7, <1>8, PatchPreserves

\* A restart has what is in Redis, and over it what the old key has.
LEMMA RestartPreserves ==
    ASSUME SessionsInv, S!Restart
    PROVE  SessionsInv'
<1>1. PICK old \in {legacy, S!NoBlob}, skipped \in SUBSET Sessions,
           written \in SUBSET Sessions :
         /\ \A s \in written : old[s] # NoSession
         /\ session' = [s \in Sessions |-> IF old[s] # NoSession THEN old[s]
                                          ELSE IF s \in skipped THEN NoSession
                                               ELSE savedSession[s]]
         /\ unread' = {s \in skipped : old[s] = NoSession}
         /\ savedSession' = [s \in Sessions |-> IF s \in written THEN old[s]
                                               ELSE savedSession[s]]
         /\ migrated' = migrated \cup {s \in Sessions : old[s] # NoSession}
         /\ legacy' \in {legacy, S!NoBlob}
         /\ opening' = {}
         /\ sessionNow' = sessionNow /\ sessionRestarts' = sessionRestarts + 1
  BY DEF S!Restart, S!Hydrated
<1>2. SessionsTypeOK'
  <2>1. old \in [Sessions -> S!SessionRecords \cup {NoSession}]
        /\ S!NoBlob \in [Sessions -> S!SessionRecords \cup {NoSession}]
    BY DEF S!NoBlob, SessionsInv, SessionsTypeOK
  <2>2. savedSession' \in [Sessions -> S!SessionRecords \cup {NoSession}]
    BY <1>1, <2>1 DEF SessionsInv, SessionsTypeOK
  <2>3. session' \in [Sessions -> S!SessionRecords \cup {NoSession}]
    BY <1>1, <2>1 DEF SessionsInv, SessionsTypeOK
  <2>4. legacy' \in [Sessions -> S!SessionRecords \cup {NoSession}]
    BY <1>1, <2>1 DEF SessionsInv, SessionsTypeOK
  <2>5. sessionNow' \in Nat /\ sessionRestarts' \in Nat
    BY <1>1 DEF SessionsInv, SessionsTypeOK
  <2> QED
    BY <2>2, <2>3, <2>4, <2>5 DEF SessionsTypeOK
<1>3. OpeningAreStarting'
  BY <1>1 DEF OpeningAreStarting
<1>4. LegacyWaits'
  <2> SUFFICES ASSUME NEW s \in Sessions, legacy'[s] # NoSession, s \notin migrated'
               PROVE  session'[s] = NoSession /\ savedSession'[s] = NoSession
    BY DEF LegacyWaits
  <2>1. s \notin migrated /\ old[s] = NoSession
    BY <1>1
  <2>2. legacy[s] # NoSession
    BY <1>1 DEF S!NoBlob
  <2>3. savedSession[s] = NoSession
    BY <2>1, <2>2 DEF SessionsInv, LegacyWaits
  <2> QED
    BY <1>1, <2>1, <2>3
<1>5. ASSUME NEW s \in Sessions, s \notin migrated', ~(s \in unread' /\ session'[s] = NoSession)
      PROVE  Behind(savedSession'[s], session'[s])
  <2>1. session'[s] = savedSession[s] /\ savedSession'[s] = savedSession[s]
    BY <1>1, <1>5
  <2>2. savedSession[s] \in S!SessionRecords \cup {NoSession}
    BY DEF SessionsInv, SessionsTypeOK
  <2> QED
    BY <2>1, <2>2 DEF Behind, S!SessionRecords
<1>6. SavedNeverAhead'
  BY <1>5 DEF SavedNeverAhead, S!SavedNeverAhead, Behind
<1> QED
  BY <1>2, <1>3, <1>4, <1>6 DEF SessionsInv

\* Every step of the sessions preserves the invariant.
LEMMA SessionsStep == SessionsInv /\ [S!SessionsNext]_sessionVars => SessionsInv'
<1> SUFFICES ASSUME SessionsInv, [S!SessionsNext]_sessionVars
             PROVE  SessionsInv'
  OBVIOUS
<1>1. ASSUME NEW s \in Sessions, S!expire(s) PROVE SessionsInv'
  <2>1. /\ savedSession' = [savedSession EXCEPT ![s] = NoSession]
        /\ UNCHANGED <<sessionNow, sessionRestarts, session, legacy, migrated, unread, opening>>
    BY <1>1 DEF S!expire
  <2>2. \A t \in Sessions : savedSession'[t] \in {savedSession[t], NoSession}
    BY <2>1 DEF SessionsInv, SessionsTypeOK
  <2> QED
    BY <2>1, <2>2 DEF SessionsInv, SessionsTypeOK, OpeningAreStarting, LegacyWaits,
       SavedNeverAhead, S!SavedNeverAhead
<1>2. CASE S!Tick
  BY <1>2 DEF S!Tick, SessionsInv, SessionsTypeOK, OpeningAreStarting, LegacyWaits,
     SavedNeverAhead, S!SavedNeverAhead
<1>3. CASE UNCHANGED sessionVars
  BY <1>3 DEF sessionVars, SessionsInv, SessionsTypeOK, OpeningAreStarting, LegacyWaits,
     SavedNeverAhead, S!SavedNeverAhead
<1> QED
  BY <1>1, <1>2, <1>3, NewSessionPreserves, AnsweredPreserves, KnownPreserves,
     SweepPreserves, RestartPreserves DEF S!SessionsNext
\* At first there are the sessions of the old key at most.
LEMMA SessionsInitHolds == S!SessionsInit => SessionsInv
<1> SUFFICES ASSUME S!SessionsInit
             PROVE  SessionsInv
  OBVIOUS
<1>1. /\ sessionNow = 0 /\ sessionRestarts = 0
      /\ session = [s \in Sessions |-> NoSession]
      /\ savedSession = [s \in Sessions |-> NoSession]
      /\ legacy \in [Sessions -> {NoSession, S!Active}]
      /\ opening = {}
  BY DEF S!SessionsInit
<1>2. S!Active \in S!SessionRecords
  BY <1>1 DEF S!Active, S!Session, S!SessionRecords
<1>3. SessionsTypeOK
  BY <1>1, <1>2 DEF SessionsTypeOK
<1> QED
  BY <1>1, <1>3 DEF SessionsInv, OpeningAreStarting, LegacyWaits, SavedNeverAhead,
     S!SavedNeverAhead

\* What Redis has of a realtime session, memory has or is past it, for any sessions,
\* lost writes, times and restarts (persist, the sweeper and loadAll).
THEOREM SavedNeverAheadCorrect == S!SessionsSpec => []SavedNeverAhead
<1>1. SessionsInv => SavedNeverAhead
  BY DEF SessionsInv
<1>2. S!SessionsInit /\ [][S!SessionsNext]_sessionVars => []SavedNeverAhead
  BY <1>1, SessionsInitHolds, SessionsStep, PTL
<1> QED
  BY <1>2 DEF S!SessionsSpec, S!sessionVars, sessionVars

\* No late event and no sweep opens a closed session.
LEMMA ClosedStep ==
    ASSUME SessionsInv, [S!SessionsNext]_sessionVars, NEW s \in Sessions,
           session[s] # NoSession, session[s].status = "closed",
           session'[s] = NoSession \/ session'[s].status # "closed"
    PROVE  /\ sessionRestarts' > sessionRestarts
           /\ \/ savedSession[s] # session[s]
              \/ legacy[s] # NoSession
              \/ s \in unread' /\ session'[s] = NoSession
<1>1. session[s] \in S!SessionRecords /\ session'[s] # session[s]
  BY DEF SessionsInv, SessionsTypeOK
<1>2. ASSUME NEW t \in Sessions, NEW r, session' = [session EXCEPT ![t] = r]
      PROVE  t = s /\ session'[s] = r
  BY <1>1, <1>2 DEF SessionsInv, SessionsTypeOK
<1>3. ASSUME NEW t \in Sessions, S!token(t) \/ S!createRealtimeCall(t) PROVE FALSE
  <2>1. session[t] = NoSession /\ \E r : session' = [session EXCEPT ![t] = r]
    BY <1>3 DEF S!token, S!createRealtimeCall, S!New, S!Patch
  <2> QED
    BY <1>2, <2>1
<1>4. ASSUME NEW t \in Sessions, S!established(t) \/ S!markError(t) PROVE FALSE
  <2>1. t \in opening /\ \E r : session' = [session EXCEPT ![t] = r]
    BY <1>4 DEF S!established, S!markError, S!Patch
  <2> QED
    BY <1>2, <2>1 DEF SessionsInv, OpeningAreStarting
<1>5. ASSUME NEW t \in Sessions, S!registerEvent(t) PROVE FALSE
  <2> DEFINE r == [session[t] EXCEPT !.events = @ + 1, !.lastActivityAt = sessionNow]
  <2>1. session' = [session EXCEPT ![t] = r]
    BY <1>5 DEF S!registerEvent, S!Patch
  <2>2. t = s /\ session'[s] = r
    <3> HIDE DEF r
    <3> QED
      BY <1>2, <2>1
  <2>3. r.status = "closed" /\ r \in S!SessionRecords
    <3>1. sessionNow \in Nat
      BY DEF SessionsInv, SessionsTypeOK
    <3>2. r = [session[s] EXCEPT !.events = @ + 1, !.lastActivityAt = sessionNow]
      BY <2>2
    <3> HIDE DEF r
    <3> QED
      BY <1>1, <3>1, <3>2, SessionRecordFact
  <2> QED
    BY <2>2, <2>3, GatewayAssumption
<1>6. ASSUME NEW t \in Sessions, S!delete(t) \/ S!sweep(t) PROVE FALSE
  <2>1. session' = [session EXCEPT ![t] = S!Closed(session[t])]
    BY <1>6 DEF S!delete, S!sweep, S!Patch
  <2>2. session'[s] = S!Closed(session[s])
    BY <1>2, <2>1
  <2>3. S!Closed(session[s]) \in S!SessionRecords /\ S!Closed(session[s]).status = "closed"
    BY <1>1, SessionRecordFact DEF SessionsInv, SessionsTypeOK
  <2> QED
    BY <2>2, <2>3, GatewayAssumption
<1>7. CASE S!Restart
  <2>1. sessionRestarts' = sessionRestarts + 1
    BY <1>7 DEF S!Restart
  <2>2. PICK old \in {legacy, S!NoBlob}, skipped \in SUBSET Sessions :
           /\ session'[s] = IF old[s] # NoSession THEN old[s]
                            ELSE IF s \in skipped THEN NoSession ELSE savedSession[s]
           /\ unread' = {t \in skipped : old[t] = NoSession}
    BY <1>7 DEF S!Restart, S!Hydrated
  <2>3. sessionRestarts \in Nat
    BY DEF SessionsInv, SessionsTypeOK
  <2>4. old[s] # NoSession => legacy[s] # NoSession
    BY DEF S!NoBlob
  <2> QED
    BY <1>1, <2>1, <2>2, <2>3, <2>4
<1>8. ASSUME NEW t \in Sessions, S!expire(t) PROVE FALSE
  BY <1>1, <1>8 DEF S!expire
<1>9. CASE S!Tick \/ UNCHANGED sessionVars
  BY <1>1, <1>9 DEF S!Tick, sessionVars
<1> QED
  BY <1>3, <1>4, <1>5, <1>6, <1>7, <1>8, <1>9 DEF S!SessionsNext

\* A closed realtime session is not opened again but by a restart that finds something
\* else, for any sessions, lost writes, times and restarts (the session store).
THEOREM ClosedStaysClosedCorrect == S!SessionsSpec => S!ClosedStaysClosed
<1>1. SessionsInv /\ [S!SessionsNext]_sessionVars =>
         [\A s \in Sessions :
             session[s] # NoSession /\ session[s].status = "closed"
             /\ (session'[s] = NoSession \/ session'[s].status # "closed")
             => /\ sessionRestarts' > sessionRestarts
                /\ \/ savedSession[s] # session[s]
                   \/ legacy[s] # NoSession
                   \/ s \in unread' /\ session'[s] = NoSession]_sessionVars
  BY ClosedStep
<1>2. S!SessionsInit /\ [][S!SessionsNext]_sessionVars =>
         [][\A s \in Sessions :
             session[s] # NoSession /\ session[s].status = "closed"
             /\ (session'[s] = NoSession \/ session'[s].status # "closed")
             => /\ sessionRestarts' > sessionRestarts
                /\ \/ savedSession[s] # session[s]
                   \/ legacy[s] # NoSession
                   \/ s \in unread' /\ session'[s] = NoSession]_sessionVars
  BY <1>1, SessionsInitHolds, SessionsStep, PTL
<1> QED
  BY <1>2 DEF S!SessionsSpec, S!sessionVars, sessionVars, S!ClosedStaysClosed

-----------------------------------------------------------------------------
(* Observer tickets                                                        *)

\* A ticket that a request is redeeming was issued, and the time the request would keep
\* the key for reaches the ticket's expiry.
RequestsReachExpiry ==
    \A c \in Consumers :
        consumer[c] # Waiting =>
            /\ consumer[c].ticket \in Tickets
            /\ ticketExp[consumer[c].ticket] > 0
            /\ clock + consumer[c].left >= ticketExp[consumer[c].ticket]

\* A redeemed ticket has its key until it has expired.
KeyUntilExpiry ==
    \A t \in Tickets :
        redeemed[t] > 0 =>
            /\ ticketExp[t] > 0
            /\ consumed[t] >= ticketExp[t] \/ clock >= ticketExp[t]

\* The inductive invariant.
TicketsInv ==
    /\ TicketsTypeOK
    /\ RequestsReachExpiry
    /\ ~late => KeyUntilExpiry
    /\ RedeemedOnce

\* No ticket is issued at first.
LEMMA TicketsInitHold == TicketsInit => TicketsInv
  <1> SUFFICES ASSUME TicketsInit
               PROVE  TicketsInv
    OBVIOUS
  <1>1. Waiting \in [ticket: Tickets \cup {Nothing}, left: Nat]
    BY DEF Waiting
  <1>2. TicketsTypeOK
    BY <1>1 DEF TicketsInit, TicketsTypeOK
  <1>3. RequestsReachExpiry
    BY DEF TicketsInit, RequestsReachExpiry
  <1>4. KeyUntilExpiry /\ RedeemedOnce
    BY DEF TicketsInit, KeyUntilExpiry, RedeemedOnce
  <1> QED
    BY <1>2, <1>3, <1>4 DEF TicketsInv

\* A ticket that is issued has not been redeemed, and nobody is redeeming it.
LEMMA IssueTicketPreserves ==
  ASSUME TicketsInv, NEW t \in Tickets, issueTicket(t)
  PROVE  TicketsInv'
  <1>1. TicketsTypeOK'
    BY TicketAssumption DEF TicketsInv, TicketsTypeOK, issueTicket
  <1>2. RequestsReachExpiry'
    BY DEF TicketsInv, TicketsTypeOK, RequestsReachExpiry, issueTicket
  <1>3. (~late => KeyUntilExpiry)'
    BY DEF TicketsInv, TicketsTypeOK, KeyUntilExpiry, issueTicket
  <1>4. RedeemedOnce'
    BY DEF TicketsInv, RedeemedOnce, issueTicket
  <1> QED
    BY <1>1, <1>2, <1>3, <1>4 DEF TicketsInv

\* The time left is counted from the clock of the verification.
LEMMA VerifyTicketPreserves ==
  ASSUME TicketsInv, NEW t \in Tickets, NEW c \in Consumers, verifyTicket(c, t)
  PROVE  TicketsInv'
  <1>1. ticketExp[t] - clock \in Nat /\ ticketExp[t] > 0
    BY DEF TicketsInv, TicketsTypeOK, verifyTicket
  <1>2. TicketsTypeOK'
    BY <1>1 DEF TicketsInv, TicketsTypeOK, verifyTicket
  <1>3. RequestsReachExpiry'
    BY <1>1 DEF TicketsInv, TicketsTypeOK, RequestsReachExpiry, verifyTicket
  <1>4. (~late => KeyUntilExpiry)' /\ RedeemedOnce'
    BY DEF TicketsInv, KeyUntilExpiry, RedeemedOnce, verifyTicket
  <1> QED
    BY <1>2, <1>3, <1>4 DEF TicketsInv

\* Redis drops a key only when the ticket has expired too.
LEMMA ClockTickPreserves ==
  ASSUME TicketsInv, clockTicks
  PROVE  TicketsInv'
  <1>1. TicketsTypeOK'
    BY DEF TicketsInv, TicketsTypeOK, clockTicks
  <1>2. RequestsReachExpiry'
    BY DEF TicketsInv, TicketsTypeOK, RequestsReachExpiry, clockTicks
  <1>3. (~late => KeyUntilExpiry)'
    BY DEF TicketsInv, TicketsTypeOK, KeyUntilExpiry, clockTicks
  <1>4. RedeemedOnce'
    BY DEF TicketsInv, RedeemedOnce, clockTicks
  <1> QED
    BY <1>1, <1>2, <1>3, <1>4 DEF TicketsInv

\* The key that is set reaches the ticket's expiry; a ticket that was redeemed before
\* has its key, or is redeemed late.
LEMMA ConsumePreserves ==
  ASSUME TicketsInv, NEW c \in Consumers, consumeOnce(c)
  PROVE  TicketsInv'
  <1> DEFINE t == consumer[c].ticket
             kept == [consumed EXCEPT ![t] = clock + consumer[c].left]
  <1>1. t \in Tickets /\ ticketExp[t] > 0 /\ clock + consumer[c].left >= ticketExp[t]
    BY DEF TicketsInv, RequestsReachExpiry, consumeOnce
  <1>2. /\ consumer' = [consumer EXCEPT ![c] = Waiting]
        /\ late' = (late \/ clock >= ticketExp[t])
        /\ UNCHANGED <<clock, ticketExp>>
    BY DEF consumeOnce
  <1>3. kept \in [Tickets -> Nat]
    BY <1>1 DEF TicketsInv, TicketsTypeOK
  <1>4. consumed' \in {consumed, kept}
    BY DEF consumeOnce
  <1>5. \/ UNCHANGED redeemed
        \/ /\ consumed[t] = 0
           /\ consumed' = kept
           /\ redeemed' = [redeemed EXCEPT ![t] = @ + 1]
    BY DEF consumeOnce, Taken
  <1>6. TicketsTypeOK'
    <2>1. Waiting \in [ticket: Tickets \cup {Nothing}, left: Nat]
      BY DEF Waiting
    <2>2. consumer' \in [Consumers -> [ticket: Tickets \cup {Nothing}, left: Nat]]
      BY <1>2, <2>1 DEF TicketsInv, TicketsTypeOK
    <2>3. redeemed' \in [Tickets -> Nat]
      BY <1>1, <1>5 DEF TicketsInv, TicketsTypeOK
    <2>4. late' \in BOOLEAN
      BY <1>2 DEF TicketsInv, TicketsTypeOK
    <2> QED
      BY <1>2, <1>3, <1>4, <2>2, <2>3, <2>4 DEF TicketsInv, TicketsTypeOK
  <1>7. RequestsReachExpiry'
    BY <1>2 DEF TicketsInv, TicketsTypeOK, RequestsReachExpiry
  <1>8. CASE late'
    BY <1>6, <1>7, <1>8 DEF TicketsInv, RedeemedOnce
  <1>9. CASE ~late'
    <2>1. ~late /\ clock < ticketExp[t]
      <3>1. ~late /\ ~(clock >= ticketExp[t])
        BY <1>2, <1>9
      <3> QED
        BY <1>1, <3>1 DEF TicketsInv, TicketsTypeOK
    <2>2. consumed[t] = 0 => redeemed[t] = 0
      BY <1>1, <2>1 DEF TicketsInv, TicketsTypeOK, KeyUntilExpiry
    <2>3. KeyUntilExpiry'
      <3> SUFFICES ASSUME NEW u \in Tickets, redeemed'[u] > 0
                   PROVE  /\ ticketExp[u] > 0
                          /\ consumed'[u] >= ticketExp[u] \/ clock >= ticketExp[u]
        BY <1>2 DEF KeyUntilExpiry
      <3>1. CASE u = t
        <4>1. CASE consumed' = kept
          BY <1>1, <3>1, <4>1 DEF TicketsInv, TicketsTypeOK
        <4>2. CASE consumed' # kept
          BY <1>4, <1>5, <2>1, <3>1, <4>2 DEF TicketsInv, TicketsTypeOK, KeyUntilExpiry
        <4> QED
          BY <4>1, <4>2
      <3>2. CASE u # t
        <4>1. redeemed'[u] = redeemed[u] /\ consumed'[u] = consumed[u]
          BY <1>4, <1>5, <3>2 DEF TicketsInv, TicketsTypeOK
        <4> QED
          BY <2>1, <4>1 DEF TicketsInv, KeyUntilExpiry
      <3> QED
        BY <3>1, <3>2
    <2>4. RedeemedOnce'
      BY <1>1, <1>5, <2>1, <2>2 DEF TicketsInv, TicketsTypeOK, RedeemedOnce
    <2> QED
      BY <1>6, <1>7, <2>3, <2>4 DEF TicketsInv
  <1> QED
    BY <1>8, <1>9

\* Every step of the tickets preserves the invariant.
LEMMA TicketsStep == TicketsInv /\ [TicketsNext]_ticketVars => TicketsInv'
  <1> SUFFICES ASSUME TicketsInv, [TicketsNext]_ticketVars
               PROVE  TicketsInv'
    OBVIOUS
  <1>1. ASSUME NEW t \in Tickets, issueTicket(t) PROVE TicketsInv'
    BY <1>1, IssueTicketPreserves
  <1>2. ASSUME NEW t \in Tickets, NEW c \in Consumers, verifyTicket(c, t) PROVE TicketsInv'
    BY <1>2, VerifyTicketPreserves
  <1>3. ASSUME NEW c \in Consumers, consumeOnce(c) PROVE TicketsInv'
    BY <1>3, ConsumePreserves
  <1>4. CASE clockTicks
    BY <1>4, ClockTickPreserves
  <1>5. CASE UNCHANGED ticketVars
    BY <1>5 DEF ticketVars, TicketsInv, TicketsTypeOK, RequestsReachExpiry, KeyUntilExpiry,
       RedeemedOnce
  <1> QED
    BY <1>1, <1>2, <1>3, <1>4, <1>5 DEF TicketsNext

\* A ticket is redeemed at most once, by any number of requests that ask for it at the
\* same time and whatever Redis answers them, unless a redemption is late (verify and
\* consumeOnce of the observer session tickets).
THEOREM RedeemedOnceCorrect == TicketsSpec => []RedeemedOnce
  <1>1. TicketsInit => TicketsInv
    BY TicketsInitHold
  <1>2. TicketsInv /\ [TicketsNext]_ticketVars => TicketsInv'
    BY TicketsStep
  <1>3. TicketsInv => RedeemedOnce
    BY DEF TicketsInv
  <1> QED
    BY <1>1, <1>2, <1>3, PTL DEF TicketsSpec

-----------------------------------------------------------------------------
(* The join links                                                          *)

Entries == [jti: Links, revoked: BOOLEAN]
Issuing == {"issuing", "issuing_read"}
Auditing == Issuing \cup {"revoking_audit", "revoking_read"}
LinkPCs == Auditing \cup {"idle", "resolving", "ticketing", "active"}

LinksTypeOK ==
    /\ linkNow \in Nat
    /\ linkExp \in [Links -> Nat]
    /\ revoked \in [Links -> Nat]
    /\ audit \in Seq(Entries)
    /\ linkRequest \in [LinkRequests -> [pc: LinkPCs, jti: Links \cup {None},
                                         list: Seq(Entries), flag: BOOLEAN]]
    /\ \A r \in LinkRequests : linkRequest[r].pc # "idle" => linkRequest[r].jti \in Links
    /\ barred \subseteq Links

\* A link whose key was set keeps it until it expires.
Shut(l) == linkExp[l] > 0 /\ (revoked[l] >= linkExp[l] \/ linkNow >= linkExp[l])

BarredAreShut ==
    /\ \A l \in Links : linkExp[l] <= linkNow + MaxTtl
    /\ \A l \in barred : Shut(l)
    /\ \A r \in LinkRequests :
          linkRequest[r].pc # "idle" /\ linkRequest[r].flag =>
             /\ Shut(linkRequest[r].jti)
             /\ linkRequest[r].pc = "active" => linkNow >= linkExp[linkRequest[r].jti]

\* A list, of Redis or of a request, has every link at most once, and none that was not
\* issued.
GoodList(list) ==
    /\ \A i, j \in DOMAIN list : list[i].jti = list[j].jti => i = j
    /\ \A i \in DOMAIN list : linkExp[list[i].jti] > 0
    /\ Len(list) <= Cap
ListsAreGood ==
    /\ GoodList(audit)
    /\ \A r \in LinkRequests : GoodList(linkRequest[r].list)

\* A link that is being issued is in no list, and nobody else knows of it.
IssuedOnce ==
    \A r \in LinkRequests :
        /\ linkRequest[r].pc \in Auditing => linkExp[linkRequest[r].jti] > 0
        /\ linkRequest[r].pc \in Issuing =>
            /\ linkRequest[r].jti \notin barred
            /\ \A i \in DOMAIN audit : audit[i].jti # linkRequest[r].jti
            /\ \A q \in LinkRequests : \A i \in DOMAIN linkRequest[q].list :
                  linkRequest[q].list[i].jti # linkRequest[r].jti
            /\ \A q \in LinkRequests :
                  linkRequest[q].pc \in Auditing /\ linkRequest[q].jti = linkRequest[r].jti
                     => q = r

\* Who is about to write the list back is alone, and has it as it is.
ReadsAreFresh ==
    "overlap" \notin mishaps =>
        /\ \A q, r \in LinkRequests : L!WritesAudit(q) /\ L!WritesAudit(r) => q = r
        /\ "unread" \notin mishaps =>
              \A r \in LinkRequests : L!WritesAudit(r) => linkRequest[r].list = audit

LinksInv ==
    /\ LinksTypeOK
    /\ BarredAreShut
    /\ L!RevokedStaysOut
    /\ ListsAreGood
    /\ IssuedOnce
    /\ ReadsAreFresh
    /\ "overlap" \notin mishaps => L!AuditComplete

\* The list with a new entry: the newest first, and no longer than it may be.
LEMMA ListedFact ==
    ASSUME NEW list \in Seq(Entries), NEW e \in Entries
    PROVE  LET new == L!Capped(<<e>> \o list)
           IN  /\ new \in Seq(Entries) /\ Len(new) <= Cap
               /\ Len(new) = Cap \/ Len(new) = Len(list) + 1
               /\ \A i \in 1..Len(new) : new[i] = IF i = 1 THEN e ELSE list[i - 1]
               /\ \A i \in 1..Len(new) : i = 1 \/ i - 1 \in 1..Len(list)
<1> DEFINE long == <<e>> \o list
           new == L!Capped(long)
<1>1. /\ long \in Seq(Entries) /\ Len(long) = Len(list) + 1
      /\ \A i \in 1..Len(long) : long[i] = IF i = 1 THEN e ELSE list[i - 1]
  <2>1. <<e>> \in Seq(Entries) /\ Len(<<e>>) = 1 /\ <<e>>[1] = e
    OBVIOUS
  <2> QED
    BY <2>1, ConcatProperties
<1>2. Len(list) \in Nat /\ Cap \in Nat
  BY GatewayAssumption
<1> HIDE DEF long
<1>3. CASE Len(long) > Cap
  <2>1. new = SubSeq(long, 1, Cap)
    BY <1>3 DEF L!Capped
  <2>2. Len(long) \in Nat /\ Len(long) > Cap
    BY <1>1, <1>2, <1>3
  <2>3. /\ new \in Seq(Entries) /\ Len(new) = Cap
        /\ \A i \in 1..Cap : new[i] = long[i]
    <3>1. \A i \in 1..Cap : i \in 1..Len(long)
      BY <1>2, <2>2
    <3> QED
      BY <1>1, <1>2, <2>1, <2>2, <3>1
  <2> HIDE DEF new
  <2> QED
    BY <1>1, <1>2, <2>2, <2>3 DEF new, long
<1>4. CASE ~(Len(long) > Cap)
  <2>1. new = long
    BY <1>4 DEF L!Capped
  <2> HIDE DEF new
  <2>2. new \in Seq(Entries) /\ Len(new) = Len(list) + 1 /\ Len(new) <= Cap
    BY <1>1, <1>2, <1>4, <2>1
  <2> QED
    BY <1>1, <1>2, <2>1, <2>2 DEF new, long
<1> QED
  BY <1>3, <1>4

\* The list with a link marked as revoked: of the same links, and none less revoked.
LEMMA MarkedFact ==
    ASSUME NEW list \in Seq(Entries), NEW jti
    PROVE  LET new == L!Marked(list, jti)
           IN  /\ new \in Seq(Entries) /\ Len(new) = Len(list)
               /\ \A i \in 1..Len(new) : /\ new[i].jti = list[i].jti
                                         /\ list[i].revoked => new[i].revoked
                                         /\ new[i].jti = jti => new[i].revoked
<1> DEFINE n == Len(list)
           mark(i) == IF list[i].jti = jti THEN [list[i] EXCEPT !.revoked = TRUE] ELSE list[i]
<1>1. n \in Nat /\ DOMAIN list = 1..n
  OBVIOUS
<1>2. L!Marked(list, jti) = [i \in 1..n |-> mark(i)]
  BY <1>1 DEF L!Marked
<1>3. ASSUME NEW i \in 1..n
      PROVE  /\ mark(i) \in Entries /\ mark(i).jti = list[i].jti
             /\ list[i].revoked => mark(i).revoked
             /\ mark(i).jti = jti => mark(i).revoked
  <2>1. list[i] \in Entries
    OBVIOUS
  <2> QED
    BY <2>1 DEF Entries
<1> HIDE DEF mark
<1>4. [i \in 1..n |-> mark(i)] \in Seq(Entries) /\ Len([i \in 1..n |-> mark(i)]) = n
  BY <1>1, <1>3
<1> QED
  BY <1>1, <1>2, <1>3, <1>4

Request(pc, jti, list, flag) == [pc |-> pc, jti |-> jti, list |-> list, flag |-> flag]
Requests == [pc: LinkPCs, jti: Links \cup {None}, list: Seq(Entries), flag: BOOLEAN]

\* A step of request r replaces its record by x.
Becomes(r, x) ==
    /\ linkRequest' = [linkRequest EXCEPT ![r] = x]
    /\ linkRequest'[r] = x
    /\ \A q \in LinkRequests \ {r} : linkRequest'[q] = linkRequest[q]

\* The record that Begins writes, field by field.
LEMMA BegunRecord ==
    ASSUME NEW pc, NEW jti, NEW flag
    PROVE  [L!NoRequest EXCEPT !.pc = pc, !.jti = jti, !.flag = flag]
              = Request(pc, jti, <<>>, flag)
<1>1. L!NoRequest \in [pc: {"idle", pc}, jti: {None, jti}, list: {<<>>}, flag: {FALSE, flag}]
  BY DEF L!NoRequest
<1>2. ASSUME NEW x \in [pc: {"idle", pc}, jti: {None, jti}, list: {<<>>}, flag: {FALSE, flag}]
      PROVE  [x EXCEPT !.pc = pc, !.jti = jti, !.flag = flag]
                \in [pc: {pc}, jti: {jti}, list: {<<>>}, flag: {flag}]
  OBVIOUS
<1>3. ASSUME NEW x \in [pc: {pc}, jti: {jti}, list: {<<>>}, flag: {flag}]
      PROVE  x = [pc |-> pc, jti |-> jti, list |-> <<>>, flag |-> flag]
  OBVIOUS
<1> QED
  BY <1>1, <1>2, <1>3 DEF Request

\* What Begins, Ends and a plain update make of a request.
LEMMA BecomesFact ==
    ASSUME LinksTypeOK, NEW r \in LinkRequests
    PROVE  /\ \A x : linkRequest' = [linkRequest EXCEPT ![r] = x] => Becomes(r, x)
           /\ linkRequest[r] \in Requests
           /\ \A pc, jti, flag :
                 L!Begins(r, pc, jti, flag) => Becomes(r, Request(pc, jti, <<>>, flag))
           /\ L!Ends(r) => Becomes(r, Request("idle", None, <<>>, FALSE))
<1>1. \A x : linkRequest' = [linkRequest EXCEPT ![r] = x] => Becomes(r, x)
  BY DEF LinksTypeOK, Becomes
<1>2. linkRequest[r] \in Requests
  BY DEF LinksTypeOK, Requests
<1>3. ASSUME NEW pc, NEW jti, NEW flag, L!Begins(r, pc, jti, flag)
      PROVE  Becomes(r, Request(pc, jti, <<>>, flag))
  <2> DEFINE x == [L!NoRequest EXCEPT !.pc = pc, !.jti = jti, !.flag = flag]
  <2>1. linkRequest' = [linkRequest EXCEPT ![r] = x]
    BY <1>3 DEF L!Begins
  <2>2. x = Request(pc, jti, <<>>, flag)
    BY BegunRecord
  <2> HIDE DEF x
  <2> QED
    BY <1>1, <2>1, <2>2
<1>4. ASSUME L!Ends(r) PROVE Becomes(r, Request("idle", None, <<>>, FALSE))
  BY <1>1, <1>4 DEF L!Ends, L!NoRequest, Request
<1> QED
  BY <1>1, <1>2, <1>3, <1>4

\* The record of no request.
LEMMA IdleFact ==
    /\ Request("idle", None, <<>>, FALSE) \in Requests
    /\ Request("idle", None, <<>>, FALSE).pc = "idle"
    /\ Request("idle", None, <<>>, FALSE).list = <<>>
<1>1. <<>> \in Seq(Entries)
  OBVIOUS
<1> QED
  BY <1>1 DEF Request, Requests, LinkPCs, Auditing, Issuing

\* The record of a request that begins.
LEMMA BegunFact ==
    ASSUME NEW pc \in LinkPCs, NEW l \in Links, NEW flag \in BOOLEAN
    PROVE  LET x == Request(pc, l, <<>>, flag)
           IN  x \in Requests /\ x.pc = pc /\ x.jti = l /\ x.list = <<>> /\ x.flag = flag
<1>1. <<>> \in Seq(Entries)
  OBVIOUS
<1> QED
  BY <1>1 DEF Request, Requests

\* A step that reads and writes no list: a request outside the list goes on outside it.
LEMMA QuietPreserves ==
    ASSUME LinksInv, NEW r \in LinkRequests, NEW x \in Requests, Becomes(r, x),
           UNCHANGED <<linkNow, linkExp, audit, revoked, barred, mishaps>>,
           linkRequest[r].pc \notin Auditing, x.pc \notin Auditing,
           x.list = <<>> \/ x.list = linkRequest[r].list,
           x.pc # "idle" => x.jti \in Links,
           x.pc # "idle" /\ x.flag =>
              Shut(x.jti) /\ (x.pc = "active" => linkNow >= linkExp[x.jti]),
           L!RevokedStaysOut'
    PROVE  LinksInv'
<1>1. /\ linkRequest'[r] = x /\ \A q \in LinkRequests \ {r} : linkRequest'[q] = linkRequest[q]
      /\ linkRequest' = [linkRequest EXCEPT ![r] = x]
  BY DEF Becomes
<1>2. /\ linkNow' = linkNow /\ linkExp' = linkExp /\ audit' = audit /\ revoked' = revoked
      /\ barred' = barred /\ mishaps' = mishaps
  OBVIOUS
<1>3. LinksTypeOK'
  BY <1>1, <1>2 DEF LinksInv, LinksTypeOK, Requests
<1>4. BarredAreShut'
  BY <1>1, <1>2 DEF LinksInv, BarredAreShut, Shut
<1>5. \A list : GoodList(list)' <=> GoodList(list)
  BY <1>2 DEF GoodList
<1>6. GoodList(<<>>)
  BY GatewayAssumption DEF GoodList
<1>7. ListsAreGood'
  BY <1>1, <1>2, <1>5, <1>6 DEF LinksInv, ListsAreGood
<1>8. \A q \in LinkRequests :
         /\ linkRequest'[q].pc \in Auditing
               => linkRequest'[q] = linkRequest[q] /\ linkRequest[q].pc \in Auditing
         /\ linkRequest'[q].list = <<>> \/ linkRequest'[q].list = linkRequest[q].list
         /\ linkRequest[q].pc \in Auditing => linkRequest'[q] = linkRequest[q]
  BY <1>1
<1>9. IssuedOnce'
  BY <1>2, <1>8 DEF LinksInv, IssuedOnce, Auditing
<1>10. \A q \in LinkRequests : L!WritesAudit(q)' => L!WritesAudit(q) /\ linkRequest'[q] = linkRequest[q]
  BY <1>8 DEF L!WritesAudit, Auditing, Issuing
<1>11. ReadsAreFresh'
  BY <1>2, <1>10 DEF LinksInv, ReadsAreFresh
<1>12. L!Issued' = L!Issued
  BY <1>2, <1>8 DEF L!Issued, Auditing, Issuing
<1>13. L!AuditComplete' <=> L!AuditComplete
  BY <1>2, <1>12 DEF L!AuditComplete, L!Listed
<1> QED
  BY <1>2, <1>3, <1>4, <1>7, <1>9, <1>11, <1>13 DEF LinksInv

\* GET join and POST session-ticket: a link that is barred when the request begins has its
\* key, or has expired by the time it is looked for.
LEMMA ReadersPreserve ==
    ASSUME LinksInv, NEW r \in LinkRequests,
           L!verify(r) \/ L!resolve(r) \/ L!sessionTicket(r) \/ L!issueTicket(r)
    PROVE  LinksInv'
<1> DEFINE idle == Request("idle", None, <<>>, FALSE)
           old == linkRequest[r]
<1>1. /\ UNCHANGED <<linkNow, linkExp, audit, revoked, barred, mishaps>>
      /\ LinksTypeOK
  BY DEF LinksInv, L!verify, L!resolve, L!sessionTicket, L!issueTicket
<1>2. idle \in Requests /\ idle.pc = "idle" /\ idle.list = <<>>
  BY IdleFact
<1> HIDE DEF idle
<1>3. CASE L!verify(r)
  <2>1. PICK l \in L!Issued, what \in {"resolving", "ticketing"}, flag \in BOOLEAN :
           L!Begins(r, what, l, flag) /\ (flag => l \in barred)
    <3>1. PICK l \in L!Issued, what \in {"resolving", "ticketing"} :
             L!Begins(r, what, l, l \in barred)
      BY <1>3 DEF L!verify
    <3>2. CASE l \in barred
      <4>1. (l \in barred) = TRUE
        BY <3>2
      <4> QED
        BY <3>1, <3>2, <4>1
    <3>3. CASE l \notin barred
      <4>1. (l \in barred) = FALSE
        BY <3>3
      <4> QED
        BY <3>1, <3>3, <4>1
    <3> QED
      BY <3>2, <3>3
  <2>2. old.pc = "idle" /\ answer' = None
    BY <1>3 DEF L!verify, L!Silent
  <2> DEFINE x == Request(what, l, <<>>, flag)
  <2>3. l \in Links /\ what \in LinkPCs
    BY DEF L!Issued, LinkPCs
  <2>4. x \in Requests /\ x.pc = what /\ x.jti = l /\ x.list = <<>> /\ x.flag = flag
    BY <2>3, BegunFact
  <2>5. Becomes(r, x)
    BY <1>1, <2>1, BecomesFact
  <2> HIDE DEF x
  <2>6. x.pc \notin Auditing /\ x.pc # "active" /\ old.pc \notin Auditing
    BY <2>2, <2>4 DEF Auditing, Issuing
  <2>7. x.flag => Shut(x.jti)
    BY <2>1, <2>4 DEF LinksInv, BarredAreShut
  <2>8. L!RevokedStaysOut'
    BY <2>2 DEF L!RevokedStaysOut
  <2> QED
    BY <1>1, <2>3, <2>4, <2>5, <2>6, <2>7, <2>8, QuietPreserves
<1>4. CASE L!resolve(r) \/ L!issueTicket(r)
  <2>1. L!Ends(r) /\ old.pc \in {"resolving", "active"}
    BY <1>4 DEF L!resolve, L!issueTicket
  <2>2. Becomes(r, idle)
    BY <1>1, <2>1, BecomesFact DEF idle
  <2>3. old.pc \notin Auditing /\ idle.pc \notin Auditing
    BY <1>2, <2>1 DEF Auditing, Issuing
  <2>4. old.flag => Shut(old.jti) /\ (old.pc = "active" => linkNow >= linkExp[old.jti])
    BY <2>1 DEF LinksInv, BarredAreShut
  <2>5. \/ answer' = None
        \/ /\ answer' = [jti |-> old.jti, barred |-> old.flag]
           /\ old.pc = "resolving" => revoked[old.jti] = 0
    BY <1>4 DEF L!resolve, L!issueTicket, L!Answers, L!isRevoked
  <2>6. old.jti \in Links
    BY <1>1, <2>1 DEF LinksTypeOK
  <2>7. linkExp[old.jti] \in Nat /\ revoked[old.jti] \in Nat /\ linkNow \in Nat
    BY <1>1, <2>6 DEF LinksTypeOK
  <2>8. L!RevokedStaysOut'
    <3>1. CASE answer' = None
      BY <3>1 DEF L!RevokedStaysOut
    <3>2. CASE answer' # None /\ old.flag
      <4>1. linkNow >= linkExp[old.jti]
        BY <2>1, <2>4, <2>5, <2>7, <3>2 DEF Shut
      <4> QED
        BY <1>1, <2>5, <3>2, <4>1 DEF L!RevokedStaysOut
    <3>3. CASE answer' # None /\ ~old.flag
      BY <2>5, <3>3 DEF L!RevokedStaysOut
    <3> QED
      BY <3>1, <3>2, <3>3
  <2> QED
    BY <1>1, <1>2, <2>2, <2>3, <2>8, QuietPreserves
<1>5. CASE L!sessionTicket(r)
  <2>1. old.pc = "ticketing" /\ old.jti \in Links /\ old \in Requests
    BY <1>1, <1>5, BecomesFact DEF L!sessionTicket, LinksTypeOK
  <2>2. answer' = None
    BY <1>5 DEF L!sessionTicket, L!Answers, L!Silent
  <2>3. L!RevokedStaysOut'
    BY <2>2 DEF L!RevokedStaysOut
  <2>4. \/ L!Ends(r)
        \/ revoked[old.jti] = 0 /\ L!Goes(r, "active")
    BY <1>5 DEF L!sessionTicket, L!isRevoked
  <2>5. old.pc \notin Auditing
    BY <2>1 DEF Auditing, Issuing
  <2>6. CASE L!Ends(r)
    <3>1. Becomes(r, idle) /\ idle.pc \notin Auditing
      BY <1>1, <1>2, <2>6, BecomesFact DEF idle, Auditing, Issuing
    <3> QED
      BY <1>1, <1>2, <2>3, <2>5, <3>1, QuietPreserves
  <2>7. CASE revoked[old.jti] = 0 /\ L!Goes(r, "active")
    <3> DEFINE x == [old EXCEPT !.pc = "active"]
    <3>1. linkRequest' = [linkRequest EXCEPT ![r] = x]
      BY <1>1, <2>7 DEF L!Goes, LinksTypeOK
    <3>2. /\ x \in Requests /\ x.pc = "active" /\ x.jti = old.jti /\ x.list = old.list
          /\ x.flag = old.flag
      BY <2>1 DEF Requests, LinkPCs
    <3>3. Becomes(r, x)
      BY <1>1, <3>1, BecomesFact
    <3>4. x.pc \notin Auditing
      BY <3>2 DEF Auditing, Issuing
    <3>5. linkExp[old.jti] \in Nat /\ revoked[old.jti] \in Nat /\ linkNow \in Nat
      BY <1>1, <2>1 DEF LinksTypeOK
    <3>6. old.flag => Shut(old.jti) /\ linkNow >= linkExp[old.jti]
      BY <2>1, <2>7, <3>5 DEF LinksInv, BarredAreShut, Shut
    <3> HIDE DEF x, old
    <3>7. x.pc # "idle" => x.jti \in Links
      BY <2>1, <3>2
    <3>8. x.pc # "idle" /\ x.flag => Shut(x.jti) /\ (x.pc = "active" => linkNow >= linkExp[x.jti])
      BY <3>2, <3>6
    <3>9. old.pc \notin Auditing /\ x.list = old.list
      BY <2>5, <3>2
    <3> QED
      BY <1>1, <2>3, <3>2, <3>3, <3>4, <3>7, <3>8, <3>9, QuietPreserves DEF old
  <2> QED
    BY <2>4, <2>6, <2>7
<1> QED
  BY <1>3, <1>4, <1>5

\* An entry of a list is of one of the links.
LEMMA EntriesFact ==
    ASSUME NEW list \in Seq(Entries)
    PROVE  \A i \in DOMAIN list : list[i].jti \in Links /\ list[i] \in Entries
<1>1. \A i \in DOMAIN list : list[i] \in Entries
  OBVIOUS
<1> QED
  BY <1>1 DEF Entries

\* Redis drops the key of a revoked link only when no link of that age lives.
LEMMA LinkTickPreserves ==
    ASSUME LinksInv, L!Tick
    PROVE  LinksInv'
<1>1. /\ linkNow' = linkNow + 1
      /\ revoked' = [l \in Links |-> IF linkNow + 1 < revoked[l] THEN revoked[l] ELSE 0]
      /\ answer' = None
      /\ linkExp' = linkExp /\ audit' = audit /\ linkRequest' = linkRequest
      /\ barred' = barred /\ mishaps' = mishaps
  BY DEF L!Tick, L!Silent
<1>2. LinksTypeOK'
  BY <1>1 DEF LinksInv, LinksTypeOK
<1>3. ASSUME NEW l \in Links, Shut(l) PROVE Shut(l)'
  <2>1. linkExp[l] \in Nat /\ revoked[l] \in Nat /\ linkNow \in Nat
    BY DEF LinksInv, LinksTypeOK
  <2>2. revoked'[l] = IF linkNow + 1 < revoked[l] THEN revoked[l] ELSE 0
    BY <1>1
  <2> QED
    BY <1>1, <1>3, <2>1, <2>2 DEF Shut
<1>4. BarredAreShut'
  <2>1. \A l \in Links : linkExp'[l] <= linkNow' + MaxTtl
    BY <1>1, GatewayAssumption DEF LinksInv, LinksTypeOK, BarredAreShut
  <2>2. \A l \in barred' : Shut(l)'
    BY <1>1, <1>3 DEF LinksInv, LinksTypeOK, BarredAreShut
  <2>3. ASSUME NEW r \in LinkRequests, linkRequest[r].pc # "idle", linkRequest[r].flag
        PROVE  /\ Shut(linkRequest[r].jti)'
               /\ linkRequest[r].pc = "active" => linkNow' >= linkExp'[linkRequest[r].jti]
    <3>1. linkRequest[r].jti \in Links
      BY <2>3 DEF LinksInv, LinksTypeOK
    <3>2. /\ Shut(linkRequest[r].jti)
          /\ linkRequest[r].pc = "active" => linkNow >= linkExp[linkRequest[r].jti]
      BY <2>3 DEF LinksInv, BarredAreShut
    <3>3. Shut(linkRequest[r].jti)'
      <4> DEFINE l == linkRequest[r].jti
      <4>1. l' = l
        BY <1>1
      <4> QED
        BY <1>1, <1>3, <3>1, <3>2, <4>1 DEF Shut
    <3>4. linkExp[linkRequest[r].jti] \in Nat /\ linkNow \in Nat
      BY <3>1 DEF LinksInv, LinksTypeOK
    <3> QED
      BY <1>1, <3>2, <3>3, <3>4
  <2> QED
    BY <1>1, <2>1, <2>2, <2>3 DEF BarredAreShut
<1>5. L!RevokedStaysOut'
  BY <1>1 DEF L!RevokedStaysOut
<1>6. ListsAreGood' /\ IssuedOnce' /\ ReadsAreFresh'
  BY <1>1 DEF LinksInv, ListsAreGood, GoodList, IssuedOnce, ReadsAreFresh, L!WritesAudit
<1>7. L!AuditComplete' <=> L!AuditComplete
  BY <1>1 DEF L!AuditComplete, L!Listed, L!Issued
<1> QED
  BY <1>1, <1>2, <1>4, <1>5, <1>6, <1>7 DEF LinksInv

\* The request of a new link: nobody has heard of the link before.
LEMMA IssueLinkPreserves ==
    ASSUME LinksInv, NEW r \in LinkRequests, L!issue(r)
    PROVE  LinksInv'
<1>1. PICK l \in Links, ttl \in 1..MaxTtl :
         /\ linkExp[l] = 0
         /\ linkExp' = [linkExp EXCEPT ![l] = linkNow + ttl]
         /\ L!Begins(r, "issuing", l, FALSE)
  BY DEF L!issue
<1> DEFINE x == Request("issuing", l, <<>>, FALSE)
<1>2. /\ linkRequest[r].pc = "idle" /\ answer' = None
      /\ linkNow' = linkNow /\ audit' = audit /\ revoked' = revoked /\ barred' = barred
      /\ mishaps' = mishaps
      /\ LinksTypeOK /\ linkNow \in Nat /\ MaxTtl \in Nat
  BY GatewayAssumption DEF L!issue, L!Silent, LinksInv, LinksTypeOK
<1>3. "issuing" \in LinkPCs /\ "issuing" \in Issuing /\ Issuing \subseteq Auditing
  BY DEF LinkPCs, Auditing, Issuing
<1>4. x \in Requests /\ x.pc = "issuing" /\ x.jti = l /\ x.list = <<>> /\ x.flag = FALSE
  BY <1>3, BegunFact
<1>5. Becomes(r, x)
  BY <1>1, <1>2, BecomesFact
<1>6. /\ linkRequest'[r] = x /\ \A q \in LinkRequests \ {r} : linkRequest'[q] = linkRequest[q]
      /\ linkRequest' = [linkRequest EXCEPT ![r] = x]
  BY <1>5 DEF Becomes
<1> HIDE DEF x
<1>7. /\ linkExp'[l] = linkNow + ttl /\ linkExp'[l] > 0 /\ linkExp'[l] <= linkNow + MaxTtl
      /\ \A k \in Links \ {l} : linkExp'[k] = linkExp[k]
      /\ linkExp' \in [Links -> Nat]
  BY <1>1, <1>2 DEF LinksTypeOK
<1>8. LinksTypeOK'
  BY <1>2, <1>4, <1>6, <1>7 DEF LinksTypeOK, Requests
<1>9. \A k : Shut(k) /\ k \in Links => k # l /\ Shut(k)'
  BY <1>1, <1>2, <1>7 DEF Shut
<1>10. BarredAreShut'
  <2>1. \A k \in Links : linkExp'[k] <= linkNow' + MaxTtl
    BY <1>2, <1>7 DEF LinksInv, BarredAreShut
  <2>2. \A k \in barred' : Shut(k)'
    BY <1>2, <1>9 DEF LinksInv, LinksTypeOK, BarredAreShut
  <2>3. ASSUME NEW q \in LinkRequests, linkRequest'[q].pc # "idle", linkRequest'[q].flag
        PROVE  /\ Shut(linkRequest[q].jti)' /\ linkRequest'[q] = linkRequest[q]
               /\ linkRequest'[q].pc = "active" => linkNow' >= linkExp'[linkRequest'[q].jti]
    <3>1. linkRequest'[q] = linkRequest[q]
      BY <1>4, <1>6, <2>3
    <3>2. linkRequest[q].jti \in Links
      BY <2>3, <3>1 DEF LinksInv, LinksTypeOK
    <3>3. /\ Shut(linkRequest[q].jti)
          /\ linkRequest[q].pc = "active" => linkNow >= linkExp[linkRequest[q].jti]
      BY <2>3, <3>1 DEF LinksInv, BarredAreShut
    <3>4. linkRequest[q].jti # l
      BY <1>9, <3>2, <3>3
    <3> QED
      BY <1>2, <1>7, <3>1, <3>2, <3>3, <3>4 DEF Shut
  <2> QED
    BY <2>1, <2>2, <2>3 DEF BarredAreShut, Shut
<1>11. L!RevokedStaysOut'
  BY <1>2 DEF L!RevokedStaysOut
<1>12. \A k \in Links : linkExp[k] > 0 => linkExp'[k] > 0 /\ k # l
  BY <1>1, <1>7
<1>13. /\ audit \in Seq(Entries)
       /\ \A q \in LinkRequests : linkRequest[q].list \in Seq(Entries)
       /\ \A list \in Seq(Entries) : \A i \in DOMAIN list : list[i].jti \in Links
  BY EntriesFact DEF LinksInv, LinksTypeOK
<1>14. \A list \in Seq(Entries) :
          GoodList(list) => GoodList(list)' /\ \A i \in DOMAIN list : list[i].jti # l
  BY <1>12, <1>13 DEF GoodList
<1>15. GoodList(<<>>)'
  BY GatewayAssumption DEF GoodList
<1>16. ListsAreGood'
  BY <1>2, <1>4, <1>6, <1>13, <1>14, <1>15 DEF LinksInv, ListsAreGood
<1>17. IssuedOnce'
  <2>1. ASSUME NEW q \in LinkRequests, linkRequest[q].pc \in Auditing
        PROVE  linkRequest[q].jti \in Links /\ linkRequest[q].jti # l
               /\ linkExp'[linkRequest[q].jti] > 0
    <3>1. linkRequest[q].jti \in Links
      BY <2>1 DEF LinksInv, LinksTypeOK, Auditing, Issuing
    <3> QED
      BY <1>12, <2>1, <3>1 DEF LinksInv, IssuedOnce
  <2>2. \A q \in LinkRequests : linkRequest'[q].pc \in Auditing => linkExp'[linkRequest'[q].jti] > 0
    BY <1>4, <1>6, <1>7, <2>1
  <2>3. l \notin barred /\ \A i \in DOMAIN audit : audit[i].jti # l
    BY <1>2, <1>9, <1>13, <1>14 DEF LinksInv, BarredAreShut, LinksTypeOK, ListsAreGood
  <2>4. \A q \in LinkRequests : \A i \in DOMAIN linkRequest'[q].list : linkRequest'[q].list[i].jti # l
    BY <1>4, <1>6, <1>13, <1>14 DEF LinksInv, ListsAreGood
  <2>5. \A q \in LinkRequests :
           linkRequest'[q].pc \in Auditing /\ linkRequest'[q].jti = l => q = r
    BY <1>6, <2>1
  <2>6. ASSUME NEW p \in LinkRequests \ {r}, linkRequest[p].pc \in Issuing
        PROVE  /\ linkRequest[p].jti \notin barred
               /\ \A i \in DOMAIN audit : audit[i].jti # linkRequest[p].jti
               /\ \A q \in LinkRequests : \A i \in DOMAIN linkRequest'[q].list :
                     linkRequest'[q].list[i].jti # linkRequest[p].jti
               /\ \A q \in LinkRequests :
                     linkRequest'[q].pc \in Auditing /\ linkRequest'[q].jti = linkRequest[p].jti
                        => q = p
    BY <1>3, <1>4, <1>6, <2>1, <2>6 DEF LinksInv, IssuedOnce
  <2> QED
    BY <1>2, <1>4, <1>6, <2>2, <2>3, <2>4, <2>5, <2>6 DEF IssuedOnce
<1>18. ~L!WritesAudit(r)' /\ ~L!WritesAudit(r)
       /\ \A q \in LinkRequests \ {r} : L!WritesAudit(q)' <=> L!WritesAudit(q)
  BY <1>2, <1>4, <1>6 DEF L!WritesAudit
<1>19. ReadsAreFresh'
  BY <1>2, <1>6, <1>18 DEF LinksInv, ReadsAreFresh
<1>20. L!Issued' \subseteq L!Issued
  BY <1>3, <1>4, <1>6, <1>7, <1>2 DEF L!Issued, Issuing
<1>21. L!AuditComplete => L!AuditComplete'
  BY <1>2, <1>20 DEF L!AuditComplete, L!Listed
<1> QED
  BY <1>2, <1>8, <1>10, <1>11, <1>16, <1>17, <1>19, <1>21 DEF LinksInv

\* The key is set before anything else, for as long as any link lives.
LEMMA RevokePreserves ==
    ASSUME LinksInv, NEW r \in LinkRequests, L!revoke(r)
    PROVE  LinksInv'
<1>1. PICK l \in L!Issued, ok \in BOOLEAN :
         /\ revoked' = IF ok THEN [revoked EXCEPT ![l] = L!RevokedUntil] ELSE revoked
         /\ L!Begins(r, "revoking_audit", l, ok)
  BY DEF L!revoke
<1> DEFINE x == Request("revoking_audit", l, <<>>, ok)
<1>2. /\ linkRequest[r].pc = "idle" /\ answer' = None
      /\ linkNow' = linkNow /\ linkExp' = linkExp /\ audit' = audit /\ barred' = barred
      /\ mishaps' = mishaps
      /\ LinksTypeOK /\ linkNow \in Nat /\ MaxTtl \in Nat
  BY GatewayAssumption DEF L!revoke, L!Silent, LinksInv, LinksTypeOK
<1>3. /\ "revoking_audit" \in LinkPCs /\ "revoking_audit" \in Auditing
      /\ "revoking_audit" \notin Issuing /\ Issuing \subseteq Auditing
  BY DEF LinkPCs, Auditing, Issuing
<1>4. l \in Links /\ linkExp[l] > 0
      /\ \A q \in LinkRequests : ~(linkRequest[q].pc \in Issuing /\ linkRequest[q].jti = l)
  BY <1>2 DEF L!Issued, Issuing, LinksTypeOK
<1>5. x \in Requests /\ x.pc = "revoking_audit" /\ x.jti = l /\ x.list = <<>> /\ x.flag = ok
  BY <1>3, <1>4, BegunFact
<1>6. Becomes(r, x)
  BY <1>1, <1>2, BecomesFact
<1>7. /\ linkRequest'[r] = x /\ \A q \in LinkRequests \ {r} : linkRequest'[q] = linkRequest[q]
      /\ linkRequest' = [linkRequest EXCEPT ![r] = x]
  BY <1>6 DEF Becomes
<1> HIDE DEF x
<1>8. /\ revoked' \in [Links -> Nat]
      /\ ok => revoked'[l] = linkNow + MaxTtl
      /\ ~ok => revoked'[l] = revoked[l]
      /\ \A k \in Links \ {l} : revoked'[k] = revoked[k]
  <2>1. L!RevokedUntil = linkNow + MaxTtl
    BY DEF L!RevokedUntil
  <2> QED
    BY <1>1, <1>2, <1>4, <2>1 DEF LinksTypeOK
<1>9. LinksTypeOK'
  BY <1>2, <1>4, <1>5, <1>7, <1>8 DEF LinksTypeOK, Requests
<1>10. linkExp[l] <= linkNow + MaxTtl
  BY <1>4 DEF LinksInv, BarredAreShut
<1>11. \A k \in Links : Shut(k) => Shut(k)'
  BY <1>2, <1>8, <1>10 DEF Shut
<1>12. ok => Shut(l)'
  BY <1>2, <1>4, <1>8, <1>10 DEF Shut
<1>13. BarredAreShut'
  <2>1. \A k \in barred' : Shut(k)'
    BY <1>2, <1>11 DEF LinksInv, LinksTypeOK, BarredAreShut
  <2>2. ASSUME NEW q \in LinkRequests, linkRequest'[q].pc # "idle", linkRequest'[q].flag
        PROVE  \E k \in Links :
                  /\ k = linkRequest'[q].jti /\ Shut(k)'
                  /\ linkRequest'[q].pc = "active" => linkNow >= linkExp[k]
    <3>1. CASE q = r
      <4>1. linkRequest'[q].jti = l /\ linkRequest'[q].pc # "active" /\ ok
        BY <1>5, <1>7, <2>2, <3>1
      <4> QED
        BY <1>4, <1>12, <4>1
    <3>2. CASE q # r
      <4>1. linkRequest'[q] = linkRequest[q] /\ linkRequest[q].jti \in Links
        BY <1>2, <1>7, <2>2, <3>2 DEF LinksTypeOK
      <4>2. /\ Shut(linkRequest[q].jti)
            /\ linkRequest[q].pc = "active" => linkNow >= linkExp[linkRequest[q].jti]
        BY <2>2, <4>1 DEF LinksInv, BarredAreShut
      <4> QED
        BY <1>11, <4>1, <4>2
    <3> QED
      BY <3>1, <3>2
  <2> QED
    BY <1>2, <2>1, <2>2 DEF LinksInv, BarredAreShut, Shut
<1>14. L!RevokedStaysOut'
  BY <1>2 DEF L!RevokedStaysOut
<1>15. ListsAreGood'
  BY GatewayAssumption, <1>2, <1>5, <1>7 DEF LinksInv, ListsAreGood, GoodList
<1>16. IssuedOnce'
  <2>1. \A q \in LinkRequests : linkRequest'[q].pc \in Auditing => linkExp'[linkRequest'[q].jti] > 0
    BY <1>2, <1>4, <1>5, <1>7 DEF LinksInv, IssuedOnce
  <2>2. ASSUME NEW p \in LinkRequests \ {r}, linkRequest[p].pc \in Issuing
        PROVE  /\ linkRequest[p].jti \notin barred
               /\ \A i \in DOMAIN audit : audit[i].jti # linkRequest[p].jti
               /\ \A q \in LinkRequests : \A i \in DOMAIN linkRequest'[q].list :
                     linkRequest'[q].list[i].jti # linkRequest[p].jti
               /\ \A q \in LinkRequests :
                     linkRequest'[q].pc \in Auditing /\ linkRequest'[q].jti = linkRequest[p].jti
                        => q = p
    BY <1>4, <1>5, <1>7, <2>2 DEF LinksInv, IssuedOnce
  <2> QED
    BY <1>2, <1>3, <1>5, <1>7, <2>1, <2>2 DEF IssuedOnce
<1>17. ~L!WritesAudit(r)' /\ ~L!WritesAudit(r)
       /\ \A q \in LinkRequests \ {r} : L!WritesAudit(q)' <=> L!WritesAudit(q)
  BY <1>2, <1>5, <1>7 DEF L!WritesAudit
<1>18. ReadsAreFresh'
  BY <1>2, <1>7, <1>17 DEF LinksInv, ReadsAreFresh
<1>19. L!Issued' \subseteq L!Issued
  BY <1>2, <1>5, <1>7 DEF L!Issued
<1>20. L!AuditComplete => L!AuditComplete'
  BY <1>2, <1>19 DEF L!AuditComplete, L!Listed
<1> QED
  BY <1>2, <1>9, <1>13, <1>14, <1>15, <1>16, <1>18, <1>20 DEF LinksInv

\* A request reads the list: alone, unless another one is between reading and writing.
LEMMA ReadListPreserves ==
    ASSUME LinksInv, NEW r \in LinkRequests, L!readAuditList(r)
    PROVE  LinksInv'
<1> DEFINE old == linkRequest[r]
           pc == IF old.pc = "issuing" THEN "issuing_read" ELSE "revoking_read"
<1>1. PICK list \in {audit} \cup {<<>>} :
         /\ linkRequest' = [linkRequest EXCEPT ![r] = [old EXCEPT !.list = list, !.pc = pc]]
         /\ mishaps' = mishaps \cup
               (IF list # audit THEN {"unread"} ELSE {}) \cup
               (IF \E q \in LinkRequests \ {r} : L!WritesAudit(q) THEN {"overlap"} ELSE {})
  <2>1. PICK list \in {audit} \cup (IF L!MayFail THEN {<<>>} ELSE {}) :
           /\ linkRequest' = [linkRequest EXCEPT ![r].list = list,
                 ![r].pc = IF @ = "issuing" THEN "issuing_read" ELSE "revoking_read"]
           /\ mishaps' = mishaps \cup
                 (IF list # audit THEN {"unread"} ELSE {}) \cup
                 (IF \E q \in LinkRequests \ {r} : L!WritesAudit(q) THEN {"overlap"} ELSE {})
    BY DEF L!readAuditList
  <2>2. linkRequest' = [linkRequest EXCEPT ![r] = [old EXCEPT !.list = list, !.pc = pc]]
    BY <2>1 DEF LinksInv, LinksTypeOK
  <2> QED
    BY <2>1, <2>2
<1>2. /\ old.pc \in {"issuing", "revoking_audit"} /\ answer' = None
      /\ linkNow' = linkNow /\ linkExp' = linkExp /\ audit' = audit /\ barred' = barred
      /\ revoked' = revoked
      /\ LinksTypeOK /\ audit \in Seq(Entries)
  BY DEF L!readAuditList, L!Silent, LinksInv, LinksTypeOK
<1> DEFINE x == [old EXCEPT !.list = list, !.pc = pc]
<1>3. old \in Requests
  BY <1>2, BecomesFact
<1>4. list \in Seq(Entries) /\ pc \in LinkPCs
  <2>1. <<>> \in Seq(Entries)
    OBVIOUS
  <2>2. pc \in LinkPCs
    BY DEF LinkPCs, Auditing, Issuing
  <2> QED
    BY <1>1, <1>2, <2>1, <2>2
<1>5. x \in Requests /\ x.pc = pc /\ x.jti = old.jti /\ x.list = list /\ x.flag = old.flag
  <2> HIDE DEF pc, old
  <2> QED
    BY <1>3, <1>4 DEF Requests
<1>6. /\ linkRequest'[r] = x /\ \A q \in LinkRequests \ {r} : linkRequest'[q] = linkRequest[q]
      /\ linkRequest' = [linkRequest EXCEPT ![r] = x]
  BY <1>1, <1>2 DEF LinksTypeOK
<1>7. /\ x.pc \in Auditing /\ old.pc \in Auditing /\ x.pc # "active" /\ x.pc # "idle"
      /\ old.pc # "idle" /\ old.jti \in Links
      /\ x.pc \in Issuing <=> old.pc \in Issuing
  BY <1>2, <1>5 DEF Auditing, Issuing, LinksTypeOK
<1> HIDE DEF x
<1>8. LinksTypeOK'
  BY <1>2, <1>5, <1>6, <1>7 DEF LinksTypeOK, Requests
<1>9. BarredAreShut'
  <2>1. \A k : Shut(k)' <=> Shut(k)
    BY <1>2 DEF Shut
  <2>2. ASSUME NEW q \in LinkRequests, linkRequest'[q].pc # "idle", linkRequest'[q].flag
        PROVE  /\ Shut(linkRequest'[q].jti)
               /\ linkRequest'[q].pc = "active" => linkNow >= linkExp[linkRequest'[q].jti]
    BY <1>5, <1>6, <1>7, <2>2 DEF LinksInv, BarredAreShut
  <2> QED
    BY <1>2, <2>1, <2>2 DEF LinksInv, BarredAreShut, Shut
<1>10. L!RevokedStaysOut'
  BY <1>2 DEF L!RevokedStaysOut
<1>11. ListsAreGood'
  BY GatewayAssumption, <1>1, <1>2, <1>5, <1>6 DEF LinksInv, ListsAreGood, GoodList
<1>12. IssuedOnce'
  <2>1. \A q \in LinkRequests :
           /\ linkRequest'[q].jti = linkRequest[q].jti
           /\ linkRequest'[q].pc \in Issuing <=> linkRequest[q].pc \in Issuing
           /\ linkRequest'[q].pc \in Auditing <=> linkRequest[q].pc \in Auditing
    BY <1>5, <1>6, <1>7
  <2>2. \A q \in LinkRequests : \A i \in DOMAIN linkRequest'[q].list :
           \/ i \in DOMAIN linkRequest[q].list /\ linkRequest'[q].list = linkRequest[q].list
           \/ i \in DOMAIN audit /\ linkRequest'[q].list = audit
    BY <1>1, <1>5, <1>6
  <2> QED
    BY <1>2, <2>1, <2>2 DEF LinksInv, IssuedOnce
<1>13. ReadsAreFresh'
  <2> SUFFICES ASSUME "overlap" \notin mishaps'
               PROVE  /\ \A p, q \in LinkRequests : L!WritesAudit(p)' /\ L!WritesAudit(q)' => p = q
                      /\ "unread" \notin mishaps' =>
                            \A q \in LinkRequests : L!WritesAudit(q)' => linkRequest'[q].list = audit
    BY <1>2 DEF ReadsAreFresh
  <2>1. \A q \in LinkRequests \ {r} : ~L!WritesAudit(q)
    BY <1>1
  <2>2. \A q \in LinkRequests \ {r} : ~L!WritesAudit(q)'
    BY <1>6, <2>1 DEF L!WritesAudit
  <2>3. "unread" \notin mishaps' => list = audit
    BY <1>1
  <2> QED
    BY <1>5, <1>6, <2>2, <2>3
<1>14. L!Issued' = L!Issued
  <2>1. \A q \in LinkRequests :
           /\ linkRequest'[q].jti = linkRequest[q].jti
           /\ linkRequest'[q].pc \in Issuing <=> linkRequest[q].pc \in Issuing
    BY <1>5, <1>6, <1>7
  <2> QED
    BY <1>2, <2>1 DEF L!Issued, Issuing
<1>15. mishaps \subseteq mishaps'
  BY <1>1
<1>16. L!AuditComplete => L!AuditComplete'
  BY <1>2, <1>14, <1>15 DEF L!AuditComplete, L!Listed
<1> QED
  BY <1>8, <1>9, <1>10, <1>11, <1>12, <1>13, <1>15, <1>16 DEF LinksInv

\* The new link is listed, unless Redis does not answer; nobody else writes the list
\* meanwhile, unless two requests overlap.
LEMMA RecordIssuedPreserves ==
    ASSUME LinksInv, NEW r \in LinkRequests, L!recordIssued(r)
    PROVE  LinksInv'
<1> DEFINE l == linkRequest[r].jti
           old == linkRequest[r].list
           e == [jti |-> l, revoked |-> FALSE]
           new == L!Capped(<<e>> \o old)
           x == Request("idle", None, <<>>, FALSE)
<1>1. /\ \/ audit' = new /\ mishaps' = mishaps
         \/ audit' = audit /\ mishaps' = mishaps \cup {"unwritten"}
      /\ linkRequest[r].pc = "issuing_read"
      /\ linkNow' = linkNow /\ linkExp' = linkExp /\ revoked' = revoked /\ barred' = barred
      /\ answer' = None
      /\ L!Ends(r)
  BY DEF L!recordIssued, L!writeAudit, L!Silent
<1>2. /\ LinksTypeOK /\ audit \in Seq(Entries) /\ old \in Seq(Entries) /\ Cap \in Nat
      /\ "issuing_read" \in Issuing /\ "issuing_read" \in Auditing /\ l \in Links
      /\ e \in Entries
  BY <1>1, GatewayAssumption DEF LinksInv, LinksTypeOK, Issuing, Auditing, Entries
<1>3. x \in Requests /\ x.pc = "idle" /\ x.list = <<>> /\ x.pc \notin Auditing
  BY IdleFact DEF Auditing, Issuing
<1>4. Becomes(r, x)
  BY <1>1, <1>2, BecomesFact
<1>5. /\ linkRequest'[r] = x /\ \A q \in LinkRequests \ {r} : linkRequest'[q] = linkRequest[q]
      /\ linkRequest' = [linkRequest EXCEPT ![r] = x]
  BY <1>4 DEF Becomes
<1> HIDE DEF x
<1>6. linkExp[l] > 0 /\ l \notin barred
      /\ (\A i \in DOMAIN audit : audit[i].jti # l)
      /\ (\A q \in LinkRequests : \A i \in DOMAIN linkRequest[q].list :
              linkRequest[q].list[i].jti # l)
      /\ (\A q \in LinkRequests :
              linkRequest[q].pc \in Auditing /\ linkRequest[q].jti = l => q = r)
  BY <1>1, <1>2 DEF LinksInv, IssuedOnce
<1>7. /\ new \in Seq(Entries) /\ Len(new) <= Cap
      /\ Len(new) = Cap \/ Len(new) = Len(old) + 1
      /\ \A i \in 1..Len(new) : new[i] = IF i = 1 THEN e ELSE old[i - 1]
      /\ \A i \in 1..Len(new) : i = 1 \/ i - 1 \in 1..Len(old)
  <2> HIDE DEF old, e
  <2> QED
    BY <1>2, ListedFact
<1>8. e.jti = l /\ e.revoked = FALSE
  OBVIOUS
<1> HIDE DEF new, e, old
<1>9. LinksTypeOK'
  BY <1>1, <1>2, <1>3, <1>5, <1>7 DEF LinksTypeOK, Requests
<1>10. BarredAreShut'
  BY <1>1, <1>3, <1>5 DEF LinksInv, BarredAreShut, Shut
<1>11. L!RevokedStaysOut'
  BY <1>1 DEF L!RevokedStaysOut
<1>12. GoodList(old) /\ \A i \in DOMAIN old : old[i].jti # l
  BY <1>6 DEF LinksInv, ListsAreGood, old
<1>dom. /\ DOMAIN new = 1..Len(new) /\ Len(new) \in Nat
        /\ DOMAIN old = 1..Len(old) /\ Len(old) \in Nat
  BY <1>2, <1>7
<1>13. /\ \A i, j \in DOMAIN new : new[i].jti = new[j].jti => i = j
       /\ \A i \in DOMAIN new : linkExp[new[i].jti] > 0
  <2>1. DOMAIN new = 1..Len(new) /\ DOMAIN old = 1..Len(old)
    BY <1>dom
  <2>2. ASSUME NEW i \in DOMAIN new, i # 1
        PROVE  i - 1 \in DOMAIN old /\ new[i] = old[i - 1] /\ new[i].jti # l
    <3>1. i - 1 \in DOMAIN old /\ new[i] = old[i - 1]
      BY <1>7, <2>1, <2>2
    <3> QED
      BY <1>12, <3>1
  <2>3. \A i \in DOMAIN new : i = 1 => new[i].jti = l
    BY <1>7, <1>8, <2>1
  <2>4. ASSUME NEW i \in DOMAIN new, NEW j \in DOMAIN new, new[i].jti = new[j].jti
        PROVE  i = j
    <3>1. CASE i = 1 \/ j = 1
      BY <2>2, <2>3, <2>4, <3>1
    <3>2. CASE i # 1 /\ j # 1
      <4>1. i - 1 = j - 1
        BY <1>12, <2>2, <2>4, <3>2 DEF GoodList
      <4>2. i \in Int /\ j \in Int
        BY <1>dom
      <4> QED
        BY <4>1, <4>2
    <3> QED
      BY <3>1, <3>2
  <2>5. \A i \in DOMAIN new : linkExp[new[i].jti] > 0
    BY <1>6, <1>12, <2>2, <2>3 DEF GoodList
  <2> QED
    BY <2>4, <2>5
<1>14. ListsAreGood'
  <2>1. GoodList(audit)'
    BY <1>1, <1>7, <1>13 DEF LinksInv, ListsAreGood, GoodList
  <2>2. \A q \in LinkRequests : GoodList(linkRequest[q].list)'
    BY GatewayAssumption, <1>1, <1>3, <1>5 DEF LinksInv, ListsAreGood, GoodList
  <2> QED
    BY <2>1, <2>2 DEF ListsAreGood
<1>15. /\ \A q \in LinkRequests :
            linkRequest'[q].pc \in Auditing
               => q # r /\ linkRequest'[q] = linkRequest[q] /\ linkRequest[q].pc \in Auditing
       /\ \A q \in LinkRequests :
            linkRequest'[q].list = <<>> \/ linkRequest'[q].list = linkRequest[q].list
  BY <1>3, <1>5
<1>16. IssuedOnce'
  <2>1. \A q \in LinkRequests : linkRequest'[q].pc \in Auditing => linkExp[linkRequest'[q].jti] > 0
    BY <1>15 DEF LinksInv, IssuedOnce
  <2>2. ASSUME NEW p \in LinkRequests, linkRequest'[p].pc \in Issuing
        PROVE  /\ linkRequest'[p] = linkRequest[p]
               /\ linkRequest[p].jti \notin barred
               /\ \A i \in DOMAIN audit' : audit'[i].jti # linkRequest[p].jti
               /\ \A q \in LinkRequests : \A i \in DOMAIN linkRequest'[q].list :
                     linkRequest'[q].list[i].jti # linkRequest[p].jti
               /\ \A q \in LinkRequests :
                     linkRequest'[q].pc \in Auditing /\ linkRequest'[q].jti = linkRequest[p].jti
                        => q = p
    <3>1. p # r /\ linkRequest'[p] = linkRequest[p] /\ linkRequest[p].pc \in Issuing
      BY <1>15, <2>2 DEF Auditing
    <3>2. /\ linkRequest[p].jti \notin barred
          /\ \A i \in DOMAIN audit : audit[i].jti # linkRequest[p].jti
          /\ \A q \in LinkRequests : \A i \in DOMAIN linkRequest[q].list :
                linkRequest[q].list[i].jti # linkRequest[p].jti
          /\ \A q \in LinkRequests :
                linkRequest[q].pc \in Auditing /\ linkRequest[q].jti = linkRequest[p].jti
                   => q = p
      BY <3>1 DEF LinksInv, IssuedOnce
    <3>3. linkRequest[p].jti # l
      BY <1>6, <3>1 DEF Auditing
    <3>4. \A i \in DOMAIN new : new[i].jti # linkRequest[p].jti
      <4>1. ASSUME NEW i \in DOMAIN new PROVE new[i].jti = l \/ \E j \in DOMAIN old : new[i] = old[j]
        BY <1>dom, <1>7, <1>8
      <4>2. \A j \in DOMAIN old : old[j].jti # linkRequest[p].jti
        BY <3>2 DEF old
      <4> QED
        BY <3>3, <4>1, <4>2
    <3> QED
      BY <1>1, <1>15, <3>1, <3>2, <3>4
  <2> QED
    BY <1>1, <2>1, <2>2 DEF IssuedOnce
<1>17. \A q \in LinkRequests : L!WritesAudit(q)' => L!WritesAudit(q) /\ q # r
                                               /\ linkRequest'[q] = linkRequest[q]
  BY <1>15 DEF L!WritesAudit, Auditing, Issuing
<1>18. L!WritesAudit(r)
  BY <1>1 DEF L!WritesAudit
<1>19. ReadsAreFresh'
  <2> SUFFICES ASSUME "overlap" \notin mishaps'
               PROVE  \A q \in LinkRequests : ~L!WritesAudit(q)'
    BY DEF ReadsAreFresh
  <2>1. "overlap" \notin mishaps
    BY <1>1
  <2> QED
    BY <1>17, <1>18, <2>1 DEF LinksInv, ReadsAreFresh
<1>20. ASSUME "overlap" \notin mishaps', L!AuditComplete
       PROVE  L!AuditComplete'
  <2> SUFFICES ASSUME mishaps' \cap {"unread", "unwritten"} = {}
               PROVE  /\ \A k \in L!Issued' : (\E i \in DOMAIN audit' : audit'[i].jti = k)
                                                \/ Len(audit') = Cap
                      /\ \A i \in DOMAIN audit' : audit'[i].jti \in barred => audit'[i].revoked
    BY <1>1 DEF L!AuditComplete, L!Listed
  <2>1. audit' = new /\ mishaps' = mishaps
    BY <1>1
  <2>2. old = audit
    BY <1>18, <1>20, <2>1 DEF LinksInv, ReadsAreFresh, old
  <2>3. /\ \A k \in L!Issued : (\E i \in DOMAIN audit : audit[i].jti = k) \/ Len(audit) = Cap
        /\ \A i \in DOMAIN audit : audit[i].jti \in barred => audit[i].revoked
    BY <1>20, <2>1 DEF L!AuditComplete, L!Listed
  <2>4. \A k \in L!Issued' : k = l \/ k \in L!Issued
    BY <1>1, <1>2, <1>5 DEF L!Issued
  <2>5. CASE Len(new) = Cap
    <3>1. \A i \in DOMAIN new : new[i].jti \in barred => new[i].revoked
      BY <1>2, <1>6, <1>7, <1>8, <2>2, <2>3
    <3> QED
      BY <2>1, <2>5, <3>1
  <2>6. CASE Len(new) # Cap
    <3>1. Len(new) = Len(audit) + 1 /\ Len(audit) # Cap
      BY <1>2, <1>7, <2>2, <2>6
    <3>2. \A i \in DOMAIN new : new[i].jti \in barred => new[i].revoked
      BY <1>2, <1>6, <1>7, <1>8, <2>2, <2>3
    <3>3. 1 \in DOMAIN new /\ new[1].jti = l
      BY <1>2, <1>7, <1>8, <3>1
    <3>4. \A i \in DOMAIN audit : i + 1 \in DOMAIN new /\ new[i + 1] = audit[i]
      BY <1>2, <1>7, <2>2, <3>1
    <3>5. ASSUME NEW k \in L!Issued' PROVE \E i \in DOMAIN new : new[i].jti = k
      <4>1. CASE k = l
        BY <3>3, <4>1
      <4>2. CASE k # l
        <5>1. PICK i \in DOMAIN audit : audit[i].jti = k
          BY <2>3, <2>4, <3>1, <3>5, <4>2
        <5> QED
          BY <3>4, <5>1
      <4> QED
        BY <4>1, <4>2
    <3> QED
      BY <2>1, <3>2, <3>5
  <2> QED
    BY <2>5, <2>6
<1>21. mishaps \subseteq mishaps'
  BY <1>1
<1> QED
  BY <1>9, <1>10, <1>11, <1>14, <1>16, <1>19, <1>20, <1>21 DEF LinksInv

\* A revocation is marked in the list, of which nothing else changes.
LEMMA RevokedInAuditPreserves ==
    ASSUME LinksInv, NEW r \in LinkRequests, L!revokedInAudit(r)
    PROVE  LinksInv'
<1> DEFINE l == linkRequest[r].jti
           old == linkRequest[r].list
           flag == linkRequest[r].flag
           new == L!Marked(old, l)
           x == Request("idle", None, <<>>, FALSE)
<1>1. /\ \/ audit' = new /\ mishaps' = mishaps
         \/ audit' = audit /\ mishaps' = mishaps /\ new = old
         \/ audit' = audit /\ mishaps' = mishaps \cup {"unwritten"}
      /\ linkRequest[r].pc = "revoking_read"
      /\ barred' = IF flag THEN barred \cup {l} ELSE barred
      /\ linkNow' = linkNow /\ linkExp' = linkExp /\ revoked' = revoked
      /\ answer' = None
      /\ L!Ends(r)
  BY DEF L!revokedInAudit, L!writeAudit, L!Silent
<1>2. /\ LinksTypeOK /\ audit \in Seq(Entries) /\ old \in Seq(Entries) /\ Cap \in Nat
      /\ "revoking_read" \in Auditing /\ "revoking_read" \notin Issuing /\ l \in Links
      /\ flag \in BOOLEAN
  BY <1>1, GatewayAssumption DEF LinksInv, LinksTypeOK, Issuing, Auditing
<1>3. x \in Requests /\ x.pc = "idle" /\ x.list = <<>> /\ x.pc \notin Auditing
  BY IdleFact DEF Auditing, Issuing
<1>4. Becomes(r, x)
  BY <1>1, <1>2, BecomesFact
<1>5. /\ linkRequest'[r] = x /\ \A q \in LinkRequests \ {r} : linkRequest'[q] = linkRequest[q]
      /\ linkRequest' = [linkRequest EXCEPT ![r] = x]
  BY <1>4 DEF Becomes
<1> HIDE DEF x
<1>6. linkExp[l] > 0 /\ (flag => Shut(l))
      /\ \A p \in LinkRequests : linkRequest[p].pc \in Issuing => linkRequest[p].jti # l
  BY <1>1, <1>2 DEF LinksInv, IssuedOnce, BarredAreShut
<1>7. /\ new \in Seq(Entries) /\ Len(new) = Len(old)
      /\ \A i \in 1..Len(new) : /\ new[i].jti = old[i].jti
                                /\ old[i].revoked => new[i].revoked
                                /\ new[i].jti = l => new[i].revoked
  <2> HIDE DEF old, l
  <2> QED
    BY <1>2, MarkedFact
<1> HIDE DEF new, old, l, flag
<1>8. DOMAIN new = DOMAIN old /\ DOMAIN new = 1..Len(new) /\ Len(old) \in Nat
  BY <1>2, <1>7
<1>9. LinksTypeOK'
  BY <1>1, <1>2, <1>3, <1>5, <1>7 DEF LinksTypeOK, Requests
<1>10. BarredAreShut'
  BY <1>1, <1>3, <1>5, <1>6 DEF LinksInv, BarredAreShut, Shut
<1>11. L!RevokedStaysOut'
  BY <1>1 DEF L!RevokedStaysOut
<1>12. GoodList(old)
  BY DEF LinksInv, ListsAreGood, old
<1>13. /\ \A i, j \in DOMAIN new : new[i].jti = new[j].jti => i = j
       /\ \A i \in DOMAIN new : linkExp[new[i].jti] > 0
       /\ Len(new) <= Cap
  BY <1>7, <1>8, <1>12 DEF GoodList
<1>14. ListsAreGood'
  <2>1. GoodList(audit)'
    BY <1>1, <1>7, <1>12, <1>13 DEF LinksInv, ListsAreGood, GoodList
  <2>2. \A q \in LinkRequests : GoodList(linkRequest[q].list)'
    BY GatewayAssumption, <1>1, <1>3, <1>5 DEF LinksInv, ListsAreGood, GoodList
  <2> QED
    BY <2>1, <2>2 DEF ListsAreGood
<1>15. /\ \A q \in LinkRequests :
            linkRequest'[q].pc \in Auditing
               => q # r /\ linkRequest'[q] = linkRequest[q] /\ linkRequest[q].pc \in Auditing
       /\ \A q \in LinkRequests :
            linkRequest'[q].list = <<>> \/ linkRequest'[q].list = linkRequest[q].list
  BY <1>3, <1>5
<1>16. IssuedOnce'
  <2>1. \A q \in LinkRequests : linkRequest'[q].pc \in Auditing => linkExp[linkRequest'[q].jti] > 0
    BY <1>15 DEF LinksInv, IssuedOnce
  <2>2. ASSUME NEW p \in LinkRequests, linkRequest'[p].pc \in Issuing
        PROVE  /\ linkRequest'[p] = linkRequest[p]
               /\ linkRequest[p].jti \notin barred'
               /\ \A i \in DOMAIN audit' : audit'[i].jti # linkRequest[p].jti
               /\ \A q \in LinkRequests : \A i \in DOMAIN linkRequest'[q].list :
                     linkRequest'[q].list[i].jti # linkRequest[p].jti
               /\ \A q \in LinkRequests :
                     linkRequest'[q].pc \in Auditing /\ linkRequest'[q].jti = linkRequest[p].jti
                        => q = p
    <3>1. p # r /\ linkRequest'[p] = linkRequest[p] /\ linkRequest[p].pc \in Issuing
      BY <1>15, <2>2 DEF Auditing
    <3>2. /\ linkRequest[p].jti \notin barred
          /\ \A i \in DOMAIN audit : audit[i].jti # linkRequest[p].jti
          /\ \A q \in LinkRequests : \A i \in DOMAIN linkRequest[q].list :
                linkRequest[q].list[i].jti # linkRequest[p].jti
          /\ \A q \in LinkRequests :
                linkRequest[q].pc \in Auditing /\ linkRequest[q].jti = linkRequest[p].jti
                   => q = p
      BY <3>1 DEF LinksInv, IssuedOnce
    <3>3. linkRequest[p].jti # l
      BY <1>6, <3>1
    <3>4. \A i \in DOMAIN new : new[i].jti # linkRequest[p].jti
      <4>1. \A j \in DOMAIN old : old[j].jti # linkRequest[p].jti
        BY <3>2 DEF old
      <4> QED
        BY <1>7, <1>8, <4>1
    <3> QED
      BY <1>1, <1>15, <3>1, <3>2, <3>3, <3>4
  <2> QED
    BY <1>1, <2>1, <2>2 DEF IssuedOnce
<1>17. \A q \in LinkRequests : L!WritesAudit(q)' => L!WritesAudit(q) /\ q # r
                                               /\ linkRequest'[q] = linkRequest[q]
  BY <1>15 DEF L!WritesAudit, Auditing, Issuing
<1>18. L!WritesAudit(r)
  BY <1>1 DEF L!WritesAudit
<1>19. ReadsAreFresh'
  <2> SUFFICES ASSUME "overlap" \notin mishaps'
               PROVE  \A q \in LinkRequests : ~L!WritesAudit(q)'
    BY DEF ReadsAreFresh
  <2>1. "overlap" \notin mishaps
    BY <1>1
  <2> QED
    BY <1>17, <1>18, <2>1 DEF LinksInv, ReadsAreFresh
<1>20. ASSUME "overlap" \notin mishaps', L!AuditComplete
       PROVE  L!AuditComplete'
  <2> SUFFICES ASSUME mishaps' \cap {"unread", "unwritten"} = {}
               PROVE  /\ \A k \in L!Issued' : (\E i \in DOMAIN audit' : audit'[i].jti = k)
                                                \/ Len(audit') = Cap
                      /\ \A i \in DOMAIN audit' : audit'[i].jti \in barred' => audit'[i].revoked
    BY DEF L!AuditComplete, L!Listed
  <2>1. audit' = new /\ mishaps' = mishaps
    <3>1. mishaps' = mishaps
      BY <1>1
    <3>2. old = audit
      BY <1>18, <1>20, <3>1 DEF LinksInv, ReadsAreFresh, old
    <3> QED
      BY <1>1, <3>1, <3>2
  <2>2. old = audit
    BY <1>18, <1>20, <2>1 DEF LinksInv, ReadsAreFresh, old
  <2>3. /\ \A k \in L!Issued : (\E i \in DOMAIN audit : audit[i].jti = k) \/ Len(audit) = Cap
        /\ \A i \in DOMAIN audit : audit[i].jti \in barred => audit[i].revoked
    BY <1>20, <2>1 DEF L!AuditComplete, L!Listed
  <2>4. L!Issued' \subseteq L!Issued
    BY <1>1, <1>2, <1>5 DEF L!Issued, Issuing
  <2>5. ASSUME NEW k \in L!Issued'
        PROVE  (\E i \in DOMAIN new : new[i].jti = k) \/ Len(new) = Cap
    BY <1>7, <1>8, <2>2, <2>3, <2>4
  <2>6. ASSUME NEW i \in DOMAIN new, new[i].jti \in barred' PROVE new[i].revoked
    BY <1>1, <1>7, <1>8, <2>2, <2>3, <2>6
  <2> QED
    BY <2>1, <2>5, <2>6
<1>21. mishaps \subseteq mishaps'
  BY <1>1
<1> QED
  BY <1>9, <1>10, <1>11, <1>14, <1>16, <1>19, <1>20, <1>21 DEF LinksInv

\* No link is issued at first.
LEMMA LinksInitHolds == L!LinksInit => LinksInv
<1> SUFFICES ASSUME L!LinksInit PROVE LinksInv
  OBVIOUS
<1>1. /\ linkNow = 0 /\ linkExp = [l \in Links |-> 0] /\ audit = <<>>
      /\ revoked = [l \in Links |-> 0]
      /\ linkRequest = [r \in LinkRequests |-> Request("idle", None, <<>>, FALSE)]
      /\ answer = None /\ barred = {} /\ mishaps = {}
  BY DEF L!LinksInit, L!NoRequest, Request
<1>2. <<>> \in Seq(Entries) /\ MaxTtl \in Nat /\ Cap \in Nat
  BY GatewayAssumption
<1> DEFINE x == Request("idle", None, <<>>, FALSE)
<1>3. x \in Requests /\ x.pc = "idle" /\ x.list = <<>> /\ x.pc \notin Auditing
  BY IdleFact DEF Auditing, Issuing
<1> HIDE DEF x
<1>4. \A r \in LinkRequests : linkRequest[r] = x
  BY <1>1 DEF x
<1>5. LinksTypeOK
  BY <1>1, <1>2, <1>3, <1>4 DEF LinksTypeOK, Requests, x
<1>6. BarredAreShut
  <2>1. \A l \in Links : linkExp[l] <= linkNow + MaxTtl
    BY <1>1, <1>2
  <2>2. \A r \in LinkRequests : linkRequest[r].pc = "idle"
    BY <1>3, <1>4
  <2> QED
    BY <1>1, <2>1, <2>2 DEF BarredAreShut
<1>7. ListsAreGood
  <2>1. GoodList(<<>>)
    BY <1>2 DEF GoodList
  <2> QED
    BY <1>1, <1>3, <1>4, <2>1 DEF ListsAreGood
<1>11. L!RevokedStaysOut
  BY <1>1 DEF L!RevokedStaysOut
<1>8. IssuedOnce
  BY <1>3, <1>4 DEF IssuedOnce, Auditing
<1>9. ReadsAreFresh
  BY <1>3, <1>4 DEF ReadsAreFresh, L!WritesAudit, Auditing, Issuing
<1>10. L!AuditComplete
  BY <1>1 DEF L!AuditComplete, L!Issued
<1> QED
  BY <1>5, <1>6, <1>7, <1>8, <1>9, <1>10, <1>11 DEF LinksInv

\* Every step of the links preserves the invariant.
LEMMA LinksStep == LinksInv /\ [L!LinksNext]_linkVars => LinksInv'
<1> SUFFICES ASSUME LinksInv, [L!LinksNext]_linkVars PROVE LinksInv'
  OBVIOUS
<1>1. ASSUME NEW r \in LinkRequests, L!issue(r) PROVE LinksInv'
  BY <1>1, IssueLinkPreserves
<1>2. ASSUME NEW r \in LinkRequests, L!readAuditList(r) PROVE LinksInv'
  BY <1>2, ReadListPreserves
<1>3. ASSUME NEW r \in LinkRequests, L!recordIssued(r) PROVE LinksInv'
  BY <1>3, RecordIssuedPreserves
<1>4. ASSUME NEW r \in LinkRequests, L!revoke(r) PROVE LinksInv'
  BY <1>4, RevokePreserves
<1>5. ASSUME NEW r \in LinkRequests, L!revokedInAudit(r) PROVE LinksInv'
  BY <1>5, RevokedInAuditPreserves
<1>6. ASSUME NEW r \in LinkRequests,
             L!verify(r) \/ L!resolve(r) \/ L!sessionTicket(r) \/ L!issueTicket(r)
      PROVE  LinksInv'
  BY <1>6, ReadersPreserve
<1>7. CASE L!Tick
  BY <1>7, LinkTickPreserves
<1>8. CASE UNCHANGED linkVars
  <2>1. /\ linkNow' = linkNow /\ linkExp' = linkExp /\ audit' = audit /\ revoked' = revoked
        /\ linkRequest' = linkRequest /\ answer' = answer /\ barred' = barred
        /\ mishaps' = mishaps
    BY <1>8 DEF linkVars
  <2>2. LinksTypeOK' /\ BarredAreShut' /\ L!RevokedStaysOut'
    BY <2>1 DEF LinksInv, LinksTypeOK, BarredAreShut, Shut, L!RevokedStaysOut
  <2>3. ListsAreGood' /\ IssuedOnce'
    BY <2>1 DEF LinksInv, ListsAreGood, GoodList, IssuedOnce
  <2>4. ReadsAreFresh'
    BY <2>1 DEF LinksInv, ReadsAreFresh, L!WritesAudit
  <2>5. L!AuditComplete' <=> L!AuditComplete
    BY <2>1 DEF L!AuditComplete, L!Listed, L!Issued
  <2> QED
    BY <2>1, <2>2, <2>3, <2>4, <2>5 DEF LinksInv
<1> QED
  BY <1>1, <1>2, <1>3, <1>4, <1>5, <1>6, <1>7, <1>8 DEF L!LinksNext

\* A link that was revoked lets nobody in, and what the audit list says of a link is true
\* unless requests overlapped; the tickets have their types (join links, and the observer
\* tickets issued for them).
THEOREM LinksKeptCorrect == TicketsSpec /\ L!LinksSpec => []LinksKept
<1>1. TicketsInv /\ LinksInv => LinksKept
  BY DEF TicketsInv, LinksInv, LinksKept, L!AuditTrue, ListsAreGood, GoodList
<1>2. TicketsSpec => []TicketsInv
  BY TicketsInitHold, TicketsStep, PTL DEF TicketsSpec
<1>3. L!LinksInit /\ [][L!LinksNext]_linkVars => []LinksInv
  BY LinksInitHolds, LinksStep, PTL
<1>4. L!LinksSpec => []LinksInv
  BY <1>3 DEF L!LinksSpec, L!linkVars, linkVars
<1> QED
  BY <1>1, <1>2, <1>4, PTL

-----------------------------------------------------------------------------
(* The gateway                                                             *)

\* Nobody who waits for the seat is passed over, and no closed session opens again,
\* without a reason (the admission state and the session store).
THEOREM NothingForNoReasonCorrect == Spec /\ S!SessionsSpec => NothingForNoReason
  BY LeavesQueueCorrect, ClosedStaysClosedCorrect DEF NothingForNoReason

\* The gateway's steps are steps of one part, in which the others do not move.
LEMMA GatewayParts ==
    [GatewayNext]_allParts =>
        /\ [Next]_vars /\ [LogNext]_logVars /\ [CommandsNext]_commandVars
        /\ [L!LinksNext]_linkVars /\ [TicketsNext]_ticketVars /\ [S!SessionsNext]_sessionVars
<1> SUFFICES ASSUME [GatewayNext]_allParts
             PROVE  /\ [Next]_vars /\ [LogNext]_logVars /\ [CommandsNext]_commandVars
                    /\ [L!LinksNext]_linkVars /\ [TicketsNext]_ticketVars
                    /\ [S!SessionsNext]_sessionVars
  OBVIOUS
<1>1. CASE AdmissionStep
  <2>1. InAdmission /\ Next
    BY <1>1 DEF AdmissionStep, Next
  <2> QED
    BY <2>1 DEF InAdmission
<1>2. CASE EventStep
  <2>1. InEvents /\ LogNext
    BY <1>2 DEF EventStep, LogNext
  <2> QED
    BY <2>1 DEF InEvents
<1>3. CASE CommandStep
  <2>1. InCommands /\ CommandsNext
    BY <1>3 DEF CommandStep, CommandsNext, Elsewhere
  <2> QED
    BY <2>1 DEF InCommands
<1>4. CASE LinkStep
  <2>1. InLinks /\ L!LinksNext
    BY <1>4 DEF LinkStep, L!LinksNext
  <2> QED
    BY <2>1 DEF InLinks
<1>5. CASE TicketStep
  <2>1. InTickets /\ TicketsNext
    BY <1>5 DEF TicketStep, TicketsNext
  <2> QED
    BY <2>1 DEF InTickets
<1>6. CASE SessionStep
  <2>1. InSessions /\ S!SessionsNext
    BY <1>6 DEF SessionStep, S!SessionsNext
  <2> QED
    BY <2>1 DEF InSessions
<1>7. CASE UNCHANGED allParts
  BY <1>7 DEF allParts
<1> QED
  BY <1>1, <1>2, <1>3, <1>4, <1>5, <1>6, <1>7 DEF GatewayNext

\* What the gateway does is, of each part, what the part's own specification allows.
THEOREM GatewayImplementsParts ==
    GatewaySpec =>
        Spec /\ LogSpec /\ CommandsSpec /\ L!LinksSpec /\ TicketsSpec /\ S!SessionsSpec
<1>1. GatewayInit => /\ Init /\ LogInit /\ CommandsInit /\ L!LinksInit /\ TicketsInit
                     /\ S!SessionsInit
  BY DEF GatewayInit
<1>2. GatewaySpec =>
         /\ Init /\ [][Next]_vars
         /\ LogInit /\ [][LogNext]_logVars
         /\ CommandsInit /\ [][CommandsNext]_commandVars
         /\ L!LinksInit /\ [][L!LinksNext]_linkVars
         /\ TicketsInit /\ [][TicketsNext]_ticketVars
         /\ S!SessionsInit /\ [][S!SessionsNext]_sessionVars
  BY <1>1, GatewayParts, PTL DEF GatewaySpec
<1> QED
  BY <1>2 DEF Spec, LogSpec, CommandsSpec, L!LinksSpec, TicketsSpec, S!SessionsSpec,
     L!linkVars, S!sessionVars, linkVars, sessionVars

\* Everything the run of the gateway checks, as one theorem (all six parts).
THEOREM GatewayCorrect ==
    GatewaySpec =>
        /\ []TypeOK /\ []OneSeat /\ []QueueInOrder /\ []FreeSeatOnlyAfterDenial
        /\ ActiveOwnerKept /\ NothingForNoReason
        /\ []AppendedOnce /\ []CommandsInOrder /\ []LinksKept /\ []RedeemedOnce
        /\ []SavedNeverAhead
  BY GatewayImplementsParts, TypeCorrect, OneSeatCorrect, QueueInOrderCorrect,
     FreeSeatCorrect, ActiveOwnerCorrect, NothingForNoReasonCorrect, AppendedOnceCorrect,
     CommandsInOrderCorrect, LinksKeptCorrect, RedeemedOnceCorrect, SavedNeverAheadCorrect
=============================================================================
