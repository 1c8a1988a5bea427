--------------------------- MODULE MCMeetingServices ---------------------------
(***************************************************************************)
(* A meeting and what runs beside it, which must end: the lifecycle alone  *)
(* over several meetings, the control plane of one with its publisher, the *)
(* publisher alone (where starts overlap), the avatar of one meeting, the  *)
(* delivery of webhooks, and the generation of avatars.                    *)
(*                                                                         *)
(* TLC explores their sum and not their product: `part' says which one     *)
(* moves, the others stay as they begin.  The lifecycle's properties are   *)
(* checked with the control plane and with the avatar too.                 *)
(***************************************************************************)
EXTENDS ControlMeeting, AvatarSession, WebhookDelivery, AvatarGeneration

VARIABLE part  \* the part that moves

allParts ==
    <<part, allVars, avatarVars, deliveryVars, generationVars>>

ServicesInit ==
    /\ part \in {"lifecycle", "control", "publisher", "avatar", "delivery", "generation"}
    /\ ControlInit /\ AvatarInit /\ DeliveryInit /\ GenerationInit
    /\ \A m \in Meetings : pod[m] # {} => part = "avatar" /\ m = Control
    /\ part # "delivery" => enabled

InLifecycle ==
    /\ part = "lifecycle"
    /\ UNCHANGED <<part, publisherVars, controlVars, avatarVars, deliveryVars, generationVars>>

InControl ==
    /\ part = "control"
    /\ UNCHANGED <<part, avatarVars, deliveryVars, generationVars>>

InPublisher ==
    /\ part = "publisher"
    /\ UNCHANGED <<part, vars, controlVars, avatarVars, deliveryVars,
                   generationVars>>

InAvatar ==
    /\ part = "avatar"
    /\ UNCHANGED <<part, publisherVars, controlVars, deliveryVars,
                   generationVars>>

InDelivery ==
    /\ part = "delivery"
    /\ UNCHANGED <<part, allVars, avatarVars, generationVars>>

InGeneration ==
    /\ part = "generation"
    /\ UNCHANGED <<part, allVars, avatarVars, deliveryVars>>

LifecycleStep ==
    \/ \E m \in Meetings : InLifecycle /\ StartMeeting(m)
    \/ \E m \in Meetings, s \in Finished \cup {Absent}, why \in Reasons :
          InLifecycle /\ StopMeeting(m, s, why)
    \/ \E m \in Meetings, s \in FailStatus, why \in Reasons : InLifecycle /\ FailMeeting(m, s, why)
    \/ InLifecycle /\ ClearQueued
    \/ InLifecycle /\ Tick

ControlStep ==
    \/ \E p \in Starts :
          \/ InControl /\ StartFresh(p)
          \/ InControl /\ StartRecovery(p)
          \/ InControl /\ StartEnds(p)
          \/ InControl /\ StartFails(p)
          \/ InControl /\ PublisherStep(p) /\ UNCHANGED <<vars, controlVars>>
    \/ InControl /\ StopControl
    \/ InControl /\ LegacyRoutes
    \/ InControl /\ RequestDeinit
    \/ InControl /\ Sweep
    \/ InControl /\ Deinit
    \/ InControl /\ JobAiEnds

PublisherAlone ==
    \/ InPublisher /\ Stop
    \/ \E p \in Starts :
          \/ InPublisher /\ Start(p)
          \/ InPublisher /\ Spawn(p)
          \/ InPublisher /\ Started(p)
          \/ InPublisher /\ StartupExit(p)
          \/ InPublisher /\ Rejected(p)
          \/ InPublisher /\ RuntimeExit(p)
          \/ InPublisher /\ ForceKill(p)
          \/ InPublisher /\ Stderr(p)

AvatarStep ==
    \/ \E m \in {Control} :
          \/ InAvatar /\ StartWithAvatar(m)
          \/ InAvatar /\ Provisioned(m)
          \/ InAvatar /\ SessionCreated(m)
          \/ InAvatar /\ KickoffAccepted(m)
          \/ InAvatar /\ KickoffFailed(m)
          \/ InAvatar /\ NeverExecuted(m)
          \/ \E s \in Finished \cup {Absent}, why \in Reasons : InAvatar /\ StopWithAvatar(m, s, why)
          \/ \E s \in FailStatus, why \in Reasons : InAvatar /\ FailWithAvatar(m, s, why)
          \/ \E s \in Sessions :
                \/ InAvatar /\ Deleted(m, s)
                \/ InAvatar /\ DeleteLost(m, s)
                \/ InAvatar /\ PodTelemetry(m, s)
                \/ \E phase \in Phase : InAvatar /\ PodEvent(m, s, phase)
          \/ \E command \in Sources : InAvatar /\ ForceNextQuestion(m, command)
    \/ InAvatar /\ ClearQueued /\ UNCHANGED avatarVars

\* Restarts, and the writes to Redis that only they read, are in MCRecovery.
DeliveryStep ==
    \/ \E e \in Events :
          \/ InDelivery /\ Enqueue(e)
          \/ InDelivery /\ Due(e)
    \/ \E i \in Passes :
          \/ InDelivery /\ StartPass(i)
          \/ \E answer \in Answers : InDelivery /\ Answer(i, answer)
    \/ InDelivery /\ PassWhileDisabled

GenerationStep ==
    \/ InGeneration /\ TimePasses
    \/ InGeneration /\ Crash
    \/ InGeneration /\ listJobs
    \/ \E j \in Jobs :
          \/ InGeneration /\ enqueue(j)
          \/ InGeneration /\ runJob(j)
          \/ InGeneration /\ patchReads(j)
          \/ InGeneration /\ patchWrites(j)
          \/ InGeneration /\ outOfTime(j)
          \/ InGeneration /\ generate(j)
          \/ InGeneration /\ tryAgain(j)
          \/ InGeneration /\ workerJob(j)
          \/ InGeneration /\ noVideo(j)
          \/ InGeneration /\ video(j)
          \/ InGeneration /\ complete(j)
          \/ InGeneration /\ sweep(j)
          \/ InGeneration /\ sweepIsLost(j)

ServicesNext ==
    LifecycleStep \/ ControlStep \/ PublisherAlone \/ AvatarStep \/ DeliveryStep
    \/ GenerationStep

\* That of FairControlSpec, FairPublisherSpec, FairDeliverySpec and FairGenerationSpec; and
\* the 300 ms of a start pass in the control plane too.  An action of a part that does not
\* move is not enabled, and its fairness asks for nothing.
ServicesFairness ==
    /\ WF_allParts(InControl /\ Sweep)
    /\ WF_allParts(InControl /\ DeinitBegins)
    /\ WF_allParts(InControl /\ DeinitStops)
    /\ WF_allParts(InControl /\ DeinitEnds)
    /\ \A p \in Starts :
          /\ WF_allParts(InControl /\ (StartEnds(p) \/ StartFails(p)))
          /\ WF_allParts(InPublisher /\ StartStep(p))
          /\ WF_allParts(InPublisher /\ ForceKill(p))
    /\ WF_allParts(InDelivery /\ \E i \in Passes : StartPass(i))
    /\ WF_allParts(InDelivery /\ PassWhileDisabled)
    /\ \A i \in Passes : WF_allParts(InDelivery /\ \E answer \in Answers : Answer(i, answer))
    /\ \A e \in Events : WF_allParts(InDelivery /\ Due(e))
    /\ SF_allParts(InGeneration /\ TimePasses)
    /\ WF_allParts(InGeneration /\ listJobs)
    /\ \A j \in Jobs :
          /\ WF_allParts(InGeneration /\ (runJob(j) \/ patchReads(j) \/ patchWrites(j)
                            \/ outOfTime(j) \/ generate(j) \/ tryAgain(j) \/ noVideo(j)
                            \/ video(j) \/ complete(j)))
          /\ SF_allParts(InGeneration /\ sweep(j))

ServicesSpec == ServicesInit /\ [][ServicesNext]_allParts /\ ServicesFairness

-----------------------------------------------------------------------------
\* Every variable has its type.
ServicesTypeOK == ControlTypeOK /\ AvatarTypeOK /\ GenerationTypeOK

\* Nothing that was started for a meeting outlives it without a reason: not its
\* publisher, not its avatar on the pod, and not what the gateway knows of the avatar.
NothingOutlivesItsMeeting ==
    /\ PublisherOutlivesMeetingForAReason
    /\ PodOutlivesMeetingForAReason
    /\ part = "avatar" => EntryIffOpen

\* The handlers of the control plane never start two publishers at once, and keep the
\* interview and its meeting together, but for a meeting that ends while its publisher
\* starts, the legacy routes, and an interview that JobAI ends.
ControlInOrder ==
    /\ part = "control" => OneStartAtATime
    /\ ProjectionFollowsMeeting /\ FinishedInterviewMeansEnded

\* Webhooks and generations are tried again when, and as often as, their policy says;
\* the sweeper fails only generations that nobody works on.
RetriesKeepTheirPolicy == RetryPolicy /\ WorkerAskedThrice /\ SweptWereAbandoned

\* What has become of a webhook, or of a generation, is final.
FinalIsFinal == SettledIsFinal /\ FinalStays

\* A generation does not stay in process, and a publisher's start does not stay under
\* way, also when the process that did the work is gone.
WorkEnds == ProcessingEnds /\ StartsEnd

=============================================================================
