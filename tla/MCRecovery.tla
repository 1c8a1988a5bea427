------------------------------ MODULE MCRecovery ------------------------------
(***************************************************************************)
(* What a restart finds: the meetings that were written to Redis behind    *)
(* their changes, and, apart from them, the outbox whose items are being   *)
(* delivered when the process ends.  MeetingRecovery has what becomes of   *)
(* the writes, WebhookDelivery what becomes of the requests.               *)
(*                                                                         *)
(* TLC explores the sum of the two and not their product: `part' says      *)
(* which one moves, the other stays as it begins.                          *)
(***************************************************************************)
EXTENDS MeetingRecovery

CONSTANTS Events, Passes, MaxAttempts, MaxRestarts, StatusCodes

\* What WebhookDelivery assumes of its constants.
ASSUME RestartsAssumption ==
    /\ IsFiniteSet(Passes)
    /\ MaxAttempts \in Nat \ {0}
    /\ MaxRestarts \in Nat
    /\ StatusCodes \subseteq 200..599

VARIABLES part, items, order, todo, saved, enabled, accepted, sent, deliveryExcused, restarts

W == INSTANCE WebhookDelivery

deliveryVars == <<items, order, todo, saved, enabled, accepted, sent, deliveryExcused, restarts>>
allParts == <<part, recoveryVars, deliveryVars>>

RestartsInit ==
    /\ part \in {"meetings", "delivery"}
    /\ RecoveryInit /\ W!DeliveryInit
    /\ part # "delivery" => enabled

InMeetings == part = "meetings" /\ UNCHANGED <<part, deliveryVars>>
InDelivery == part = "delivery" /\ UNCHANGED <<part, recoveryVars>>

MeetingsStep ==
    \/ \E m \in Meetings : InMeetings /\ PersistedStart(m)
    \/ \E m \in Meetings, s \in Finished \cup {Absent}, why \in Reasons :
          InMeetings /\ PersistedStop(m, s, why)
    \/ \E m \in Meetings, s \in FailStatus, why \in Reasons : InMeetings /\ PersistedFail(m, s, why)
    \/ InMeetings /\ ClearQueued /\ UNCHANGED redisVars
    \/ InMeetings /\ Tick /\ UNCHANGED redisVars
    \/ InMeetings /\ Land
    \/ InMeetings /\ Disconnect
    \/ InMeetings /\ Connect
    \/ InMeetings /\ Ready
    \/ InMeetings /\ Restart

DeliveryStep ==
    \/ \E e \in Events :
          \/ InDelivery /\ W!Enqueue(e)
          \/ InDelivery /\ W!Due(e)
          \/ InDelivery /\ W!Persist(e)
    \/ \E i \in Passes :
          \/ InDelivery /\ W!StartPass(i)
          \/ \E answer \in W!Answers : InDelivery /\ W!Answer(i, answer)
    \/ InDelivery /\ W!PassWhileDisabled
    \/ InDelivery /\ W!Restart

RestartsNext == MeetingsStep \/ DeliveryStep

\* The events are alike, and so are the passes.
Alike == Permutations(Events) \cup Permutations(Passes)

RestartsSpec == RestartsInit /\ [][RestartsNext]_allParts

-----------------------------------------------------------------------------
\* A webhook that is marked delivered was accepted by JobAI, and no item is posted more
\* often than the policy allows or than it counts, through overlapping passes, lost
\* answers and a restart (WebhookDelivery says what is excused).
DeliveredMeansAccepted == W!DeliveredMeansAccepted /\ W!RequestsBounded

=============================================================================
