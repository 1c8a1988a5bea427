---------------------------- MODULE MCInterviewSync ----------------------------
(***************************************************************************)
(* InterviewSync for one interview, two handlers that await JobAI at the   *)
(* same time, and one restart of the gateway.                              *)
(***************************************************************************)
EXTENDS InterviewSync, TLC

RequestSymmetry == Permutations(Requests)

\* What Redis has and the last start passed over matters to a restart only: states that
\* differ in it are one, once no restart is left.
RestartView ==
    <<remote, past, byJobAiId, byInviteToken, draws, request, sent, canceledSeen, linked,
      relinked, restarts,
      IF restarts < MaxRestarts THEN <<saved, legacy, unread>> ELSE None>>

-----------------------------------------------------------------------------
\* The gateway never holds a status that JobAI has not held, and the outcome that it
\* tells JobAI of a meeting names the call.
OnlyWhatHappened == SyncTypeOK /\ HeldStatusWasReported /\ OutcomeNamesCall

\* An interview that is finished stays so, and the terminal lock is opened only by the
\* answer to a request.
TerminalLock == FinishedStaysFinished /\ UnlockedOnlyByAnswer

=============================================================================
