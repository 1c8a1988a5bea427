---------------------------- MODULE MeetingOutcome ----------------------------
(***************************************************************************)
(* What the gateway promises about a meeting, without the pipeline it goes *)
(* through: a meeting is opened at most once, ends at most once, and the   *)
(* outcome JobAI is told is the one it ended with, from the moment it      *)
(* ends.  MeetingLifecycle implements this under a refinement mapping.     *)
(***************************************************************************)
CONSTANTS Meetings,
          Outcomes     \* the ways a meeting can end

VARIABLES outcome,     \* outcome[m]: "none", "open" or an outcome
          told         \* the pairs <<meeting, outcome>> JobAI is told

vars == <<outcome, told>>

Init ==
    /\ outcome = [m \in Meetings |-> "none"]
    /\ told = {}

Open(m) ==
    /\ outcome[m] = "none"
    /\ outcome' = [outcome EXCEPT ![m] = "open"]
    /\ UNCHANGED told

End(m, o) ==
    /\ outcome[m] = "open"
    /\ outcome' = [outcome EXCEPT ![m] = o]
    /\ told' = told \cup {<<m, o>>}

Next == \E m \in Meetings : Open(m) \/ \E o \in Outcomes : End(m, o)

Spec == Init /\ [][Next]_vars
=============================================================================
