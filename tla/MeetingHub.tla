------------------------------- MODULE MeetingHub -------------------------------
(***************************************************************************)
(* MeetingControlWsHub for one meeting: the websockets of its pages, which *)
(* come and go, are closed together when the meeting is stopped, and may   *)
(* be opened again at once.  A socket that is closed says so later, when   *)
(* the other side has answered; until then its messages still arrive.      *)
(*                                                                         *)
(* Keys are right or wrong, and a wrong one is refused at once.  Of the    *)
(* events only the agent's mode is kept: subtitles and questions go the    *)
(* same way, and each arrives at once at the sockets that are open.        *)
(***************************************************************************)
CONSTANTS Pages,  \* websockets
          Unset

VARIABLES
    page,      \* the state of each socket
    entry,     \* the meeting's set in the map; there is none when it is empty
    terminal,  \* isTerminal of the interview
    paused,    \* what the pause handler was told last
    mode,      \* the mode broadcast last
    seen       \* the mode each socket got last, or that of the time it came

hubVars == <<page, entry, terminal, paused, mode, seen>>

HubInit ==
    /\ page = [w \in Pages |-> "none"]
    /\ entry = {}
    /\ terminal \in BOOLEAN
    /\ paused = FALSE
    /\ mode = Unset
    /\ seen = [w \in Pages |-> Unset]

\* broadcast: to the sockets of the entry that are open.
broadcast(value) ==
    /\ mode' = value
    /\ seen' = [w \in Pages |-> IF w \in entry /\ page[w] = "open" THEN value ELSE seen[w]]

\* The upgrade of a request and the connection, of an interview that is not over.
connection(w) ==
    /\ page[w] = "none" /\ ~terminal
    /\ page' = [page EXCEPT ![w] = "open"]
    /\ entry' = entry \cup {w}
    /\ seen' = [seen EXCEPT ![w] = mode]
    /\ UNCHANGED <<terminal, paused, mode>>

\* set_pause_enabled, of a socket that is being closed too.
handleMessage(w) ==
    /\ page[w] \in {"open", "closing"}
    /\ \E pauseEnabled \in BOOLEAN :
          /\ paused' = pauseEnabled
          /\ broadcast(IF pauseEnabled THEN "paused" ELSE "listening")
    /\ UNCHANGED <<page, entry, terminal>>

\* The avatar runtime tells what the agent does.
publishActivityMode ==
    /\ \E value \in {"listening", "speaking", "thinking", "paused"} : broadcast(value)
    /\ UNCHANGED <<page, entry, terminal, paused>>

\* The meeting is stopped.
closeMeeting ==
    /\ entry # {}
    /\ page' = [w \in Pages |-> IF w \in entry /\ page[w] = "open" THEN "closing" ELSE page[w]]
    /\ entry' = {}
    /\ UNCHANGED <<terminal, paused, mode, seen>>

\* The other side begins to close.
pageLeaves(w) ==
    /\ page[w] = "open"
    /\ page' = [page EXCEPT ![w] = "closing"]
    /\ UNCHANGED <<entry, terminal, paused, mode, seen>>

\* Mutant: the meeting's entry is dropped with any of its sockets.
removeSocket_DropsEntry(w) == {}

\* The entry may be another one by now.
removeSocket(w) == entry \ {w}

\* The close event.
closed(w) ==
    /\ page[w] \in {"open", "closing"}
    /\ page' = [page EXCEPT ![w] = "closed"]
    /\ entry' = removeSocket(w)
    /\ UNCHANGED <<terminal, paused, mode, seen>>

\* JobAI, or the end of the meeting, ends the interview.
interviewEnds ==
    /\ ~terminal
    /\ terminal' = TRUE
    /\ UNCHANGED <<page, entry, paused, mode, seen>>

HubNext ==
    \/ \E w \in Pages : connection(w) \/ handleMessage(w) \/ pageLeaves(w) \/ closed(w)
    \/ publishActivityMode \/ closeMeeting \/ interviewEnds

HubSpec == HubInit /\ [][HubNext]_hubVars

-----------------------------------------------------------------------------
(* Properties                                                              *)

\* Every open page is told the agent's mode, over stops of the meeting with pages that
\* close late and others that have come since; and no page that is gone is kept.
EverybodyIsTold ==
    /\ \A w \in Pages : page[w] = "open" => w \in entry /\ seen[w] = mode
    /\ \A w \in entry : page[w] \in {"open", "closing"}
=============================================================================
