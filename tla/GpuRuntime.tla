------------------------------- MODULE GpuRuntime -------------------------------
(***************************************************************************)
(* GpuRuntimeClient for one meeting: a session is started and stopped, and *)
(* started anew; while it runs it has a websocket to the GPU pod that is   *)
(* connected again when it is lost, and a bounded queue of messages that   *)
(* is sent whenever the socket is open.  A socket may report an error long *)
(* before it reports its close (the closing handshake may take 30 s).      *)
(*                                                                         *)
(* What is sent on an open socket is taken to arrive.  Statistics, the     *)
(* backoff and the frames that the pod sends are left out.                 *)
(***************************************************************************)
EXTENDS Naturals, Sequences

CONSTANTS MaxPending,  \* maxBufferedChunks
          MaxStarts,   \* bound: sessions
          MaxSockets,  \* bound: websockets
          MaxChunks,   \* bound: chunks of audio
          MaxPings     \* bound: heartbeats

VARIABLES
    current,   \* the session in the map, 0 for none
    started,   \* sessions so far
    session,   \* the session objects, the stopped ones included
    link,      \* the sockets, and the session each belongs to
    chunks,    \* chunks ingested so far
    heard,     \* the messages the pod has got, in order
    pings,
    slowClose  \* has a session been connected again before its socket's close?

gpuVars == <<current, started, session, link, chunks, heard, pings, slowClose>>

Runs == 1 .. MaxStarts
Sockets == 1 .. MaxSockets
Running(g) == g # 0 /\ g = current

NewSession == [ws |-> 0, connected |-> FALSE, timer |-> FALSE, beating |-> FALSE,
               pending |-> <<>>]

GpuInit ==
    /\ current = 0 /\ started = 0
    /\ session = [g \in Runs |-> NewSession]
    /\ link = [s \in Sockets |-> [state |-> "none", of |-> 0]]
    /\ chunks = 0
    /\ heard = <<>>
    /\ pings = 0
    /\ slowClose = FALSE

-----------------------------------------------------------------------------
(* The queue                                                               *)

Message(type) == [type |-> type, chunk |-> 0]
Audio(n) == [type |-> "audio.chunk", chunk |-> n]

\* enqueue: a full queue drops its oldest message, whatever it is.
Queued(r, msg) ==
    LET left == IF Len(r.pending) < MaxPending THEN r.pending ELSE Tail(r.pending)
    IN  [r EXCEPT !.pending = Append(left, msg)]

\* Mutant: what was sent stays in the queue.
flushPending_Keeps(g, r, links) ==
    /\ session' = [session EXCEPT ![g] = r]
    /\ IF r.ws # 0 /\ links[r.ws].state = "open"
       THEN heard' = heard \o r.pending
       ELSE UNCHANGED heard

\* flushPending of the session, which is r by now, on its own socket.
flushPending(g, r, links) ==
    IF r.ws # 0 /\ links[r.ws].state = "open"
    THEN /\ session' = [session EXCEPT ![g] = [r EXCEPT !.pending = <<>>]]
         /\ heard' = heard \o r.pending
    ELSE /\ session' = [session EXCEPT ![g] = r]
         /\ UNCHANGED heard

-----------------------------------------------------------------------------
(* The websocket                                                           *)

\* connectSession: a new socket, which becomes the session's.
Connecting(g, s) ==
    /\ link[s].state = "none" /\ \A t \in 1 .. s - 1 : link[t].state # "none"
    /\ link' = [link EXCEPT ![s] = [state |-> "connecting", of |-> g]]

\* The open event; the session may have another socket by now, or have been stopped.
opens(s) ==
    LET g == link[s].of
        links == [link EXCEPT ![s].state = "open"]
        r == [session[g] EXCEPT !.connected = TRUE, !.beating = TRUE]
    IN  /\ link[s].state = "connecting"
        /\ link' = links
        /\ flushPending(g, Queued(r, Message("session.start")), links)
        /\ UNCHANGED <<current, started, chunks, pings, slowClose>>

\* Mutant: a stopped session is connected again.
handleDisconnect_Always(g) ==
    session' = [session EXCEPT ![g].connected = FALSE, ![g].beating = FALSE,
                               ![g].timer = TRUE]

\* Mutant: a socket's loss is handled only if the session was connected.
handleDisconnect_IfConnected(g) ==
    IF Running(g) /\ session[g].connected
    THEN session' = [session EXCEPT ![g].connected = FALSE, ![g].beating = FALSE,
                                    ![g].timer = TRUE]
    ELSE UNCHANGED session

\* handleDisconnect, of whichever socket of the session.
handleDisconnect(g) ==
    IF Running(g)
    THEN session' = [session EXCEPT ![g].connected = FALSE, ![g].beating = FALSE,
                                    ![g].timer = TRUE]
    ELSE UNCHANGED session

\* An open socket's error; its close is still to come.
errors(s) ==
    /\ link[s].state = "open"
    /\ link' = [link EXCEPT ![s].state = "closing"]
    /\ handleDisconnect(link[s].of)
    /\ UNCHANGED <<current, started, chunks, heard, pings, slowClose>>

\* The close event, of a socket that never opened too.
closes(s) ==
    /\ link[s].state \in {"connecting", "open", "closing"}
    /\ link' = [link EXCEPT ![s].state = "closed"]
    /\ handleDisconnect(link[s].of)
    /\ UNCHANGED <<current, started, chunks, heard, pings, slowClose>>

\* The reconnect timer fires.
reconnect(g) ==
    /\ session[g].timer
    /\ \E s \in Sockets :
          /\ Connecting(g, s)
          /\ session' = [session EXCEPT ![g].timer = FALSE, ![g].ws = s]
    /\ slowClose' = (slowClose \/ \E s \in Sockets : link[s].of = g /\ link[s].state # "closed")
    /\ UNCHANGED <<current, started, chunks, heard, pings>>

\* The heartbeat.
ping(g) ==
    /\ session[g].beating
    /\ pings < MaxPings   \* bound
    /\ pings' = pings + 1
    /\ flushPending(g, Queued(session[g], Message("ping")), link)
    /\ UNCHANGED <<current, started, link, chunks, slowClose>>

-----------------------------------------------------------------------------
(* The session                                                             *)

startSession ==
    /\ current = 0
    /\ started < MaxStarts   \* bound
    /\ started' = started + 1
    /\ current' = started + 1
    /\ \E s \in Sockets :
          /\ Connecting(started + 1, s)
          /\ session' = [session EXCEPT ![started + 1].ws = s]
    /\ UNCHANGED <<chunks, heard, pings, slowClose>>

\* Sends session.stop if the socket is open, and closes the session's socket.
stopSession ==
    LET g == current
        ws == session[g].ws
        sent == [Queued(session[g], Message("session.stop"))
                   EXCEPT !.connected = FALSE, !.timer = FALSE, !.beating = FALSE, !.ws = 0]
    IN  /\ current # 0
        /\ current' = 0
        /\ link' = [link EXCEPT ![ws].state = CASE @ = "open" -> "closing"
                                                [] @ = "connecting" -> "closed"
                                                [] OTHER -> @]
        /\ IF link[ws].state = "open"
           THEN /\ session' = [session EXCEPT ![g] = [sent EXCEPT !.pending = <<>>]]
                /\ heard' = heard \o sent.pending
           ELSE /\ session' = [session EXCEPT ![g] = sent]
                /\ UNCHANGED heard
        /\ UNCHANGED <<started, chunks, pings, slowClose>>

ingestChunk ==
    /\ current # 0
    /\ chunks < MaxChunks   \* bound
    /\ chunks' = chunks + 1
    /\ flushPending(current, Queued(session[current], Audio(chunks + 1)), link)
    /\ UNCHANGED <<current, started, link, pings, slowClose>>

-----------------------------------------------------------------------------
GpuNext ==
    \/ startSession \/ stopSession \/ ingestChunk
    \/ \E g \in Runs : reconnect(g) \/ ping(g)
    \/ \E s \in Sockets : opens(s) \/ errors(s) \/ closes(s)

GpuSpec == GpuInit /\ [][GpuNext]_gpuVars

-----------------------------------------------------------------------------
(* Properties                                                              *)

GpuTypeOK ==
    /\ current \in {0, started} /\ started \in {0} \cup Runs
    /\ \A g \in Runs :
          /\ session[g].ws \in {0} \cup Sockets
          /\ Len(session[g].pending) <= MaxPending
    /\ \A s \in Sockets :
          link[s].state \in {"none", "connecting", "open", "closing", "closed"}

\* A stopped session leaves nothing behind: no timer, no heartbeat, no socket but one
\* that is closing; unless it was connected again before an earlier socket had closed.
\* Then the close connects it once more, and the socket in between is nobody's.
StoppedIsSilent ==
    \A g \in 1 .. started :
        ~Running(g) /\ ~slowClose =>
            /\ ~session[g].timer /\ ~session[g].beating
            /\ \A s \in Sockets : link[s].of = g => link[s].state \in {"closing", "closed"}

\* A running session is connected, or something is under way that connects it: its
\* socket, a timer, or a close event that is still to come.
NeverStranded ==
    current # 0 =>
        \/ session[current].timer
        \/ \E s \in Sockets : link[s].of = current
                              /\ link[s].state \in {"connecting", "open", "closing"}

\* The pod hears the audio in order, nothing twice, over reconnections and a queue that
\* overflows.
HeardInOrder ==
    \A i, j \in DOMAIN heard :
        i < j /\ heard[i].type = "audio.chunk" /\ heard[j].type = "audio.chunk"
            => heard[i].chunk < heard[j].chunk
=============================================================================
