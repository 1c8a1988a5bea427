------------------------------ MODULE RedisClient ------------------------------
(***************************************************************************)
(* MinimalRedisClient: commands and replies on one connection at a time,   *)
(* matched by their order, over sockets that connect, answer in pieces and *)
(* close.  What MeetingRecovery takes for granted of it is shown here.     *)
(*                                                                         *)
(* Each command is a GET of a key of its own, so that its reply is told    *)
(* from every other.  The handshake (AUTH, SELECT, PING) is one PING.      *)
(***************************************************************************)
EXTENDS Naturals, Sequences

CONSTANTS Commands,
          QueueLimit,  \* REDIS_COMMAND_QUEUE_LIMIT
          MaxSockets,  \* bound
          MaxBeats     \* bound: heartbeats

VARIABLES
    link,      \* the sockets
    socket,    \* this.socket, 0 for null
    connected,
    timer,     \* reconnectTimer is set
    beating,   \* the heartbeat is on
    inflight,
    waiting,
    owed,      \* per socket, what was written to it and not answered
    buffer,    \* replies received and not matched; the last may be a part of one
    outcome,   \* what the caller of each command got
    beats,
    troubles   \* what has gone wrong so far

clientVars == <<link, socket, connected, timer, beating, inflight, waiting, owed, buffer,
                outcome, beats, troubles>>

Sockets == 1 .. MaxSockets
Beat == 0          \* the heartbeat's PING; that of socket s's handshake is s
Pings == 0 .. MaxSockets

Garbage == MaxSockets + 1   \* no command's reply

ClientInit ==
    /\ link = [s \in Sockets |-> IF s = 1 THEN "open" ELSE "none"]
    /\ socket = 1 /\ connected = TRUE
    /\ timer = FALSE /\ beating = TRUE
    /\ inflight = <<>> /\ waiting = <<>> /\ buffer = <<>>
    /\ owed = [s \in Sockets |-> <<>>]
    /\ outcome = [c \in Commands |-> "new"]
    /\ beats = 0
    /\ troubles = {}

In(item, seq) == \E i \in DOMAIN seq : seq[i] = item

\* The write of an item; what is written to a socket that has closed is lost.
Written(item, s) ==
    IF link[s] \in {"connecting", "open"} THEN [owed EXCEPT ![s] = Append(@, item)] ELSE owed

-----------------------------------------------------------------------------
(* Commands                                                                *)

\* command(): the item is written, or waits for a connection.
CanWrite == connected /\ socket # 0
Write(item) ==
    /\ CanWrite
    /\ inflight' = Append(inflight, item)
    /\ owed' = Written(item, socket)
    /\ UNCHANGED <<waiting, timer>>

enqueueWaiting(item) ==
    /\ ~CanWrite /\ Len(waiting) < QueueLimit
    /\ waiting' = Append(waiting, item)
    /\ timer' = TRUE
    /\ UNCHANGED <<inflight, owed>>

Overflow == ~CanWrite /\ Len(waiting) >= QueueLimit

command(c) ==
    /\ outcome[c] = "new"
    /\ \/ /\ Write(c) \/ enqueueWaiting(c)
          /\ outcome' = [outcome EXCEPT ![c] = "asked"]
       \/ /\ Overflow
          /\ outcome' = [outcome EXCEPT ![c] = "rejected"]
          /\ UNCHANGED <<inflight, owed, waiting, timer>>
    /\ UNCHANGED <<link, socket, connected, beating, buffer, beats, troubles>>

-----------------------------------------------------------------------------
(* Connections                                                             *)

\* Mutant: the commands in flight stay in flight.
handleDisconnect_KeepsInflight ==
    /\ connected' = FALSE /\ socket' = 0
    /\ timer' = TRUE /\ beating' = FALSE
    /\ UNCHANGED <<inflight, outcome>>

\* handleDisconnect, of whichever socket it is.
handleDisconnect ==
    IF ~connected /\ socket = 0
    THEN UNCHANGED <<connected, socket, timer, beating, inflight, outcome>>
    ELSE /\ connected' = FALSE /\ socket' = 0
         /\ timer' = TRUE /\ beating' = FALSE
         /\ outcome' = [c \in Commands |-> IF In(c, inflight) THEN "rejected" ELSE outcome[c]]
         /\ inflight' = <<>>

\* The heartbeat's PING; one that finds the queue full is a disconnect too.
heartbeat ==
    /\ beating /\ connected
    /\ beats < MaxBeats   \* bound
    /\ beats' = beats + 1
    /\ \/ /\ Write(Beat) \/ enqueueWaiting(Beat)
          /\ UNCHANGED <<connected, socket, beating, outcome>>
       \/ Overflow /\ handleDisconnect /\ UNCHANGED <<owed, waiting>>
    /\ UNCHANGED <<link, buffer, troubles>>

\* The reconnect timer fires.  Nothing looks whether there is a socket.
openSocket ==
    /\ timer
    /\ \E s \in Sockets :
          /\ link[s] = "none" /\ \A t \in 1 .. s - 1 : link[t] # "none"
          /\ link' = [link EXCEPT ![s] = "connecting"]
          /\ socket' = s
    /\ timer' = FALSE
    /\ troubles' = troubles \cup
                   IF \E t \in Sockets : link[t] \in {"connecting", "open"} THEN {"two"} ELSE {}
    /\ UNCHANGED <<connected, beating, inflight, waiting, owed, buffer, outcome, beats>>

\* The connect event: connected is set, and the handshake goes to this.socket.
connects(s) ==
    /\ link[s] = "connecting"
    /\ link' = [link EXCEPT ![s] = "open"]
    /\ connected' = TRUE
    /\ \/ /\ socket # 0
          /\ inflight' = Append(inflight, s)
          /\ owed' = Written(s, socket)   \* which may be another socket
          /\ UNCHANGED <<waiting, timer>>
       \/ /\ socket = 0   \* the handshake waits, or is rejected
          /\ waiting' = IF Len(waiting) < QueueLimit THEN Append(waiting, s) ELSE waiting
          /\ timer' = TRUE
          /\ UNCHANGED <<inflight, owed>>
    /\ UNCHANGED <<socket, beating, buffer, outcome, beats, troubles>>

Forgets(s) ==
    /\ link' = [link EXCEPT ![s] = "closed"]
    /\ owed' = [owed EXCEPT ![s] = <<>>]

\* An error before the connect event: connected is cleared before handleDisconnect looks
\* at it, and openSocket's promise is rejected.
connectFails(s) ==
    /\ link[s] = "connecting"
    /\ Forgets(s)
    /\ \/ socket # 0 /\ handleDisconnect
       \/ /\ socket = 0
          /\ connected' = FALSE /\ timer' = TRUE
          /\ UNCHANGED <<socket, beating, inflight, outcome>>
    /\ UNCHANGED <<waiting, buffer, beats, troubles>>

closes(s) ==
    /\ link[s] = "open"
    /\ Forgets(s)
    /\ handleDisconnect
    /\ troubles' = troubles \cup IF buffer # <<>> THEN {"half"} ELSE {}
    /\ UNCHANGED <<waiting, buffer, beats>>

-----------------------------------------------------------------------------
(* Replies                                                                 *)

\* The buffer with what has come behind it.  A part of a reply is completed by the rest
\* of it; anything else is swallowed by it, ends it, or ends it and is an answer of its
\* own: none of them is a reply that Redis gave.
Received(r) ==
    LET n == Len(buffer)
        lost(whole) == [r EXCEPT !.to = Garbage, !.whole = whole]
    IN  IF n = 0 \/ buffer[n].whole THEN {Append(buffer, r)}
        ELSE IF buffer[n].to = r.to THEN {[buffer EXCEPT ![n] = r]}
        ELSE {[buffer EXCEPT ![n] = lost(FALSE)], [buffer EXCEPT ![n] = lost(TRUE)],
              Append([buffer EXCEPT ![n] = lost(TRUE)], lost(TRUE))}

\* flushPending: as long as there is a command in flight and a whole reply, the oldest
\* command gets the oldest reply.
Flushed(buf) ==
    LET whole == Len(buf) - IF buf[Len(buf)].whole THEN 0 ELSE 1
    IN  IF whole < Len(inflight) THEN whole ELSE Len(inflight)

Settled(buf, c) ==
    IF \E i \in 1 .. Flushed(buf) : inflight[i] = c
    THEN IF \E i \in 1 .. Flushed(buf) : inflight[i] = c /\ buf[i].to = c THEN "own" ELSE "wrong"
    ELSE outcome[c]

\* The PINGs among the settled commands that were answered so.
Pinged(buf, error) ==
    {inflight[i] : i \in {i \in 1 .. Flushed(buf) : inflight[i] \in Pings /\ buf[i].error = error}}

\* Mutant: scheduleReconnect does nothing while there is a socket.
scheduleReconnect_IfDown == socket = 0

\* scheduleReconnect, whatever the socket's state.
scheduleReconnect == TRUE

\* A chunk: a part of the reply that the socket owes next, or all of it.  Then the
\* callers go on: a handshake that is answered sends what waits and starts the heartbeat;
\* one that is answered with an error leaves its socket as it is, and connected set; an
\* error in answer to a heartbeat is taken for a disconnect.
data(s) ==
    /\ link[s] = "open" /\ owed[s] # <<>>
    /\ \E r \in [to: {Head(owed[s])}, whole: BOOLEAN, error: BOOLEAN] : \E buf \in Received(r) :
          LET n == Flushed(buf)
              shaken == Pinged(buf, FALSE) \ {Beat} # {}
              drains == shaken /\ connected /\ socket # 0
              inflightNow == SubSeq(inflight, n + 1, Len(inflight))
                             \o IF drains THEN waiting ELSE <<>>
              beatFailed == Beat \in Pinged(buf, TRUE)
          IN  /\ r.error => r.to \in Pings /\ r.whole
              /\ r.whole \/ \A i \in DOMAIN buffer : buffer[i].whole
              /\ buffer' = SubSeq(buf, n + 1, Len(buf))
              /\ owed' = LET left == IF r.whole THEN [owed EXCEPT ![s] = Tail(@)] ELSE owed
                         IN  IF drains THEN [left EXCEPT ![socket] = @ \o waiting] ELSE left
              /\ waiting' = IF drains THEN <<>> ELSE waiting
              /\ \/ /\ beatFailed
                    /\ connected' = FALSE /\ socket' = 0
                    /\ timer' = TRUE /\ beating' \in {FALSE, shaken}
                    /\ inflight' = <<>>
                    /\ outcome' = [c \in Commands |-> IF In(c, inflightNow) THEN "rejected"
                                                      ELSE Settled(buf, c)]
                    /\ troubles' = troubles \cup {"two"}
                 \/ /\ ~beatFailed
                    /\ timer' = (timer \/ (Pinged(buf, TRUE) # {} /\ scheduleReconnect))
                    /\ beating' = (beating \/ shaken)
                    /\ inflight' = inflightNow
                    /\ outcome' = [c \in Commands |-> Settled(buf, c)]
                    /\ UNCHANGED <<connected, socket, troubles>>
    /\ UNCHANGED <<link, beats>>

-----------------------------------------------------------------------------
ClientNext ==
    \/ \E c \in Commands : command(c)
    \/ heartbeat
    \/ openSocket
    \/ \E s \in Sockets : connects(s) \/ connectFails(s) \/ closes(s) \/ data(s)

ClientSpec == ClientInit /\ [][ClientNext]_clientVars

-----------------------------------------------------------------------------
(* Properties                                                              *)

ClientTypeOK ==
    /\ link \in [Sockets -> {"none", "connecting", "open", "closed"}]
    /\ socket \in {0} \cup Sockets
    /\ connected \in BOOLEAN /\ timer \in BOOLEAN /\ beating \in BOOLEAN
    /\ \A item \in {inflight[i] : i \in DOMAIN inflight} \cup {waiting[i] : i \in DOMAIN waiting} :
          item \in Commands \cup Pings
    /\ Len(waiting) <= QueueLimit
    /\ outcome \in [Commands -> {"new", "asked", "rejected", "own", "wrong"}]
    /\ troubles \subseteq {"two", "half"}

\* Every caller gets its own reply or a rejection, unless the client once had two
\* sockets, or lost one in the middle of a reply: replies are matched by position, the
\* buffer is shared by the sockets and outlives them.
OwnReply ==
    troubles = {} => \A c \in Commands : outcome[c] # "wrong"

\* What waits for a connection has one to come: a reconnect is scheduled, a socket is
\* connecting, or a handshake is waiting for its answer.
SomethingWillDrain ==
    waiting # <<>> =>
        \/ timer
        \/ \E s \in Sockets : link[s] = "connecting" \/ In(s, inflight)
=============================================================================
