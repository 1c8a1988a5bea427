----------------------------- MODULE RuntimeEvents -----------------------------
(***************************************************************************)
(* The runtime event log of one key (a meeting): RuntimeEventStore keeps   *)
(* the state of a key in memory, reads it from Redis when it is not        *)
(* loaded, and writes it back, in one SET, after every change.  A state is *)
(* an object that calls hold on to: two calls that find the key not loaded *)
(* read one object each, and the one that was set last is the key's.       *)
(*                                                                         *)
(* A call changes its object and sends the SET in one synchronous step, so *)
(* a call is: the load, and the step that follows it.                      *)
(***************************************************************************)
EXTENDS Naturals, FiniteSets

CONSTANTS Calls,      \* calls of append and recordCommand; each is made once
          Keys,       \* idempotency keys
          NoKey,      \* no idempotency key, no event, no state
          MaxEvents,  \* maxEventsPerRuntime
          MaxCrashes  \* bound: restarts of the process

VARIABLES
    heap,      \* what each call's load has put in memory
    loaded,    \* whose object is the key's, or NoKey
    savedLog,  \* the state in Redis, or NoKey
    call,      \* how far each call is, and which object it holds
    returned,  \* what append has answered: idempotency key, event
    crashes,
    spoilt     \* what has happened that the log has no answer to

logVars == <<heap, loaded, savedLog, call, returned, crashes, spoilt>>

\* An event is named after the call that appended it.
Event == [id: Calls, revision: Nat]
LogState == [revision: Nat, events: SUBSET Event, index: [Keys -> Calls \cup {NoKey}]]

ASSUME EventsAssumption ==
    /\ NoKey \notin Calls \cup Keys \cup LogState
    /\ MaxEvents \in Nat \ {0}
    /\ MaxCrashes \in Nat

FreshState == [revision |-> 0, events |-> {}, index |-> [k \in Keys |-> NoKey]]

Ids(events) == {e.id : e \in events}

-----------------------------------------------------------------------------
(* The synchronous part of append and recordCommand                        *)

\* splice: the oldest event goes when there are too many.
Trimmed(events) ==
    IF Cardinality(events) <= MaxEvents THEN events
    ELSE {e \in events : \E d \in events : d.revision < e.revision}

\* Mutant: entries of trimmed events stay in the index.
Pruned_Never(index, events) == index

\* pruneIdempotencyIndex.  Its bound of 1000 entries is above MaxEvents.
Pruned(index, events) ==
    [k \in Keys |-> IF index[k] \in Ids(events) THEN index[k] ELSE NoKey]

\* The event that was appended before under the key, if it is still there.
Existing(s, key) == {e \in s.events : key # NoKey /\ e.id = s.index[key]}

\* Mutant: the new event's key is not put in the index.
Appended_NotIndexed(s, c, key) ==
    LET event == [id |-> c, revision |-> s.revision + 1]
        events == Trimmed(s.events \cup {event})
    IN  [revision |-> event.revision, events |-> events, index |-> Pruned(s.index, events)]

Appended(s, c, key) ==
    LET event == [id |-> c, revision |-> s.revision + 1]
        events == Trimmed(s.events \cup {event})
    IN  [revision |-> event.revision,
         events   |-> events,
         index    |-> [k \in Keys |-> IF k = key THEN c ELSE Pruned(s.index, events)[k]]]

\* Mutant: the state takes the command's revision, also when it is behind.
Recorded_Sets(s, revision) == [s EXCEPT !.revision = revision]

Recorded(s, revision) ==
    [s EXCEPT !.revision = IF revision > @ THEN revision ELSE @]

\* saveState: the object becomes the key's, and the SET succeeds or does not.
saveState(c, s) ==
    /\ heap' = [heap EXCEPT ![call[c].object] = s]
    /\ loaded' = call[c].object
    /\ savedLog' \in {s, savedLog}

-----------------------------------------------------------------------------
LogInit ==
    /\ heap = [c \in Calls |-> NoKey]
    /\ loaded = NoKey
    /\ savedLog = NoKey
    /\ call = [c \in Calls |-> [pc |-> "new", object |-> NoKey]]
    /\ returned = {}
    /\ crashes = 0
    /\ spoilt = {}

\* loadState finds the key in memory, or asks Redis for it.
BeginCall(c) ==
    /\ call[c].pc = "new"
    /\ call' = [call EXCEPT ![c] = IF loaded = NoKey
                                   THEN [pc |-> "loading", object |-> NoKey]
                                   ELSE [pc |-> "loaded", object |-> loaded]]
    /\ UNCHANGED <<heap, loaded, savedLog, returned, crashes, spoilt>>

\* The answer to GET: the saved state, or nothing; an error counts as nothing.  The
\* object is set whatever the key has become since the question.
Load(c) ==
    /\ call[c].pc = "loading"
    /\ \E failed \in BOOLEAN :
          /\ heap' = [heap EXCEPT ![c] = IF failed \/ savedLog = NoKey THEN FreshState
                                         ELSE savedLog]
          /\ spoilt' = spoilt \cup (IF loaded # NoKey THEN {"replaced"} ELSE {})
                              \cup (IF failed /\ savedLog # NoKey THEN {"unread"} ELSE {})
    /\ loaded' = c
    /\ call' = [call EXCEPT ![c] = [pc |-> "loaded", object |-> c]]
    /\ UNCHANGED <<savedLog, returned, crashes>>

Done(c) == call' = [call EXCEPT ![c].pc = "done"]

append(c) ==
    /\ call[c].pc = "loaded"
    /\ \E key \in Keys \cup {NoKey} :
          LET s == heap[call[c].object]
              existing == Existing(s, key)
              next == Appended(s, c, key)
          IN  IF existing # {}
              THEN /\ returned' = returned \cup {[key |-> key, event |-> e] : e \in existing}
                   /\ UNCHANGED <<heap, loaded, savedLog, spoilt>>
              ELSE /\ returned' = returned \cup
                         {[key |-> key, event |-> e] : e \in {d \in next.events : d.id = c}}
                   /\ saveState(c, next)
                   /\ spoilt' = spoilt \cup IF Ids(s.events) \subseteq Ids(next.events) THEN {}
                                            ELSE {"trimmed"}
    /\ Done(c)
    /\ UNCHANGED crashes

\* recordCommand of the event that an earlier append of the handler has answered.
recordCommand(c) ==
    /\ call[c].pc = "loaded"
    /\ \E r \in returned : saveState(c, Recorded(heap[call[c].object], r.event.revision))
    /\ Done(c)
    /\ UNCHANGED <<returned, crashes, spoilt>>

\* Memory is gone, and with it what no SET has saved.
Crash ==
    /\ crashes < MaxCrashes
    /\ crashes' = crashes + 1
    /\ loaded' = NoKey
    /\ heap' = [c \in Calls |-> NoKey]
    /\ call' = [c \in Calls |-> IF call[c].pc = "new" THEN call[c]
                                ELSE [pc |-> "done", object |-> NoKey]]
    /\ spoilt' = spoilt \cup IF loaded # NoKey /\ savedLog # heap[loaded] THEN {"unsaved"}
                             ELSE {}
    /\ UNCHANGED <<savedLog, returned>>

LogNext ==
    \/ \E c \in Calls : BeginCall(c) \/ Load(c) \/ append(c) \/ recordCommand(c)
    \/ Crash

LogSpec == LogInit /\ [][LogNext]_logVars

-----------------------------------------------------------------------------
(* Properties                                                              *)

LogTypeOK ==
    /\ heap \in [Calls -> LogState \cup {NoKey}]
    /\ loaded \in Calls \cup {NoKey}
    /\ savedLog \in LogState \cup {NoKey}
    /\ call \in [Calls -> [pc: {"new", "loading", "loaded", "done"},
                           object: Calls \cup {NoKey}]]
    /\ returned \subseteq [key: Keys \cup {NoKey}, event: Event]
    /\ crashes \in Nat
    /\ spoilt \subseteq {"replaced", "unread", "trimmed", "unsaved"}

\* A state in memory or in Redis is what its readers take it for: no revision is
\* used twice, none is above the state's, and every entry of the index leads to an
\* event that is there.
GoodLog(s) ==
    /\ \A e \in s.events : e.revision \in 1..s.revision
    /\ \A d, e \in s.events : d.revision = e.revision => d = e
    /\ \A k \in Keys : s.index[k] = NoKey \/ s.index[k] \in Ids(s.events)

\* Every copy of the log is good, whoever else has loaded, lost or overwritten one.
LogsAreGood ==
    /\ \A c \in Calls : heap[c] # NoKey => GoodLog(heap[c])
    /\ savedLog # NoKey => GoodLog(savedLog)

\* Two calls with one idempotency key are answered with one event, and two events
\* never have one revision: unless the key was loaded twice, Redis did not answer or
\* had lost a SET at a restart, or (for the key) the event was trimmed.
OneEventPerKey ==
    \A p, q \in returned :
        /\ p.key = q.key /\ p.key # NoKey /\ spoilt = {} => p.event = q.event
        /\ p.event.revision = q.event.revision /\ spoilt \subseteq {"trimmed"}
              => p.event = q.event

\* "Runtime event store deduplicates by `idempotencyKey` per runtime key"
\* (docs/avatar-integration-contracts.md:42), while Redis answers, keeps every write
\* and no event was trimmed.
Deduplicated ==
    spoilt \subseteq {"replaced"} =>
        \A p, q \in returned : p.key = q.key /\ p.key # NoKey => p.event = q.event
=============================================================================
