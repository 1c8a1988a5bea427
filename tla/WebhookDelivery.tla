---------------------------- MODULE WebhookDelivery ----------------------------
(***************************************************************************)
(* The webhook outbox and its dispatcher.  Every dispatch interval starts  *)
(* a pass (processReady) whether or not earlier passes have ended: a pass  *)
(* takes the items that are ready, in order, and posts them to JobAI one   *)
(* at a time.  An item stays pending while its request is on its way, so   *)
(* two passes can post it at the same time, and each answer then updates   *)
(* the item without looking at what the other one made of it.              *)
(*                                                                         *)
(* nextAttemptAt is abstracted to whether it has come.  Items are written  *)
(* to Redis without awaiting the write; a restarted process loads what was *)
(* written, in whatever order SCAN returns it, but for the keys whose GET  *)
(* fails.  Enabled without a URL or a secret the gateway does not start    *)
(* (env.ts:202), so that dispatch never finds them missing.                *)
(***************************************************************************)
EXTENDS Naturals, FiniteSets, SequencesExt

CONSTANTS Events,       \* webhook events, by idempotency key
          Passes,       \* bound: passes that may run at the same time
          MaxAttempts,  \* JOBAI_WEBHOOK_MAX_ATTEMPTS
          MaxRestarts,  \* bound: restarts of the process
          StatusCodes   \* the HTTP statuses JobAI may answer with

ASSUME DeliveryAssumption ==
    /\ IsFiniteSet(Passes)
    /\ MaxAttempts \in Nat \ {0}
    /\ MaxRestarts \in Nat
    /\ StatusCodes \subseteq 200..599

NetworkError == 0
Answers == StatusCodes \cup {NetworkError}

VARIABLES
    items,     \* the item of each event
    order,     \* the events in the order of the outbox's map
    todo,      \* todo[i]: what pass i has yet to dispatch; its head is on its way
    saved,     \* the items as Redis holds them
    enabled,   \* JOBAI_WEBHOOK_ENABLED
    accepted,  \* the events JobAI has accepted
    sent,      \* history variable: requests made for each event
    deliveryExcused, \* history variable: events posted by two passes at once, or
                     \* whose item a restart set back
    restarts   \* bounds the restarts

gateway == <<items, order, todo>>
deliveryVars == <<gateway, saved, enabled, accepted, sent, deliveryExcused, restarts>>

NoItem == [status |-> "absent", attemptCount |-> 0, due |-> FALSE, responseStatusCode |-> NetworkError]
NewItem == [status |-> "pending", attemptCount |-> 0, due |-> TRUE, responseStatusCode |-> NetworkError]

-----------------------------------------------------------------------------
(* WebhookOutbox                                                           *)

\* Mutant: an item is listed for its first attempt only.
IsReady_FirstAttempt(item) == item.status = "pending" /\ item.due /\ item.attemptCount = 0

IsReady(item) == item.status = "pending" /\ item.due

markDelivered(item, code) ==
    [item EXCEPT !.status = "delivered", !.responseStatusCode = code, !.attemptCount = @ + 1]

\* The status is left as it is, pending or not.
markPendingRetry(item, code) ==
    [item EXCEPT !.due = FALSE, !.responseStatusCode = code, !.attemptCount = @ + 1]

markTerminalFailure(item, code) ==
    [item EXCEPT !.status = "terminal_failed", !.responseStatusCode = code, !.attemptCount = @ + 1]

\* enqueue: an idempotency key already seen changes nothing.
Enqueue(e) ==
    /\ items[e].status = "absent"
    /\ items' = [items EXCEPT ![e] = NewItem]
    /\ order' = Append(order, e)
    /\ UNCHANGED <<todo, saved, enabled, accepted, sent, deliveryExcused, restarts>>

-----------------------------------------------------------------------------
(* WebhookDispatcher                                                       *)

\* Mutant: a redirect counts as success.
classifyForRetry_Redirect(code) ==
    IF code < 400 THEN "delivered"
    ELSE IF code = 429 \/ code >= 500 THEN "retry"
    ELSE "terminal"

\* Mutant: too many requests is a client error like the others.
classifyForRetry_No429(code) ==
    IF code \in 200..299 THEN "delivered" ELSE IF code >= 500 THEN "retry" ELSE "terminal"

classifyForRetry(code) ==
    IF code \in 200..299 THEN "delivered"
    ELSE IF code = 429 \/ code >= 500 THEN "retry"
    ELSE "terminal"

\* Mutant: one attempt too many.
Exhausted_Late(item) == item.attemptCount >= MaxAttempts

Exhausted(item) == item.attemptCount + 1 >= MaxAttempts

\* What dispatch makes of the item when its request is answered or fails.
Answered(item, answer) ==
    LET outcome == IF answer = NetworkError THEN "retry" ELSE classifyForRetry(answer)
    IN  IF outcome = "delivered" THEN markDelivered(item, answer)
        ELSE IF outcome = "terminal" \/ Exhausted(item) THEN markTerminalFailure(item, answer)
        ELSE markPendingRetry(item, answer)

\* Mutant: the item is not looked at again before it is posted.
FromNextReady_Unchecked(list, its) == list

\* dispatch returns at once for items another pass has settled or put off.
FromNextReady(list, its) ==
    LET ready == {k \in 1..Len(list) : IsReady(its[list[k]])}
    IN  IF ready = {} THEN <<>> ELSE SubSeq(list, Min(ready), Len(list))

InFlight == {Head(todo[i]) : i \in {j \in Passes : todo[j] # <<>>}}

\* Pass i goes on with the first ready item of list, posting it.
GoOn(i, list, its) ==
    LET rest  == FromNextReady(list, its)
        next  == IF rest = <<>> THEN {} ELSE {Head(rest)}
        other == {Head(todo[j]) : j \in {k \in Passes \ {i} : todo[k] # <<>>}}
    IN  /\ todo' = [todo EXCEPT ![i] = rest]
        /\ sent' = [e \in Events |-> sent[e] + (IF e \in next THEN 1 ELSE 0)]
        /\ deliveryExcused' = deliveryExcused \cup (next \cap other)

\* The outbox's map has d before e.
Precedes(d, e) == \E k, l \in 1..Len(order) : order[k] = d /\ order[l] = e /\ k < l

\* The interval: a pass over the items that are ready now (listReady), in their order.
StartPass(i) ==
    /\ enabled /\ todo[i] = <<>>
    /\ \E e \in Events : IsReady(items[e])
    /\ \E ready \in SetToSeqs({e \in Events : IsReady(items[e])}) :
          /\ \A k, l \in 1..Len(ready) : k < l => Precedes(ready[k], ready[l])
          /\ GoOn(i, ready, items)
    /\ UNCHANGED <<items, order, saved, enabled, accepted, restarts>>

\* With webhooks disabled a pass awaits nothing: every ready item is marked
\* delivered, status 204, without being posted.
PassWhileDisabled ==
    /\ ~enabled
    /\ \E e \in Events : IsReady(items[e])
    /\ items' = [e \in Events |-> IF IsReady(items[e]) THEN markDelivered(items[e], 204)
                                                    ELSE items[e]]
    /\ UNCHANGED <<order, todo, saved, enabled, accepted, sent, deliveryExcused, restarts>>

\* JobAI accepts what it answers 2xx, and may have accepted what failed on
\* the way back.
Accepts(e, answer) ==
    \/ answer \in 200..299 \cup {NetworkError} /\ accepted' = accepted \cup {e}
    \/ answer \notin 200..299 /\ UNCHANGED accepted

Answer(i, answer) ==
    /\ todo[i] # <<>>
    /\ LET e == Head(todo[i])
       IN  /\ items' = [items EXCEPT ![e] = Answered(@, answer)]
           /\ Accepts(e, answer)
           /\ GoOn(i, Tail(todo[i]), items')
    /\ UNCHANGED <<order, saved, enabled, restarts>>

\* nextAttemptAt has come.
Due(e) ==
    /\ items[e].status = "pending" /\ ~items[e].due
    /\ items' = [items EXCEPT ![e].due = TRUE]
    /\ UNCHANGED <<order, todo, saved, enabled, accepted, sent, deliveryExcused, restarts>>

-----------------------------------------------------------------------------
(* Redis                                                                   *)

\* The write of an item's present state lands (of interest to a restart only).
Persist(e) ==
    /\ restarts < MaxRestarts
    /\ saved[e] # items[e]
    /\ saved' = [saved EXCEPT ![e] = items[e]]
    /\ UNCHANGED <<gateway, enabled, accepted, sent, deliveryExcused, restarts>>

\* Requests on their way may still reach JobAI.  loadAll passes over an item whose
\* GET fails (unread).
Restart ==
    /\ restarts < MaxRestarts
    /\ restarts' = restarts + 1
    /\ \E unread \in SUBSET {e \in Events : saved[e] # NoItem} :
          items' = [e \in Events |-> IF e \in unread THEN NoItem ELSE saved[e]]
    /\ order' \in SetToSeqs({e \in Events : items'[e] # NoItem})
    /\ todo' = [i \in Passes |-> <<>>]
    /\ \E reached \in SUBSET InFlight : accepted' = accepted \cup reached
    /\ deliveryExcused' = deliveryExcused \cup InFlight \cup {e \in Events : items'[e] # items[e]}
    /\ UNCHANGED <<saved, enabled, sent>>

DeliveryInit ==
    /\ items = [e \in Events |-> NoItem]
    /\ order = <<>>
    /\ todo = [i \in Passes |-> <<>>]
    /\ saved = [e \in Events |-> NoItem]
    /\ enabled \in BOOLEAN
    /\ accepted = {}
    /\ sent = [e \in Events |-> 0]
    /\ deliveryExcused = {}
    /\ restarts = 0

DeliveryNext ==
    \/ \E e \in Events : Enqueue(e) \/ Due(e) \/ Persist(e)
    \/ \E i \in Passes : StartPass(i)
    \/ \E i \in Passes, answer \in Answers : Answer(i, answer)
    \/ PassWhileDisabled
    \/ Restart

DeliverySpec == DeliveryInit /\ [][DeliveryNext]_deliveryVars

\* The interval fires again and again, timers run out, and no request stays
\* unanswered for ever (fetch gives up after the client's own timeout).
DeliveryFairness ==
    /\ WF_deliveryVars(\E i \in Passes : StartPass(i))
    /\ WF_deliveryVars(PassWhileDisabled)
    /\ \A i \in Passes : WF_deliveryVars(\E answer \in Answers : Answer(i, answer))
    /\ \A e \in Events : WF_deliveryVars(Due(e))

FairDeliverySpec == DeliverySpec /\ DeliveryFairness

-----------------------------------------------------------------------------
(* Properties                                                              *)

\* An item is marked delivered only if JobAI has accepted its event, through
\* overlapping passes, lost answers and restarts (webhooks being enabled).
DeliveredMeansAccepted ==
    enabled => \A e \in Events : items[e].status = "delivered" => e \in accepted

\* The retry policy of README.md:135-138, for items no two passes posted at
\* once: terminal means refused or out of attempts, and pending again means
\* 429, 5xx or a network error.
RetryPolicy ==
    enabled =>
        \A e \in Events \ deliveryExcused :
            LET item == items[e]
            IN  /\ item.status = "delivered" <=> item.responseStatusCode \in 200..299
                /\ item.status = "terminal_failed" =>
                      item.responseStatusCode \in (300..499) \ {429} \/ item.attemptCount = MaxAttempts
                /\ item.status = "pending" =>
                      item.responseStatusCode \in {429, NetworkError} \cup 500..599
                      /\ item.attemptCount < MaxAttempts

\* JobAI sees no more requests for an event than the maximum, and none that is
\* not counted, unless passes overlapped on it or a restart set it back.
RequestsBounded ==
    \A e \in Events \ deliveryExcused :
        /\ sent[e] <= MaxAttempts
        /\ enabled => sent[e] = items[e].attemptCount
                                + Cardinality({i \in Passes : todo[i] # <<>> /\ Head(todo[i]) = e})

\* Unless passes overlap on it, what has become of an item is final.
SettledIsFinal ==
    [][\A e \in Events :
          items[e].status \in {"delivered", "terminal_failed"} /\ e \notin deliveryExcused'
              => items'[e].status = items[e].status]_deliveryVars

\* Every event enqueued is delivered or given up eventually; none is retried
\* for ever or forgotten behind the others.
EventuallySettled ==
    \A e \in Events : items[e].status = "pending" ~> items[e].status # "pending"

\* README.md:136 says of the retry policy: "2xx => delivered".  Not so when a
\* second pass is posting the same item: its answer overwrites the first.
DeliveredStays ==
    [][\A e \in Events :
          items[e].status = "delivered" /\ ~Restart => items'[e].status = "delivered"]_deliveryVars
=============================================================================
