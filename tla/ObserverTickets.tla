---------------------------- MODULE ObserverTickets ----------------------------
(***************************************************************************)
(* Observer session tickets: signed, short-lived, and good for one         *)
(* redemption.  consume checks the ticket's expiry with the clock of the   *)
(* gateway, and then asks Redis, with SET NX and the time the ticket has   *)
(* left, whether it is the first.                                          *)
(***************************************************************************)
EXTENDS Naturals

CONSTANTS Tickets,   \* jti
          Consumers, \* requests under way at one time
          Nothing,
          TicketTtl, \* OBSERVER_SESSION_TICKET_TTL_MS
          LastTime   \* bound: the clock

ASSUME TicketAssumption == TicketTtl \in Nat

VARIABLES
    clock,
    ticketExp, \* expiry of the tickets issued so far, 0 of the others
    consumed,  \* until when Redis has the key of a ticket, or 0
    consumer,  \* the ticket each request is redeeming, and the time it had left
    redeemed,  \* how often a ticket was redeemed
    late       \* a redemption reached Redis after its ticket had expired

ticketVars == <<clock, ticketExp, consumed, consumer, redeemed, late>>

Waiting == [ticket |-> Nothing, left |-> 0]

TicketsInit ==
    /\ clock = 0
    /\ ticketExp = [t \in Tickets |-> 0]
    /\ consumed = [t \in Tickets |-> 0]
    /\ consumer = [c \in Consumers |-> Waiting]
    /\ redeemed = [t \in Tickets |-> 0]
    /\ late = FALSE

\* Redis drops the keys whose time is over.
clockTicks ==
    /\ clock < LastTime
    /\ clock' = clock + 1
    /\ consumed' = [t \in Tickets |-> IF clock' < consumed[t] THEN consumed[t] ELSE 0]
    /\ UNCHANGED <<ticketExp, consumer, redeemed, late>>

\* session-ticket, for a link that is not revoked and a meeting that is active
issueTicket(t) ==
    /\ ticketExp[t] = 0
    /\ ticketExp' = [ticketExp EXCEPT ![t] = clock + TicketTtl]
    /\ UNCHANGED <<clock, consumed, consumer, redeemed, late>>

verifyTicket(c, t) ==
    /\ consumer[c] = Waiting
    /\ clock < ticketExp[t]
    /\ consumer' = [consumer EXCEPT ![c] = [ticket |-> t, left |-> ticketExp[t] - clock]]
    /\ UNCHANGED <<clock, ticketExp, consumed, redeemed, late>>

\* Mutant: SET without NX.
Taken_Never(t) == FALSE

Taken(t) == consumed[t] # 0

\* Without an answer, the ticket counts as consumed, and the key may be set or not.
consumeOnce(c) ==
    /\ consumer[c] # Waiting
    /\ LET t == consumer[c].ticket
           kept == [consumed EXCEPT ![t] = clock + consumer[c].left]
       IN  /\ \/ Taken(t) /\ UNCHANGED <<consumed, redeemed>>
              \/ /\ ~Taken(t)
                 /\ consumed' = kept
                 /\ redeemed' = [redeemed EXCEPT ![t] = @ + 1]
              \/ consumed' \in {consumed, IF Taken(t) THEN consumed ELSE kept}
                 /\ UNCHANGED redeemed
           /\ late' = (late \/ clock >= ticketExp[t])
    /\ consumer' = [consumer EXCEPT ![c] = Waiting]
    /\ UNCHANGED <<clock, ticketExp>>

TicketsNext ==
    \/ \E t \in Tickets : issueTicket(t) \/ \E c \in Consumers : verifyTicket(c, t)
    \/ \E c \in Consumers : consumeOnce(c)
    \/ clockTicks

TicketsSpec == TicketsInit /\ [][TicketsNext]_ticketVars

-----------------------------------------------------------------------------
TicketsTypeOK ==
    /\ clock \in Nat
    /\ ticketExp \in [Tickets -> Nat]
    /\ consumed \in [Tickets -> Nat]
    /\ consumer \in [Consumers -> [ticket: Tickets \cup {Nothing}, left: Nat]]
    /\ redeemed \in [Tickets -> Nat]
    /\ late \in BOOLEAN

\* A ticket is redeemed once, however many ask at once and whatever Redis answers,
\* unless a redemption that passed verify reaches Redis after the ticket has expired.
RedeemedOnce == late \/ \A t \in Tickets : redeemed[t] <= 1
=============================================================================
