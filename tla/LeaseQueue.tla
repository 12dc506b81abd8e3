----------------------------- MODULE LeaseQueue -----------------------------
(***************************************************************************)
(* What the client and the broker promise together of the messages of a    *)
(* topic (README, "Pull" and "Push"), whatever connections and leases it   *)
(* takes: the abstract specification of module Subscription.               *)
(***************************************************************************)
EXTENDS Naturals

CONSTANT Msgs

VARIABLES
    ackMode,   \* "manual" or "auto"
    state,     \* of each message: "absent", "ready", "leased" or "acked"
    handed,    \* how often it has been handed to the application: 0, 1 or 2,
               \* which is more than once
    handled    \* the messages the application has dealt with

queueVars == <<ackMode, state, handed, handled>>

QueueInit ==
    /\ ackMode \in {"manual", "auto"}
    /\ state \in [Msgs -> {"absent", "ready"}]
    /\ handed = [m \in Msgs |-> 0]
    /\ handled = {}

Becomes(S, from, to) ==
    /\ \A m \in S : state[m] = from
    /\ state' = [m \in Msgs |-> IF m \in S THEN to ELSE state[m]]

QueueAppend(m) ==
    /\ Becomes({m}, "absent", "ready")
    /\ UNCHANGED <<ackMode, handed, handled>>

(* In auto mode to be delivered is to be acked.                            *)
QueueLease(S) ==
    /\ Becomes(S, "ready", IF ackMode = "auto" THEN "acked" ELSE "leased")
    /\ UNCHANGED <<ackMode, handed, handled>>

(* A message is handed on as often as it is delivered: once in auto mode.  *)
QueueHand(S) ==
    /\ \A m \in S :
         /\ state[m] # "absent"
         /\ ackMode = "auto" => state[m] = "acked" /\ handed[m] = 0
    /\ handed' = [m \in Msgs |-> IF m \in S /\ handed[m] < 2 THEN handed[m] + 1 ELSE handed[m]]
    /\ UNCHANGED <<ackMode, state, handled>>

QueueHandle(S) ==
    /\ \A m \in S : handed[m] > 0
    /\ handled' = handled \cup S
    /\ UNCHANGED <<ackMode, state, handed>>

QueueAck(m) ==
    /\ m \in handled
    /\ Becomes({m}, "leased", "acked")
    /\ UNCHANGED <<ackMode, handed, handled>>

(* Nacked, or its lease has expired.                                       *)
QueueReturn(m) ==
    /\ Becomes({m}, "leased", "ready")
    /\ UNCHANGED <<ackMode, handed, handled>>

QueueNext ==
    \/ \E m \in Msgs : QueueAppend(m) \/ QueueAck(m) \/ QueueReturn(m)
    \/ \E S \in SUBSET Msgs : QueueLease(S) \/ QueueHand(S) \/ QueueHandle(S)

QueueBehaviour == QueueInit /\ [][QueueNext]_queueVars
=============================================================================
