------------------------------ MODULE Delivery ------------------------------
(***************************************************************************)
(* What both consumers of orders.placed promise together with Kafka: an    *)
(* at-least-once router.  Partitions are settled from the front: a message *)
(* is routed to an output topic, perhaps again, or given up, only when all *)
(* messages before it are settled, and the group's offset moves only over  *)
(* settled messages.  Void messages have no order in them and count as     *)
(* settled from the start.                                                 *)
(***************************************************************************)
EXTENDS Integers

CONSTANTS
    Partitions, \* partitions of orders.placed
    LogLength   \* messages in each partition

VARIABLES
    void,      \* messages without an order that nobody has to route
    routed,    \* messages with a copy on an output topic
    lost,      \* messages the consumer has given up
    committed  \* offset the group would resume from, in each partition

vars == <<void, routed, lost, committed>>

Offsets == 1 .. LogLength
Messages == Partitions \X Offsets
Settled == routed \cup lost \cup void
Ready(p, i) == \A k \in 1 .. i - 1 : <<p, k>> \in Settled

Init ==
    /\ void \in SUBSET Messages
    /\ routed = {}
    /\ lost = {}
    /\ committed = [p \in Partitions |-> 1]

Route(p, i) ==
    /\ Ready(p, i)
    /\ routed' = routed \cup {<<p, i>>}
    /\ UNCHANGED <<void, lost, committed>>

GiveUp(p, i) ==
    /\ Ready(p, i)
    /\ lost' = lost \cup {<<p, i>>}
    /\ UNCHANGED <<void, routed, committed>>

(* The offset may also move back, by a redelivered message. *)
Commit(p, i) ==
    /\ Ready(p, i + 1)
    /\ committed' = [committed EXCEPT ![p] = i + 1]
    /\ UNCHANGED <<void, routed, lost>>

Next ==
    \E p \in Partitions, i \in Offsets : Route(p, i) \/ GiveUp(p, i) \/ Commit(p, i)

Spec == Init /\ [][Next]_vars

=============================================================================
