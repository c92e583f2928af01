--------------------------- MODULE DotnetConsumer ---------------------------
(***************************************************************************)
(* The Kafka consumer of the .NET order service                            *)
(* (Kafka/KafkaConsumerService.cs) with the producer it writes by          *)
(* (Kafka/KafkaProducerService.cs) and the host that stops both.           *)
(*                                                                         *)
(* It does what GoConsumer does with another control flow.  One try covers *)
(* parsing, delay, write and commit; whatever is thrown there but a        *)
(* cancellation sends the message to orders.failed -- also when the commit *)
(* threw after the write had succeeded.  The commit after that is in no    *)
(* try: its exception ends the loop, and the host stops when a background  *)
(* service fails.                                                          *)
(*                                                                         *)
(* Of Confluent.Kafka and of the generic host, as their calls here use     *)
(* them:                                                                   *)
(*   - the idempotent producer writes a message once, and may time out     *)
(*     with or without having written; a cancelled call may have written;  *)
(*     a disposed producer throws and writes nothing;                      *)
(*   - Commit throws with or without effect;                               *)
(*   - a rebalance takes effect inside Consume;                            *)
(*   - the host cancels the loop's token, waits for the loop or for its    *)
(*     shutdown timeout, and then disposes the producer.                   *)
(*                                                                         *)
(* The process serves POST /orders as well, and counts on the same         *)
(* OrderMetrics: what its requests add to OrdersFailed is an action here,  *)
(* what else they do is DotnetService.                                     *)
(***************************************************************************)
EXTENDS Integers, FiniteSets

CONSTANTS
    Partitions,    \* partitions of orders.placed
    LogLength,     \* messages in each partition
    MaxDisruptions, \* bound: rebalances, stops, host failures and crashes
    MaxRequestFailures \* bound: failures of requests a process counts, per reason

ASSUME PartitionsAssumption == IsFiniteSet(Partitions)
ASSUME LogAssumption == LogLength \in Nat /\ MaxDisruptions \in Nat
ASSUME RequestAssumption == MaxRequestFailures \in Nat

VARIABLES
    poison,      \* messages that do not deserialize
    committed,   \* offset the group would resume from, in each partition
    position,    \* next offset Consume will return, in each partition
    pc,          \* where the loop is; the two catch steps are separate
    current,     \* the message in ProcessMessageAsync
    host,        \* how far the host is in stopping
    processed,   \* messages with a copy on orders.processed
    acknowledged,\* history: messages one of whose writes there was acknowledged
    failed,      \* messages with a copy on orders.failed
    metrics,     \* counters of this process, OrdersFailed by reason
    fromRequests,\* history: what its requests have added to OrdersFailed
    gaveUp,      \* history: messages whose write to orders.failed failed
    calm,        \* history: nothing threw, repeated or stopped so far
    disruptions

kafkaVars == <<committed, processed, acknowledged, failed>>
vars == <<poison, committed, position, pc, current, host, processed, acknowledged,
          failed, metrics, fromRequests, gaveUp, calm, disruptions>>

Offsets == 1 .. LogLength
Messages == Partitions \X Offsets
None == <<>>

HostStates == {"running", "stopping", "disposed", "down"}
Cancelled == host # "running"
Disposed == host = "disposed"
Up == host # "down"

LoopStates == {"consume", "work", "commit", "deadLetter", "commitAgain", "stopped"}
Reasons == {"processing", "kafka"}
ZeroMetrics == [c \in {"processed"} \cup Reasons |-> 0]
NoRequests == [r \in Reasons |-> 0]
FromStart == [p \in Partitions |-> 1]

TypeOK ==
    /\ poison \in SUBSET Messages
    /\ committed \in [Partitions -> 1 .. LogLength + 1]
    /\ position \in [Partitions -> 1 .. LogLength + 1]
    /\ pc \in LoopStates
    /\ current \in Messages \cup {None}
    /\ host \in HostStates
    /\ processed \in SUBSET Messages
    /\ acknowledged \in SUBSET processed
    /\ failed \in SUBSET Messages
    /\ metrics \in [{"processed"} \cup Reasons -> Nat]
    /\ fromRequests \in [Reasons -> 0 .. MaxRequestFailures]
    /\ gaveUp \in SUBSET Messages
    /\ calm \in BOOLEAN
    /\ disruptions \in 0 .. MaxDisruptions

Init ==
    /\ poison \in SUBSET Messages
    /\ committed = FromStart
    /\ position = FromStart
    /\ pc = "consume"
    /\ current = None
    /\ host = "running"
    /\ processed = {}
    /\ acknowledged = {}
    /\ failed = {}
    /\ metrics = ZeroMetrics
    /\ fromRequests = NoRequests
    /\ gaveUp = {}
    /\ calm = TRUE
    /\ disruptions = 0

Inc(c) == metrics' = [metrics EXCEPT ![c] = @ + 1]
CommitCurrent == committed' = [committed EXCEPT ![current[1]] = current[2] + 1]

Disruption ==
    /\ disruptions < MaxDisruptions
    /\ disruptions' = disruptions + 1
    /\ calm' = FALSE

(* What the steps of the loop leave alone. *)
LoopFrame == UNCHANGED <<poison, fromRequests, disruptions>>

-----------------------------------------------------------------------------
(* Faulty variants of actions defined below, one for each property.        *)

(* EnableAutoCommit left at its default: the offset may be committed while *)
(* the message is in process.  CommittedAccounted, ImplementsDelivery *)
ConsumeAutoCommits(p) ==
    /\ Up /\ pc = "consume"
    /\ position[p] \in Offsets
    /\ current' = <<p, position[p]>>
    /\ position' = [position EXCEPT ![p] = @ + 1]
    /\ committed' = position'
    /\ pc' = IF current' \in poison THEN "deadLetter" ELSE "work"
    /\ UNCHANGED <<processed, acknowledged, failed, host, metrics, gaveUp, calm>>
    /\ LoopFrame

(* The cancellation is caught inside the loop, as any other exception of a *)
(* message, and the loop goes on.  NoOvertaking *)
WorkCancelledContinues ==
    /\ Up /\ pc = "work"
    /\ Cancelled
    /\ pc' = "consume"
    /\ current' = None
    /\ UNCHANGED <<position, host, metrics, gaveUp, calm>>
    /\ UNCHANGED kafkaVars /\ LoopFrame

(* No second commit for a dead letter.  CalmExactlyOnce *)
CommitAgainMissing ==
    /\ Up /\ pc = "commitAgain"
    /\ Inc("processing")
    /\ pc' = "consume"
    /\ current' = None
    /\ UNCHANGED <<position, host, gaveUp, calm>> /\ UNCHANGED kafkaVars /\ LoopFrame

(* The counter is incremented before the commit.  CountedOnce *)
CommitThrowsCounted ==
    /\ Up /\ pc = "commit"
    /\ CommitCurrent \/ UNCHANGED committed
    /\ Inc("processed")
    /\ calm' = FALSE
    /\ pc' = "deadLetter"
    /\ UNCHANGED <<processed, acknowledged, failed>>
    /\ UNCHANGED <<position, current, host, gaveUp>> /\ LoopFrame

(* AutoOffsetReset.Latest for a group without offsets.  EveryMessageEnds *)
RestartAtEnd ==
    /\ host = "down"
    /\ host' = "running"
    /\ position' = [p \in Partitions |-> LogLength + 1]
    /\ pc' = "consume"
    /\ current' = None
    /\ metrics' = ZeroMetrics
    /\ fromRequests' = NoRequests
    /\ UNCHANGED <<poison, gaveUp, calm, disruptions>>
    /\ UNCHANGED kafkaVars

-----------------------------------------------------------------------------
(* ConsumeLoopAsync.                                                       *)

(* Consume returns the next message of some partition.  Deserialization,   *)
(* the first thing done with it, throws for a poison message.              *)
Consume(p) ==
    /\ Up /\ pc = "consume"
    /\ position[p] \in Offsets
    /\ current' = <<p, position[p]>>
    /\ position' = [position EXCEPT ![p] = @ + 1]
    /\ pc' = IF current' \in poison THEN "deadLetter" ELSE "work"
    /\ UNCHANGED <<host, metrics, gaveUp, calm>> /\ UNCHANGED kafkaVars /\ LoopFrame

(* The while condition is false. *)
LoopEnds ==
    /\ Up /\ pc = "consume"
    /\ Cancelled
    /\ pc' = "stopped"
    /\ UNCHANGED <<position, current, host, metrics, gaveUp, calm>>
    /\ UNCHANGED kafkaVars /\ LoopFrame

(* Task.Delay or ProduceAsync is cancelled: the exception is rethrown and  *)
(* caught outside the loop.  The cancelled write may still arrive; without *)
(* one it makes no difference whether a delay is configured.               *)
WorkCancelled ==
    /\ Up /\ pc = "work"
    /\ Cancelled
    /\ \/ UNCHANGED processed
       \/ ~Disposed /\ processed' = processed \cup {current}
    /\ pc' = "stopped"
    /\ current' = None
    /\ UNCHANGED <<committed, acknowledged, failed>>
    /\ UNCHANGED <<position, host, metrics, gaveUp, calm>> /\ LoopFrame

(* ProduceAsync to orders.processed is acknowledged. *)
ProduceProcessed ==
    /\ Up /\ pc = "work"
    /\ ~Disposed
    /\ processed' = processed \cup {current}
    /\ acknowledged' = acknowledged \cup {current}
    /\ pc' = "commit"
    /\ UNCHANGED <<committed, failed>>
    /\ UNCHANGED <<position, current, host, metrics, gaveUp, calm>> /\ LoopFrame

(* It throws a ProduceException, which KafkaProducerService counts and     *)
(* rethrows, or an ObjectDisposedException, which it does not count.       *)
ProduceProcessedFails ==
    /\ Up /\ pc = "work"
    /\ \/ Disposed /\ UNCHANGED <<processed, metrics>>
       \/ /\ ~Disposed
          /\ Inc("kafka")
          /\ processed' \in {processed, processed \cup {current}}
    /\ calm' = FALSE
    /\ pc' = "deadLetter"
    /\ UNCHANGED <<committed, acknowledged, failed>>
    /\ UNCHANGED <<position, current, host, gaveUp>> /\ LoopFrame

(* consumer.Commit(result) returns. *)
Commit ==
    /\ Up /\ pc = "commit"
    /\ CommitCurrent
    /\ Inc("processed")
    /\ pc' = "consume"
    /\ current' = None
    /\ UNCHANGED <<processed, acknowledged, failed>>
    /\ UNCHANGED <<position, host, gaveUp, calm>> /\ LoopFrame

(* It throws, into the same catch as everything else. *)
CommitThrows ==
    /\ Up /\ pc = "commit"
    /\ CommitCurrent \/ UNCHANGED committed
    /\ calm' = FALSE
    /\ pc' = "deadLetter"
    /\ UNCHANGED <<processed, acknowledged, failed>>
    /\ UNCHANGED <<position, current, host, metrics, gaveUp>> /\ LoopFrame

(* catch (Exception): the write to orders.failed. *)
ProduceFailed ==
    /\ Up /\ pc = "deadLetter"
    /\ ~Disposed
    /\ failed' = failed \cup {current}
    /\ pc' = "commitAgain"
    /\ UNCHANGED <<committed, processed, acknowledged>>
    /\ UNCHANGED <<position, current, host, metrics, gaveUp, calm>> /\ LoopFrame

(* It throws, and the exception is swallowed: a ProduceException, which is *)
(* counted, or a cancellation or a disposed producer, which are not.       *)
ProduceFailedThrows ==
    /\ Up /\ pc = "deadLetter"
    /\ \/ ~Disposed /\ Inc("kafka")
       \/ Cancelled /\ UNCHANGED metrics
    /\ \/ ~Disposed /\ failed' = failed \cup {current} /\ UNCHANGED gaveUp
       \/ UNCHANGED failed /\ gaveUp' = gaveUp \cup {current}
    /\ calm' = FALSE
    /\ pc' = "commitAgain"
    /\ UNCHANGED <<committed, processed, acknowledged>>
    /\ UNCHANGED <<position, current, host>> /\ LoopFrame

(* The commit in the catch block returns. *)
CommitAgain ==
    /\ Up /\ pc = "commitAgain"
    /\ CommitCurrent
    /\ Inc("processing")
    /\ pc' = "consume"
    /\ current' = None
    /\ UNCHANGED <<processed, acknowledged, failed>>
    /\ UNCHANGED <<position, host, gaveUp, calm>> /\ LoopFrame

(* It throws: the loop ends by an exception, and the host begins to stop.  *)
CommitAgainThrows ==
    /\ Up /\ pc = "commitAgain"
    /\ Disruption
    /\ CommitCurrent \/ UNCHANGED committed
    /\ pc' = "stopped"
    /\ current' = None
    /\ host' = IF host = "running" THEN "stopping" ELSE host
    /\ UNCHANGED <<processed, acknowledged, failed>>
    /\ UNCHANGED <<poison, position, metrics, fromRequests, gaveUp>>

Loop ==
    \/ \E p \in Partitions : Consume(p)
    \/ LoopEnds \/ WorkCancelled
    \/ ProduceProcessed \/ ProduceProcessedFails \/ Commit \/ CommitThrows
    \/ ProduceFailed \/ ProduceFailedThrows \/ CommitAgain

-----------------------------------------------------------------------------
(* Around the loop.                                                        *)

(* The group rebalances: Consume goes on from the committed offsets. *)
Rebalance ==
    /\ Up /\ pc = "consume"
    /\ Disruption
    /\ position' = committed
    /\ UNCHANGED <<poison, pc, current, host, metrics, fromRequests, gaveUp>>
    /\ UNCHANGED kafkaVars

HostFrame ==
    /\ UNCHANGED <<poison, position, pc, current, metrics, fromRequests, gaveUp>>
    /\ UNCHANGED kafkaVars

(* A signal: StopAsync of the consumer cancels the token of the loop. *)
Stop ==
    /\ host = "running"
    /\ Disruption
    /\ host' = "stopping"
    /\ HostFrame

(* The loop has ended or the shutdown timeout is over: StopAsync of the    *)
(* producer flushes and disposes, and the process ends.                    *)
HostStops ==
    /\ \/ host = "stopping" /\ host' = "disposed"
       \/ host = "disposed" /\ host' = "down"
    /\ UNCHANGED <<calm, disruptions>> /\ HostFrame

Crash ==
    /\ Up
    /\ Disruption
    /\ host' = "down"
    /\ HostFrame

(* The container is started again; only what Kafka keeps has survived. *)
Restart ==
    /\ host = "down"
    /\ host' = "running"
    /\ position' = committed
    /\ pc' = "consume"
    /\ current' = None
    /\ metrics' = ZeroMetrics
    /\ fromRequests' = NoRequests
    /\ UNCHANGED <<poison, gaveUp, calm, disruptions>>
    /\ UNCHANGED kafkaVars

(* A request of the same process fails and counts on the same              *)
(* OrdersFailed: the fault injection of PlaceOrderHandler as "processing", *)
(* its write to orders.placed, by the same producer, as "kafka".           *)
RequestFails(r) ==
    /\ Up /\ (r = "kafka" => ~Disposed)
    /\ fromRequests[r] < MaxRequestFailures
    /\ Inc(r)
    /\ fromRequests' = [fromRequests EXCEPT ![r] = @ + 1]
    /\ UNCHANGED <<poison, position, pc, current, host, gaveUp, calm, disruptions>>
    /\ UNCHANGED kafkaVars

Next ==
    \/ Loop \/ CommitAgainThrows
    \/ Rebalance \/ Stop \/ HostStops \/ Crash \/ Restart
    \/ \E r \in Reasons : RequestFails(r)

Spec == Init /\ [][Next]_vars

(* The loop's task is scheduled, a stop once begun goes on, and the        *)
(* container is restarted (restart: unless-stopped in docker-compose.yml). *)
(* The commit in the catch block returns in the end: were it to throw for  *)
(* ever, the host would stop for ever at the same message.                 *)
FairSpec ==
    /\ Spec
    /\ WF_vars(Loop) /\ WF_vars(HostStops) /\ WF_vars(Restart)

-----------------------------------------------------------------------------
(* Safety.                                                                 *)

Routed == processed \cup failed
Accounted == Routed \cup gaveUp
CommittedMessages == {m \in Messages : m[2] < committed[m[1]]}

(* A message the group will not be given again is on one of the output     *)
(* topics, or the write to orders.failed failed: the one way to lose it.   *)
(* Unlike in Go a cancelled delay or write is never followed by a later    *)
(* commit, since it ends the loop.                                         *)
CommittedAccounted == CommittedMessages \subseteq Accounted

(* Within a partition no message is routed before the earlier ones are     *)
(* accounted for, whatever is redelivered.                                 *)
NoOvertaking ==
    \A m \in Routed : \A k \in 1 .. m[2] - 1 : <<m[1], k>> \in Accounted

Through == {m \in Messages : m[2] < position[m[1]] /\ m # current}

(* What the consumer and its writes have added to OrdersFailed.            *)
OwnFailures(r) == metrics[r] - fromRequests[r]

(* While nothing goes wrong in the consumer each message is on exactly one *)
(* output topic, orders.failed for what does not deserialize, is           *)
(* committed, and is counted under one counter; the failures of requests   *)
(* are all that OrdersFailed holds besides.                                *)
CalmExactlyOnce ==
    calm =>
        LET inCatch == pc = "commitAgain"
        IN  /\ processed = (Through \ poison) \cup (IF pc = "commit" THEN {current} ELSE {})
            /\ failed = (Through \cap poison) \cup (IF inCatch THEN {current} ELSE {})
            /\ Through = CommittedMessages
            /\ metrics["processed"] = Cardinality(Through \ poison)
            /\ OwnFailures("processing") = Cardinality(Through \cap poison)
            /\ OwnFailures("kafka") = 0

(* Whichever writes and commits throw: in a process that was neither       *)
(* rebalanced nor stopped each message the loop is through with is counted *)
(* once, as processed or as a processing failure, and the failures the     *)
(* producer counts for its writes are at most two for each that failed --  *)
(* whatever requests add to the same counters in the meantime.             *)
CountedOnce ==
    disruptions = 0 =>
        /\ metrics["processed"] + OwnFailures("processing") = Cardinality(Through)
        /\ OwnFailures("kafka") \in
             0 .. 2 * (OwnFailures("processing") + IF current = None THEN 0 ELSE 1)

-----------------------------------------------------------------------------
(* The abstract router this implements.                                    *)

Router == INSTANCE Delivery WITH
    void   <- {},
    routed <- Routed,
    lost   <- gaveUp

(* The consumer is an at-least-once router that settles every partition    *)
(* from the front and commits only what is settled, whatever throws in     *)
(* ProcessMessageAsync and however the host stops.                         *)
ImplementsDelivery == Router!Spec

-----------------------------------------------------------------------------
(* The inductive invariant: why the first two properties hold.             *)

(* What the loop has passed is accounted for or in process, except after   *)
(* the loop has ended, when the next process starts over.                  *)
ReadInv ==
    pc # "stopped" =>
        \A p \in Partitions : \A k \in 1 .. position[p] - 1 :
            <<p, k>> \in Accounted \/ <<p, k>> = current

CommittedInv ==
    \A p \in Partitions : \A k \in 1 .. committed[p] - 1 : <<p, k>> \in Accounted

(* What comes before the message in process is accounted for, and so is    *)
(* the message itself before its offset is committed.                      *)
CurrentInv ==
    /\ pc \in {"consume", "stopped"} <=> current = None
    /\ pc \in {"commit", "commitAgain"} => current \in Accounted
    /\ \A p \in Partitions, i \in Offsets : current = <<p, i>> =>
          \A k \in 1 .. i - 1 : <<p, k>> \in Accounted

OrderInv ==
    \A p \in Partitions, i \in Offsets : <<p, i>> \in Routed =>
        \A k \in 1 .. i - 1 : <<p, k>> \in Accounted

IInv == TypeOK /\ ReadInv /\ CommittedInv /\ CurrentInv /\ OrderInv

-----------------------------------------------------------------------------
(* Liveness.                                                               *)

(* At least once: with finitely many disruptions every message reaches an  *)
(* output topic, or its write to orders.failed failed.                     *)
EveryMessageEnds == \A m \in Messages : <>(m \in Accounted)

-----------------------------------------------------------------------------
(* Statements of the repository's comments and documents.                  *)

(* README.md:96, orders.failed holds "Dead-letter / error events": an      *)
(* order acknowledged on orders.processed is not among them.               *)
DeadLettersFailed == failed \cap acknowledged = {}

=============================================================================
