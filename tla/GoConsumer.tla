----------------------------- MODULE GoConsumer -----------------------------
(***************************************************************************)
(* The Kafka consumer of the Go order service (kafka/consumer.go): one     *)
(* goroutine that fetches a message of orders.placed, writes it to         *)
(* orders.processed or, when that fails, to orders.failed, and commits its *)
(* offset.  It runs beside main, which cancels the root context and then   *)
(* closes the producer and the reader without waiting for the loop         *)
(* (cmd/server/main.go), and the process may crash and be started again.   *)
(*                                                                         *)
(* A message is <<partition, offset>>.  The log of each partition is       *)
(* written before the consumer starts; which messages are not valid JSON   *)
(* is chosen in Init.  What Kafka and the kafka-go client may do is        *)
(* modelled from how consumer.go and producer.go call them:                *)
(*   - FetchMessage on a done context may still return a buffered message; *)
(*   - WriteMessages may write and return an error (acknowledgement lost,  *)
(*     context done while the batch is on its way), and its retries may    *)
(*     write a message twice; a closed writer writes nothing;              *)
(*   - CommitMessages may fail with or without effect; a closed reader     *)
(*     commits nothing;                                                    *)
(*   - a rebalance sets the reader back to the committed offsets.          *)
(***************************************************************************)
EXTENDS Integers, FiniteSets

CONSTANTS
    Partitions,    \* partitions of orders.placed
    LogLength,     \* messages in each partition
    MaxDisruptions \* bound: rebalances, stops and crashes in a behaviour

ASSUME PartitionsAssumption == IsFiniteSet(Partitions)
ASSUME LogAssumption == LogLength \in Nat /\ MaxDisruptions \in Nat

VARIABLES
    poison,      \* messages that do not unmarshal
    delay,       \* FAULT_DELAY_MS is set
    committed,   \* offset the group would resume from, in each partition
    position,    \* next offset the reader will deliver, in each partition
    pc,          \* where the consume loop is
    current,     \* the message being processed
    stage,       \* how far main is in stopping the process
    processed,   \* copies of each message on orders.processed
    failed,      \* messages with a copy on orders.failed
    metrics,     \* what the consumer has counted in this process; Handle adds
                 \* to OrdersFailed{processing} as well, see GoService
    gaveUp,      \* history: messages both of whose writes returned an error
    abandoned,   \* history: messages dropped by a cancelled sleep
    calm,        \* history: nothing failed, repeated or stopped so far
    disruptions  \* rebalances, stops and crashes so far

kafkaVars == <<committed, processed, failed>>
vars == <<poison, delay, committed, position, pc, current, stage, processed, failed, metrics,
          gaveUp, abandoned, calm, disruptions>>

Offsets == 1 .. LogLength
Messages == Partitions \X Offsets
None == <<>>

(* Copies are counted 0, 1, Many. *)
Many == 2
AtMostMany(n) == IF n < Many THEN n ELSE Many

Stages == {"running", "cancelled", "producerClosed", "readerClosed", "down"}
ContextDone == stage # "running"
ProducerClosed == stage \in {"producerClosed", "readerClosed"}
ReaderClosed == stage = "readerClosed"
Up == stage # "down"

(* The commit in progress, and the counter that follows it. *)
CounterAfter == [commitProcessed |-> "processed",
                 commitFailed    |-> "processing",
                 commitPoison    |-> "deserialization"]

ZeroMetrics == [processed |-> 0, processing |-> 0, deserialization |-> 0]
FromStart == [p \in Partitions |-> 1]

TypeOK ==
    /\ poison \in SUBSET Messages
    /\ delay \in BOOLEAN
    /\ committed \in [Partitions -> 1 .. LogLength + 1]
    /\ position \in [Partitions -> 1 .. LogLength + 1]
    /\ pc \in {"fetch", "work", "produceFailed", "stopped"} \cup DOMAIN CounterAfter
    /\ current \in Messages \cup {None}
    /\ stage \in Stages
    /\ processed \in [Messages -> 0 .. Many]
    /\ failed \in SUBSET Messages
    /\ metrics \in [{"processed", "processing", "deserialization"} -> Nat]
    /\ gaveUp \in SUBSET Messages
    /\ abandoned \in SUBSET Messages
    /\ calm \in BOOLEAN
    /\ disruptions \in 0 .. MaxDisruptions

Init ==
    /\ poison \in SUBSET Messages
    /\ delay \in BOOLEAN
    /\ committed = FromStart
    /\ position = FromStart
    /\ pc = "fetch"
    /\ current = None
    /\ stage = "running"
    /\ processed = [m \in Messages |-> 0]
    /\ failed = {}
    /\ metrics = ZeroMetrics
    /\ gaveUp = {}
    /\ abandoned = {}
    /\ calm = TRUE
    /\ disruptions = 0

Inc(c) == metrics' = [metrics EXCEPT ![c] = @ + 1]
WriteProcessed(n) == processed' = [processed EXCEPT ![current] = AtMostMany(@ + n)]
WriteFailed == failed' = failed \cup {current}

-----------------------------------------------------------------------------
(* Faulty variants of actions defined below, one for each property.        *)

(* ReadMessage, which commits as it reads.  CommittedAccounted, ImplementsDelivery *)
FetchCommits(p) ==
    /\ Up /\ pc = "fetch"
    /\ position[p] \in Offsets
    /\ current' = <<p, position[p]>>
    /\ position' = [position EXCEPT ![p] = @ + 1]
    /\ committed' = position'
    /\ pc' = IF current' \in poison THEN "commitPoison" ELSE "work"
    /\ UNCHANGED <<poison, delay, stage, processed, failed, metrics, gaveUp, abandoned,
                   calm, disruptions>>

(* An error of the first write is only returned.  NoOvertaking *)
ProduceErrorReturns ==
    /\ Up /\ pc = "work"
    /\ calm' = FALSE
    /\ pc' = "fetch"
    /\ current' = None
    /\ UNCHANGED <<poison, delay, position, stage, metrics, gaveUp, abandoned, disruptions>>
    /\ UNCHANGED kafkaVars

(* Commits the offset of the message, not the next one.  CalmExactlyOnce *)
CommitSameOffset ==
    /\ Up /\ pc \in DOMAIN CounterAfter
    /\ committed' = [committed EXCEPT ![current[1]] = current[2]]
    /\ Inc(CounterAfter[pc])
    /\ pc' = "fetch"
    /\ current' = None
    /\ UNCHANGED <<poison, delay, position, stage, processed, failed, gaveUp, abandoned,
                   calm, disruptions>>

(* A new process starts at the end of the log.  EveryMessageEnds *)
RestartAtEnd ==
    /\ stage = "down"
    /\ stage' = "running"
    /\ position' = [p \in Partitions |-> LogLength + 1]
    /\ pc' = "fetch"
    /\ current' = None
    /\ metrics' = ZeroMetrics
    /\ UNCHANGED <<poison, delay, gaveUp, abandoned, calm, disruptions>>
    /\ UNCHANGED kafkaVars

-----------------------------------------------------------------------------
(* Start(ctx): the consume loop.                                           *)

(* FetchMessage delivers the next message of some partition. *)
Fetch(p) ==
    /\ Up /\ pc = "fetch"
    /\ position[p] \in Offsets
    /\ current' = <<p, position[p]>>
    /\ position' = [position EXCEPT ![p] = @ + 1]
    /\ pc' = IF current' \in poison THEN "commitPoison" ELSE "work"
    /\ UNCHANGED <<poison, delay, stage, metrics, gaveUp, abandoned, calm, disruptions>>
    /\ UNCHANGED kafkaVars

(* It returns an error and the context is done: the loop ends. *)
LoopEnds ==
    /\ Up /\ pc = "fetch"
    /\ ContextDone
    /\ pc' = "stopped"
    /\ UNCHANGED <<poison, delay, position, current, stage, metrics, gaveUp, abandoned,
                   calm, disruptions>>
    /\ UNCHANGED kafkaVars

(* fault.Sleep is cancelled: processMessage returns without a commit, and  *)
(* the loop goes on to the next message.                                   *)
SleepCancelled ==
    /\ Up /\ pc = "work"
    /\ delay /\ ContextDone
    /\ abandoned' = abandoned \cup {current}
    /\ pc' = "fetch"
    /\ current' = None
    /\ UNCHANGED <<poison, delay, position, stage, metrics, gaveUp, calm, disruptions>>
    /\ UNCHANGED kafkaVars

(* Produce to orders.processed succeeds; a retry may have repeated it. *)
ProduceProcessed ==
    /\ Up /\ pc = "work"
    /\ ~ProducerClosed
    /\ \E n \in 1 .. Many : WriteProcessed(n) /\ calm' = (calm /\ n = 1)
    /\ pc' = "commitProcessed"
    /\ UNCHANGED <<poison, delay, committed, position, current, stage, failed, metrics,
                   gaveUp, abandoned, disruptions>>

(* It returns an error, with or without having written. *)
ProduceProcessedFails ==
    /\ Up /\ pc = "work"
    /\ \/ ~ProducerClosed /\ WriteProcessed(1)
       \/ UNCHANGED processed
    /\ calm' = FALSE
    /\ pc' = "produceFailed"
    /\ UNCHANGED <<poison, delay, committed, position, current, stage, failed, metrics,
                   gaveUp, abandoned, disruptions>>

(* The order goes to orders.failed instead; an error here is ignored. *)
ProduceFailed ==
    /\ Up /\ pc = "produceFailed"
    /\ \/ ~ProducerClosed /\ WriteFailed /\ UNCHANGED gaveUp
       \/ UNCHANGED failed /\ gaveUp' = gaveUp \cup {current}
    /\ pc' = "commitFailed"
    /\ UNCHANGED <<poison, delay, committed, position, current, stage, processed, metrics,
                   abandoned, calm, disruptions>>

(* CommitMessages, whose error is ignored in all three places, and the     *)
(* counter after it.                                                       *)
Commit ==
    /\ Up /\ pc \in DOMAIN CounterAfter
    /\ \/ /\ ~ReaderClosed
          /\ committed' = [committed EXCEPT ![current[1]] = current[2] + 1]
          /\ UNCHANGED calm
       \/ UNCHANGED committed /\ calm' = FALSE
    /\ Inc(CounterAfter[pc])
    /\ pc' = "fetch"
    /\ current' = None
    /\ UNCHANGED <<poison, delay, position, stage, processed, failed, gaveUp, abandoned,
                   disruptions>>

Loop ==
    \/ \E p \in Partitions : Fetch(p)
    \/ LoopEnds \/ SleepCancelled
    \/ ProduceProcessed \/ ProduceProcessedFails \/ ProduceFailed \/ Commit

-----------------------------------------------------------------------------
(* What happens around the loop.                                           *)

Disruption ==
    /\ disruptions < MaxDisruptions
    /\ disruptions' = disruptions + 1
    /\ calm' = FALSE

(* The group rebalances: the reader restarts at the committed offsets, and *)
(* the message in process is carried on.                                   *)
Rebalance ==
    /\ Up /\ ~ReaderClosed
    /\ Disruption
    /\ position' = committed
    /\ UNCHANGED <<poison, delay, pc, current, stage, metrics, gaveUp, abandoned>>
    /\ UNCHANGED kafkaVars

(* main after the signal: cancel(), later producer.Close(), consumer.Close()*)
(* and the end of the process, none of which waits for the loop.           *)
StopFrame == UNCHANGED <<poison, delay, position, pc, current, metrics, gaveUp, abandoned>>
             /\ UNCHANGED kafkaVars

Cancel ==
    /\ stage = "running"
    /\ Disruption
    /\ stage' = "cancelled"
    /\ StopFrame

CloseClients ==
    /\ \/ stage = "cancelled" /\ stage' = "producerClosed"
       \/ stage = "producerClosed" /\ stage' = "readerClosed"
       \/ stage = "readerClosed" /\ stage' = "down"
    /\ UNCHANGED <<calm, disruptions>> /\ StopFrame

(* The process dies: a kill, or a panic in another goroutine. *)
Crash ==
    /\ Up
    /\ Disruption
    /\ stage' = "down"
    /\ StopFrame

(* The container is started again; only what Kafka keeps has survived. *)
Restart ==
    /\ stage = "down"
    /\ stage' = "running"
    /\ position' = committed
    /\ pc' = "fetch"
    /\ current' = None
    /\ metrics' = ZeroMetrics
    /\ UNCHANGED <<poison, delay, gaveUp, abandoned, calm, disruptions>>
    /\ UNCHANGED kafkaVars

Next == Loop \/ Rebalance \/ Cancel \/ CloseClients \/ Crash \/ Restart

Spec == Init /\ [][Next]_vars

(* The loop's goroutine is scheduled, a stop once begun goes on, and the   *)
(* container is restarted (restart: unless-stopped in docker-compose.yml). *)
(* Which write or commit fails is left open.                               *)
FairSpec ==
    /\ Spec
    /\ WF_vars(Loop) /\ WF_vars(CloseClients) /\ WF_vars(Restart)

-----------------------------------------------------------------------------
(* Safety.                                                                 *)

Routed == {m \in Messages : processed[m] > 0} \cup failed
Accounted == Routed \cup poison \cup gaveUp \cup abandoned
CommittedMessages == {m \in Messages : m[2] < committed[m[1]]}

(* A message the group will not be given again has been routed, was not    *)
(* JSON, or was lost in one of the two ways the code has: both writes in   *)
(* error, or a sleep cancelled at shutdown followed by a later commit.     *)
(* Crashes, rebalances and lost commits lose nothing.                      *)
CommittedAccounted == CommittedMessages \subseteq Accounted

(* Within a partition no message is routed before the earlier ones are     *)
(* accounted for, whatever is redelivered.                                 *)
NoOvertaking ==
    \A m \in Routed : \A k \in 1 .. m[2] - 1 : <<m[1], k>> \in Accounted

(* While nothing goes wrong delivery is exactly once: every message the    *)
(* loop is through with is on orders.processed once and committed, nothing *)
(* is on orders.failed, and the counters say so.                           *)
CalmExactlyOnce ==
    calm =>
        LET through == {m \in Messages : m[2] < position[m[1]] /\ m # current}
            written == IF pc = "commitProcessed" THEN {current} ELSE {}
        IN  /\ failed = {}
            /\ \A m \in Messages :
                  processed[m] = IF m \in (through \ poison) \cup written THEN 1 ELSE 0
            /\ through = CommittedMessages
            /\ metrics["processed"] = Cardinality(through \ poison)
            /\ metrics["deserialization"] = Cardinality(through \cap poison)

-----------------------------------------------------------------------------
(* The abstract router this implements.                                    *)

Router == INSTANCE Delivery WITH
    void   <- poison,
    routed <- Routed,
    lost   <- gaveUp \cup abandoned

(* The consumer is an at-least-once router that settles every partition    *)
(* from the front and commits only what is settled (Start, processMessage, *)
(* and main's shutdown, crashes and restarts around them).                 *)
ImplementsDelivery == Router!Spec

-----------------------------------------------------------------------------
(* The inductive invariant: why the first two properties hold.             *)

(* What the reader has passed is accounted for or in process. *)
ReadInv ==
    \A p \in Partitions : \A k \in 1 .. position[p] - 1 :
        <<p, k>> \in Accounted \/ <<p, k>> = current

CommittedInv ==
    \A p \in Partitions : \A k \in 1 .. committed[p] - 1 : <<p, k>> \in Accounted

(* What comes before the message in process is accounted for, and so is    *)
(* the message itself before its offset is committed.                      *)
CurrentInv ==
    /\ pc \in {"fetch", "stopped"} <=> current = None
    /\ pc \in DOMAIN CounterAfter => current \in Accounted
    /\ \A p \in Partitions, i \in Offsets : current = <<p, i>> =>
          \A k \in 1 .. i - 1 : <<p, k>> \in Accounted

OrderInv ==
    \A p \in Partitions, i \in Offsets : <<p, i>> \in Routed =>
        \A k \in 1 .. i - 1 : <<p, k>> \in Accounted

IInv == TypeOK /\ ReadInv /\ CommittedInv /\ CurrentInv /\ OrderInv

-----------------------------------------------------------------------------
(* Liveness.                                                               *)

(* At least once: with finitely many disruptions every message is routed,  *)
(* or lost in one of the two ways; a redelivery comes for all others.      *)
EveryMessageEnds ==
    \A m \in Messages :
        <>(m \in Routed \cup poison \cup gaveUp \cup (abandoned \cap CommittedMessages))

=============================================================================
