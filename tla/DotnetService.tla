---------------------------- MODULE DotnetService ----------------------------
(***************************************************************************)
(* The .NET order service up to the topic orders.placed: the endpoint      *)
(* POST /orders and the host of Program.cs, PlaceOrderHandler, and the     *)
(* producer it awaits (KafkaProducerService).  It differs from GoService   *)
(* where it matters to a client: an order is answered after the write to   *)
(* Kafka, inside the request.  mediator.Send is given no token, so nothing *)
(* cancels a handler: neither a client that leaves nor the host; the       *)
(* handler's answer is what request records, whether or not it arrives.    *)
(*                                                                         *)
(* The consumer of the same process counts its failures on the same        *)
(* OrderMetrics: they are an action here, the consumer is DotnetConsumer.  *)
(*                                                                         *)
(* Of ASP.NET Core, the generic host and Confluent.Kafka, as used here:    *)
(*   - hosted services stop in the reverse order of their registration:    *)
(*     the web server, which waits for its requests or for the shutdown    *)
(*     timeout and drops the connections then; the consumer; the producer; *)
(*   - a write that has begun ends with an acknowledgement or a            *)
(*     ProduceException, in time or, when the producer is disposed, never. *)
(***************************************************************************)
EXTENDS Integers, FiniteSets

CONSTANTS
  Orders,             \* the orders posted, each by one request
  MaxConsumerFailures \* bound: failures the consumer counts, for each reason

ASSUME OrdersAreFinite == IsFiniteSet(Orders)
ASSUME BoundAssumption == MaxConsumerFailures \in Nat

VARIABLES
  failRate, \* FailRate > 0
  request,  \* where each request is, or the answer its handler gave
  placed,   \* orders on orders.placed
  metrics,  \* the counters of OrderMetrics, OrdersFailed by reason
  fromConsumer, \* history: what the consumer has added to OrdersFailed
  brokerUp,
  host,     \* how far the host is in stopping
  timedOut  \* the shutdown timeout ended the wait for the requests

vars == <<failRate, request, placed, metrics, fromConsumer, brokerUp, host, timedOut>>

Open == {"reading", "handling", "calling", "writing"}
Answers == {"202", "400", "422", "500"}
Reasons == {"processing", "kafka"}
Counters == {"received", "published", "observed"} \cup Reasons
HostStates == {"running", "draining", "flushing", "disposed", "down"}

Up == host # "down"
Disposed == host \in {"disposed", "down"}
At(where) == { o \in Orders : request[o] \in where }
Inc(c) == metrics' = [metrics EXCEPT ![c] = @ + 1]
Goto(o, where) == request' = [request EXCEPT ![o] = where]

Init ==
  /\ failRate \in BOOLEAN
  /\ request = [ o \in Orders |-> "none" ]
  /\ placed = {}
  /\ metrics = [ c \in Counters |-> 0 ]
  /\ fromConsumer = [ r \in Reasons |-> 0 ]
  /\ brokerUp = TRUE
  /\ host = "running" /\ timedOut = FALSE

-----------------------------------------------------------------------------
(* A request.                                                              *)

RequestFrame == UNCHANGED <<failRate, fromConsumer, brokerUp, host, timedOut>>

Post(o) ==
  /\ host = "running" /\ request[o] = "none"
  /\ Goto(o, "reading")
  /\ UNCHANGED <<placed, metrics>> /\ RequestFrame

\* The order or one of its items is not valid; validating an item that is
\* null throws.
Refuse(o) ==
  /\ Up /\ request[o] = "reading"
  /\ \E answer \in {"400", "500"} : Goto(o, answer)
  /\ UNCHANGED <<placed, metrics>> /\ RequestFrame

\* Handle begins and counts the order; then it sleeps for DelayMs.
Handle(o) ==
  /\ Up /\ request[o] = "reading"
  /\ Goto(o, "handling")
  /\ Inc("received")
  /\ UNCHANGED placed /\ RequestFrame

\* The injected failure: OrderProcessingException, which is answered 422.
RollFails(o) ==
  /\ Up /\ request[o] = "handling" /\ failRate
  /\ Goto(o, "422")
  /\ Inc("processing")
  /\ UNCHANGED placed /\ RequestFrame

\* Publish runs OrderPlacedEventHandler, which counts the event.
Publish(o) ==
  /\ Up /\ request[o] = "handling"
  /\ Goto(o, "calling")
  /\ Inc("published")
  /\ UNCHANGED placed /\ RequestFrame

(* The write is not awaited.  AnswersMeanTopic *)
ProduceNotAwaited(o) ==
  /\ Up /\ request[o] = "calling"
  /\ ~Disposed
  /\ Goto(o, "202")
  /\ Inc("observed")
  /\ placed' \in {placed, placed \cup {o}}
  /\ RequestFrame

\* ProduceAsync begins to write, unless the producer is disposed: what it
\* throws then is no ProduceException and is not counted.
Produce(o) ==
  /\ Up /\ request[o] = "calling"
  /\ Goto(o, IF Disposed THEN "500" ELSE "writing")
  /\ UNCHANGED <<placed, metrics>> /\ RequestFrame

\* Every replica has acknowledged the message.
Written(o) ==
  /\ request[o] = "writing" /\ ~Disposed /\ brokerUp
  /\ placed' = placed \cup {o}
  /\ Goto(o, "202")
  /\ Inc("observed")
  /\ RequestFrame

\* A ProduceException: MessageTimeoutMs is over, with or without the message
\* having been written.
WriteFails(o) ==
  /\ request[o] = "writing" /\ ~Disposed
  /\ placed' \in {placed} \cup (IF brokerUp THEN {placed \cup {o}} ELSE {})
  /\ Goto(o, "500")
  /\ Inc("kafka")
  /\ RequestFrame

-----------------------------------------------------------------------------
(* The host.                                                               *)

HostFrame == UNCHANGED <<failRate, request, metrics, fromConsumer, brokerUp>>

Stop ==
  /\ host = "running"
  /\ host' = "draining"
  /\ UNCHANGED <<placed, timedOut>> /\ HostFrame

\* The web server has no request left, or waits no longer.  The consumer is
\* stopped next; see DotnetConsumer.
Drained ==
  /\ host = "draining" /\ At(Open) = {}
  /\ host' = "flushing"
  /\ UNCHANGED <<placed, timedOut>> /\ HostFrame

DrainTimeout ==
  /\ host = "draining"
  /\ host' = "flushing" /\ timedOut' = TRUE
  /\ UNCHANGED placed /\ HostFrame

(* The producer is the first to stop.  MetricsBalance *)
DisposeFirst ==
  /\ host \in {"draining", "flushing"}
  /\ host' = "disposed"
  /\ UNCHANGED <<placed, timedOut>> /\ HostFrame

\* StopAsync of the producer: five seconds to flush, and Dispose, when some
\* of the writes still open may have reached the broker.
Dispose ==
  /\ host = "flushing"
  /\ host' = "disposed"
  /\ \E written \in SUBSET At({"writing"}) :
       placed' = placed \cup (IF brokerUp THEN written ELSE {})
  /\ UNCHANGED timedOut /\ HostFrame

\* The process ends, or is killed at any time.
Exit ==
  /\ Up
  /\ host' = "down"
  /\ UNCHANGED <<placed, timedOut>> /\ HostFrame

BrokerSwitch ==
  /\ Up
  /\ brokerUp' = ~brokerUp
  /\ UNCHANGED <<failRate, request, placed, metrics, fromConsumer, host, timedOut>>

\* The consumer has failed with a message, or one of its writes, by the same
\* producer, has failed; see DotnetConsumer.  It may outlive its own stop.
ConsumerFails(r) ==
  /\ Up /\ (r = "kafka" => ~Disposed)
  /\ fromConsumer[r] < MaxConsumerFailures
  /\ Inc(r)
  /\ fromConsumer' = [fromConsumer EXCEPT ![r] = @ + 1]
  /\ UNCHANGED <<failRate, request, placed, brokerUp, host, timedOut>>

-----------------------------------------------------------------------------
Next == \/ \E o \in Orders : \/ Post(o) \/ Refuse(o) \/ Handle(o) \/ RollFails(o)
                             \/ Publish(o) \/ Produce(o) \/ Written(o)
                             \/ WriteFails(o)
        \/ Stop \/ Drained \/ DrainTimeout \/ Dispose \/ Exit \/ BrokerSwitch
        \/ \E r \in Reasons : ConsumerFails(r)

Spec == Init /\ [][Next]_vars

-----------------------------------------------------------------------------
TypeOK ==
  /\ failRate \in BOOLEAN
  /\ request \in [Orders -> {"none"} \cup Open \cup Answers]
  /\ placed \subseteq Orders
  /\ metrics \in [Counters -> Nat]
  /\ fromConsumer \in [Reasons -> 0 .. MaxConsumerFailures]
  /\ brokerUp \in BOOLEAN /\ host \in HostStates /\ timedOut \in BOOLEAN

\* What the requests, and their writes, have added to OrdersFailed.
OwnFailures(r) == metrics[r] - fromConsumer[r]

\* What an answer says of the topic, at any later time too: an order that was
\* accepted is on it, one refused as invalid or by the injected failure is
\* not.  Only a 500, or a process that ends, leaves the client in doubt, and
\* each 500 for an order that is there was counted as a failed write.
AnswersMeanTopic ==
  /\ At({"202"}) \subseteq placed
  /\ At({"none", "reading", "handling", "calling", "400", "422"}) \cap placed = {}
  /\ Cardinality(At({"500"}) \cap placed) <= OwnFailures("kafka")

\* The counters account for every order in the handler and for every one that
\* left it, next to the failures of the consumer, which are all that
\* OrdersFailed holds besides; only an order that found the producer disposed
\* is missing, and there is none unless the shutdown timeout was exceeded,
\* because the producer is registered before the web server and stops after it.
MetricsBalance ==
  LET at(where) == Cardinality(At(where))
      ended == metrics["observed"] + OwnFailures("kafka")
  IN  /\ metrics["received"] = metrics["published"] + OwnFailures("processing")
                                 + at({"handling"})
      /\ metrics["observed"] = at({"202"}) /\ OwnFailures("processing") = at({"422"})
      /\ metrics["published"] >= ended + at({"calling", "writing"})
      /\ ~timedOut => metrics["published"] = ended + at({"calling", "writing"})
      /\ Disposed /\ host # "down" /\ At(Open) # {} => timedOut
=============================================================================
