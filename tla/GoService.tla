------------------------------ MODULE GoService ------------------------------
(***************************************************************************)
(* The Go order service up to the topic orders.placed: the HTTP handler of *)
(* POST /orders (server/handlers.go), the dispatcher (Dispatcher), the     *)
(* command handler its workers run (pipeline/place_order_handler.go), the  *)
(* fault injector (fault/fault.go) and the life of the process in main.go. *)
(*                                                                         *)
(* The handler answers 202 as soon as the order is queued; the order is    *)
(* written to Kafka later, by a worker, under the root context.  main      *)
(* stops the parts in this order: HTTP server, root context, dispatcher,   *)
(* producer, consumer.                                                     *)
(*                                                                         *)
(* The consumer runs in the same process with the same metrics (main.go    *)
(* makes one OrderMetrics).  What it does with a message is GoConsumer's   *)
(* subject; here it takes one step, the one that increments a counter that *)
(* Handle increments too.                                                  *)
(*                                                                         *)
(* The state and the steps of the dispatcher are those of Dispatcher, by   *)
(* INSTANCE; each action here says which of them it takes.  What is local  *)
(* to one goroutine is merged: taking a job and counting it as received,   *)
(* the end of Handle and of the worker's execute, and the return of        *)
(* Dispatch and the answer that is written then.                           *)
(***************************************************************************)
EXTENDS Integers, Sequences, FiniteSets

CONSTANTS
    Orders,         \* the orders posted, each by one request
    Workers,        \* the worker goroutines
    SlotsPerWorker, \* queue slots per worker
    NoOrder,        \* what an idle worker holds
    MaxConsumerFailures \* bound: orders that the consumer cannot write

ASSUME OrdersAssumption == IsFiniteSet(Orders)
ASSUME WorkersAssumption == IsFiniteSet(Workers)
ASSUME SlotsAssumption == SlotsPerWorker \in Nat
ASSUME NoOrderAssumption == NoOrder \notin Orders
ASSUME BoundAssumption == MaxConsumerFailures \in Nat

VARIABLES
    jobQueue, queueClosed, shutdownClosed, shutdownOnce, caller, requestDone,
    rootDone, holding, exited, executed, stopper, \* as in Dispatcher
    fault,          \* the fault configuration: is a delay set, is a fail rate set
    request,        \* state of each request, or the answer it got
    step,           \* where each worker is in PlaceOrderHandler.Handle
    metrics,        \* the counters that Handle increments, in metrics/metrics.go
    placed,         \* orders with at least one message on orders.placed
    brokerUp,       \* the Kafka broker answers
    producerClosed, \* producer.Close has run
    httpTimedOut,   \* srv.Shutdown gave up on its requests
    main,           \* where run() is in main.go
    consumerFailed, \* history: the consumer's share of metrics["failedProcessing"]
    dropped         \* history: orders whose Handle returned without counting

D == INSTANCE Dispatcher WITH
        Jobs <- Orders, Stoppers <- {"main"}, NoJob <- NoOrder

poolVars == <<jobQueue, queueClosed, shutdownClosed, shutdownOnce, caller,
              requestDone, rootDone, holding, exited, executed, stopper>>
vars == <<jobQueue, queueClosed, shutdownClosed, shutdownOnce, caller,
          requestDone, rootDone, holding, exited, executed, stopper,
          fault, request, step, metrics, placed, brokerUp, producerClosed,
          httpTimedOut, main, consumerFailed, dropped>>

history == <<consumerFailed, dropped>>

Answers == {"202", "400", "503", "500", "aborted"}
Open == {"reading", "handling"}
HandleSteps == {"none", "sleep", "rng", "produce"}
Counters == {"received", "published", "observed", "failedProcessing", "failedKafka"}
MainStates == {"serving", "httpShutdown", "cancel", "drain", "closeProducer",
               "closeConsumer", "exited", "crashed"}

TypeOK ==
    /\ D!TypeOK
    /\ fault \in [delay : BOOLEAN, fail : BOOLEAN]
    /\ request \in [Orders -> {"none"} \cup Open \cup Answers]
    /\ step \in [Workers -> HandleSteps]
    /\ metrics \in [Counters -> 0 .. Cardinality(Orders) + MaxConsumerFailures]
    /\ placed \in SUBSET Orders
    /\ brokerUp \in BOOLEAN
    /\ producerClosed \in BOOLEAN
    /\ httpTimedOut \in BOOLEAN
    /\ main \in MainStates
    /\ consumerFailed \in 0 .. MaxConsumerFailures
    /\ dropped \in 0 .. Cardinality(Orders)

Init ==
    /\ D!Init
    /\ fault \in [delay : BOOLEAN, fail : BOOLEAN]
    /\ request = [o \in Orders |-> "none"]
    /\ step = [w \in Workers |-> "none"]
    /\ metrics = [c \in Counters |-> 0]
    /\ placed = {}
    /\ brokerUp = TRUE
    /\ producerClosed = FALSE
    /\ httpTimedOut = FALSE
    /\ main = "serving"
    /\ consumerFailed = 0
    /\ dropped = 0

Alive == main \notin {"exited", "crashed"}
Inc(c) == metrics' = [metrics EXCEPT ![c] = @ + 1]

-----------------------------------------------------------------------------
(* Faulty variants of actions defined below, one for each property.        *)

(* The request's context is looked at again after the queue has the job.   *)
(* RefusedNeverPlaced *)
CallDispatchThenCheck(o) ==
    /\ Alive
    /\ request[o] = "handling"
    /\ D!Dispatch(o)
    /\ request' = [request EXCEPT ![o] =
                      CASE caller'[o] = "checked" -> "handling"
                        [] caller'[o] = "nil" /\ o \notin requestDone -> "202"
                        [] OTHER -> "500"]
    /\ UNCHANGED <<fault, step, metrics, placed, brokerUp, producerClosed, httpTimedOut,
                   main, history>>

(* main does not call srv.Shutdown.  ClosedOnlyAfterTimeout *)
SignalSkipsHttp ==
    /\ main = "serving"
    /\ main' = "cancel"
    /\ UNCHANGED <<fault, request, step, metrics, placed, brokerUp, producerClosed,
                   httpTimedOut, history>>
    /\ UNCHANGED poolVars

(* main does not call dispatcher.Shutdown.  ProducerOutlivesJobs *)
CancelSkipsDrain ==
    /\ main = "cancel"
    /\ D!CancelRoot
    /\ main' = "closeProducer"
    /\ UNCHANGED <<fault, request, step, metrics, placed, brokerUp, producerClosed,
                   httpTimedOut, history>>

(* An injected failure is not counted.  MetricsBalance *)
RollFailsUncounted(w) ==
    /\ Alive
    /\ step[w] = "rng"
    /\ D!WorkerFinish(w)
    /\ step' = [step EXCEPT ![w] = "none"]
    /\ UNCHANGED <<fault, request, metrics, placed, brokerUp, producerClosed,
                   httpTimedOut, main, history>>

(* The duration is observed before the error is looked at.                 *)
(* CountersMeanTopic *)
ProduceFailsObserved(w) ==
    /\ Alive
    /\ step[w] = "produce"
    /\ D!WorkerFinish(w)
    /\ step' = [step EXCEPT ![w] = "none"]
    /\ Inc("observed")
    /\ UNCHANGED <<fault, request, placed, brokerUp, producerClosed, httpTimedOut, main,
                   history>>

(* Workers leave at the signal.  ImplementsDispatcher *)
LeavePoolAtSignal(w) ==
    /\ main = "httpShutdown"
    /\ w \notin exited /\ holding[w] = NoOrder
    /\ exited' = exited \cup {w}
    /\ UNCHANGED <<jobQueue, queueClosed, shutdownClosed, shutdownOnce, caller,
                   requestDone, rootDone, holding, executed, stopper>>
    /\ UNCHANGED <<fault, request, step, metrics, placed, brokerUp, producerClosed,
                   httpTimedOut, main, history>>

(* Produce has no bound on its attempts.  AcceptedIsDecided *)
ProduceRetriesForever(w) ==
    /\ Alive
    /\ step[w] = "produce"
    /\ UNCHANGED vars

(* main treats a drain that timed out as not finished.  ShutdownEnds *)
DrainMustSucceed ==
    /\ main = "drain"
    /\ stopper["main"] = "nil"
    /\ main' = "closeProducer"
    /\ UNCHANGED <<fault, request, step, metrics, placed, brokerUp, producerClosed,
                   httpTimedOut, history>>
    /\ UNCHANGED poolVars

-----------------------------------------------------------------------------
(* handlePlaceOrder, for the request that posts order o.                   *)

(* Only these change in a step of a request. *)
RequestFrame == UNCHANGED <<fault, step, metrics, placed, brokerUp, producerClosed,
                            httpTimedOut, main, history>>

(* A connection is accepted while the listener is open.  From here on it   *)
(* keeps srv.Shutdown waiting, whether or not its request has been read.   *)
Arrive(o) ==
    /\ main = "serving"
    /\ request[o] = "none"
    /\ request' = [request EXCEPT ![o] = "reading"]
    /\ UNCHANGED poolVars /\ RequestFrame

(* The body is decoded and the order validated; either may fail. *)
DecodeAndValidate(o) ==
    /\ Alive
    /\ request[o] = "reading"
    /\ \E r \in {"handling", "400"} : request' = [request EXCEPT ![o] = r]
    /\ UNCHANGED poolVars /\ RequestFrame

(* The answer follows the error; net/http recovers a panic of the handler  *)
(* and drops the connection.                                               *)
Answer(result) ==
    CASE result = "checked" -> "handling"
      [] result = "nil" -> "202"
      [] result = "full" -> "503"
      [] result \in {"closed", "cancelled"} -> "500"
      [] result = "panicked" -> "aborted"

(* dispatcher.Dispatch(r.Context(), ...), and the answer once it returns.  *)
CallDispatch(o) ==
    /\ Alive
    /\ request[o] = "handling"
    /\ D!Dispatch(o)
    /\ request' = [request EXCEPT ![o] = Answer(caller'[o])]
    /\ RequestFrame

(* The client disconnects: the request's context is done. *)
Disconnect(o) ==
    /\ Alive
    /\ request[o] = "handling"
    /\ D!CancelRequest(o)
    /\ UNCHANGED request /\ RequestFrame

Request(o) ==
    DecodeAndValidate(o) \/ CallDispatch(o)

-----------------------------------------------------------------------------
(* A worker goroutine running PlaceOrderHandler.Handle(appCtx, ...), where *)
(* appCtx is the root context.                                             *)

WorkerFrame == UNCHANGED <<fault, request, brokerUp, producerClosed, httpTimedOut,
                           consumerFailed>>

(* The worker takes a job, and Handle begins: OrdersReceived.Inc(). *)
StartOrder(w) ==
    /\ Alive
    /\ D!WorkerTake(w)
    /\ step' = [step EXCEPT ![w] = "sleep"]
    /\ Inc("received")
    /\ UNCHANGED <<placed, main, dropped>> /\ WorkerFrame

(* fault.Sleep returns ctx.Err(): Handle returns without counting. *)
SleepCancelled(w) ==
    /\ Alive
    /\ step[w] = "sleep"
    /\ fault.delay /\ rootDone
    /\ D!WorkerFinish(w)
    /\ step' = [step EXCEPT ![w] = "none"]
    /\ dropped' = dropped + 1
    /\ UNCHANGED <<metrics, placed, main>> /\ WorkerFrame

(* fault.Sleep returns nil -- no delay is set, or the timer fires -- and   *)
(* fault.ShouldFail() is false at once without a fail rate.  The event     *)
(* handler runs in process, counts the event and cannot fail.              *)
NoFault(w) ==
    /\ Alive
    /\ step[w] = "sleep"
    /\ ~fault.fail
    /\ step' = [step EXCEPT ![w] = "produce"]
    /\ Inc("published")
    /\ UNCHANGED <<placed, main, dropped>> /\ UNCHANGED poolVars /\ WorkerFrame

(* With a fail rate it calls f.rng.Float64(), which takes no lock. *)
EnterRng(w) ==
    /\ Alive
    /\ step[w] = "sleep"
    /\ fault.fail
    /\ step' = [step EXCEPT ![w] = "rng"]
    /\ UNCHANGED <<metrics, placed, main, dropped>> /\ UNCHANGED poolVars /\ WorkerFrame

RollPasses(w) ==
    /\ Alive
    /\ step[w] = "rng"
    /\ step' = [step EXCEPT ![w] = "produce"]
    /\ Inc("published")
    /\ UNCHANGED <<placed, main, dropped>> /\ UNCHANGED poolVars /\ WorkerFrame

RollFails(w) ==
    /\ Alive
    /\ step[w] = "rng"
    /\ D!WorkerFinish(w)
    /\ step' = [step EXCEPT ![w] = "none"]
    /\ Inc("failedProcessing")
    /\ UNCHANGED <<placed, main, dropped>> /\ WorkerFrame

(* Two goroutines inside the generator race on its indices; one of the     *)
(* outcomes is an index out of range, a panic no worker recovers.          *)
RngRace(w) ==
    /\ Alive
    /\ step[w] = "rng"
    /\ \E v \in Workers \ {w} : step[v] = "rng"
    /\ main' = "crashed"
    /\ UNCHANGED <<step, metrics, placed, dropped>> /\ UNCHANGED poolVars /\ WorkerFrame

(* producer.Produce returns nil: every replica acknowledged the message. *)
ProduceOk(w) ==
    /\ Alive
    /\ step[w] = "produce"
    /\ brokerUp /\ ~producerClosed
    /\ placed' = placed \cup {holding[w]}
    /\ D!WorkerFinish(w)
    /\ step' = [step EXCEPT ![w] = "none"]
    /\ Inc("observed")
    /\ UNCHANGED <<main, dropped>> /\ WorkerFrame

(* It returns an error: attempts exhausted, root context done, or writer   *)
(* closed.  An acknowledgement lost on the way leaves the message written. *)
ProduceFails(w) ==
    /\ Alive
    /\ step[w] = "produce"
    /\ \/ placed' = placed
       \/ brokerUp /\ ~producerClosed /\ placed' = placed \cup {holding[w]}
    /\ D!WorkerFinish(w)
    /\ step' = [step EXCEPT ![w] = "none"]
    /\ Inc("failedKafka")
    /\ UNCHANGED <<main, dropped>> /\ WorkerFrame

(* An idle worker returns. *)
LeavePool(w) ==
    /\ Alive
    /\ D!WorkerSeesClosed(w) \/ D!WorkerCancelled(w)
    /\ UNCHANGED <<step, metrics, placed, main, dropped>> /\ WorkerFrame

Worker(w) ==
    \/ StartOrder(w) \/ SleepCancelled(w) \/ NoFault(w)
    \/ EnterRng(w) \/ RollPasses(w) \/ RollFails(w)
    \/ ProduceOk(w) \/ ProduceFails(w) \/ LeavePool(w)

-----------------------------------------------------------------------------
(* run() in main.go after the signal.                                      *)

MainFrame == UNCHANGED <<fault, request, step, metrics, placed, brokerUp, history>>

Signal ==
    /\ main = "serving"
    /\ main' = "httpShutdown"
    /\ UNCHANGED <<producerClosed, httpTimedOut>> /\ UNCHANGED poolVars /\ MainFrame

(* 1. srv.Shutdown returns: no request is open any more ... *)
HttpDrained ==
    /\ main = "httpShutdown"
    /\ \A o \in Orders : request[o] \notin Open
    /\ main' = "cancel"
    /\ UNCHANGED <<producerClosed, httpTimedOut>> /\ UNCHANGED poolVars /\ MainFrame

(* ... or its five seconds are over; open requests go on.  The server only *)
(* polls, so this may happen although the last request has just ended.     *)
HttpTimeout ==
    /\ main = "httpShutdown"
    /\ httpTimedOut' = TRUE
    /\ main' = "cancel"
    /\ UNCHANGED producerClosed /\ UNCHANGED poolVars /\ MainFrame

(* 2. cancel(). *)
Cancel ==
    /\ main = "cancel"
    /\ D!CancelRoot
    /\ main' = "drain"
    /\ UNCHANGED <<producerClosed, httpTimedOut>> /\ MainFrame

(* 3. dispatcher.Shutdown(drainCtx); its error is only logged. *)
Drain ==
    /\ main = "drain"
    /\ D!Shutdown("main")
    /\ UNCHANGED <<main, producerClosed, httpTimedOut>> /\ MainFrame

DrainReturns ==
    /\ main = "drain"
    /\ stopper["main"] \in {"nil", "timeout"}
    /\ main' = "closeProducer"
    /\ UNCHANGED <<producerClosed, httpTimedOut>> /\ UNCHANGED poolVars /\ MainFrame

(* 4. producer.Close(), consumer.Close(), and the process ends. *)
CloseProducer ==
    /\ main = "closeProducer"
    /\ producerClosed' = TRUE
    /\ main' = "closeConsumer"
    /\ UNCHANGED httpTimedOut /\ UNCHANGED poolVars /\ MainFrame

Exit ==
    /\ main = "closeConsumer"
    /\ main' = "exited"
    /\ UNCHANGED <<producerClosed, httpTimedOut>> /\ UNCHANGED poolVars /\ MainFrame

MainStep ==
    \/ HttpDrained \/ Cancel \/ Drain \/ DrainReturns \/ CloseProducer \/ Exit

(* The broker stops and comes back. *)
BrokerSwitch ==
    /\ Alive
    /\ brokerUp' = ~brokerUp
    /\ UNCHANGED <<fault, request, step, metrics, placed, producerClosed,
                   httpTimedOut, main, history>>
    /\ UNCHANGED poolVars

(* The consumer cannot write an order to orders.processed, which may be an *)
(* order of an earlier process.  main never waits for its goroutine, so    *)
(* this can happen in every stage of the shutdown.                         *)
ConsumerFails ==
    /\ Alive
    /\ consumerFailed < MaxConsumerFailures
    /\ Inc("failedProcessing")
    /\ consumerFailed' = consumerFailed + 1
    /\ UNCHANGED <<fault, request, step, placed, brokerUp, producerClosed, httpTimedOut,
                   main, dropped>>
    /\ UNCHANGED poolVars

Next ==
    \/ \E o \in Orders : Arrive(o) \/ Request(o) \/ Disconnect(o)
    \/ \E w \in Workers : Worker(w) \/ RngRace(w)
    \/ MainStep \/ Signal \/ HttpTimeout
    \/ BrokerSwitch \/ ConsumerFails

Spec == Init /\ [][Next]_vars

(* Goroutines that can make progress are scheduled; reading a body is      *)
(* bounded by ReadTimeout, sleeping by its timer, writing by MaxAttempts.  *)
(* Nothing is assumed of clients, of signals, of deadlines or of the       *)
(* broker.                                                                 *)
FairSpec ==
    /\ Spec
    /\ \A o \in Orders : WF_vars(Request(o))
    /\ \A w \in Workers : WF_vars(Worker(w))
    /\ WF_vars(MainStep)

-----------------------------------------------------------------------------
(* Safety.                                                                 *)

(* An order whose request was answered with an error, or not at all, is    *)
(* never run and never reaches orders.placed, at any later time: the       *)
(* client may post it again (handlers.go, the error branches; dispatcher   *)
(* Dispatch, its error returns).                                           *)
RefusedNeverPlaced ==
    \A o \in Orders : request[o] \in Answers \ {"202"} =>
        o \notin placed \cup executed \cup D!Running

(* main stops the HTTP server before the dispatcher so that no handler     *)
(* meets a closed dispatcher: an answer 500 for it, or the panic of a send *)
(* on the closed queue, happens only when srv.Shutdown timed out.          *)
ClosedOnlyAfterTimeout ==
    (\E o \in Orders : caller[o] \in {"closed", "panicked"}) => httpTimedOut

(* main closes the producer after the drain so that no job meets a closed  *)
(* writer: it happens only when the drain timed out.                       *)
ProducerOutlivesJobs ==
    producerClosed /\ D!Running # {} => stopper["main"] = "timeout"

(* Handle's counters add up at every moment, whichever way a job ends and  *)
(* whatever the consumer adds to orders_failed_total{reason="processing"}: *)
(* each job that started is counted as received once, each event is        *)
(* matched by one write in progress or done, and a received order is in    *)
(* Handle, became an event, or was counted by Handle as failed.  The only  *)
(* ones that no outcome counter has are those whose injected delay was cut *)
(* short, and there are none before the root context is cancelled.         *)
MetricsBalance ==
    LET at(S) == Cardinality({w \in Workers : step[w] \in S})
        failedInHandle == metrics["failedProcessing"] - consumerFailed
    IN  /\ \A w \in Workers : step[w] = "none" <=> holding[w] = NoOrder
        /\ metrics["received"] = Cardinality(D!Running \cup executed)
        /\ metrics["published"] = metrics["observed"] + metrics["failedKafka"]
                                     + at({"produce"})
        /\ failedInHandle >= 0
        /\ metrics["received"] = metrics["published"] + failedInHandle + dropped
                                     + at({"sleep", "rng"})
        /\ dropped > 0 => rootDone

(* What the counters say about the topic: each order counted as a success  *)
(* is on orders.placed, and what is there beyond them was counted as a     *)
(* Kafka failure (a lost acknowledgement).                                 *)
CountersMeanTopic ==
    /\ metrics["observed"] <= Cardinality(placed)
    /\ Cardinality(placed) <= metrics["observed"] + metrics["failedKafka"]

(* The service uses the dispatcher as its own specification allows, so all *)
(* that is proved of Dispatcher holds inside the service.                  *)
ImplementsDispatcher == D!Spec

-----------------------------------------------------------------------------
(* Liveness.                                                               *)

(* An order answered with 202 is decided, whatever the broker does: its    *)
(* job ends, unless the service is being stopped or has crashed.           *)
AcceptedIsDecided ==
    \A o \in Orders : request[o] = "202" ~> (o \in executed \/ rootDone \/ ~Alive)

(* A signal ends the process: no part waits for another one forever.       *)
ShutdownEnds == main = "httpShutdown" ~> ~Alive

-----------------------------------------------------------------------------
(* Statements of the repository's comments and documents.                  *)

(* main.go:86 "3. Drain in-flight order jobs (max 15 s)": when the drain   *)
(* succeeds, the orders that were accepted have been run.                  *)
DrainCompletes == stopper["main"] = "nil" => D!Accepted = executed

=============================================================================
