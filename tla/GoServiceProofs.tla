--------------------------- MODULE GoServiceProofs ---------------------------
(***************************************************************************)
(* What is proved of the Go service for any finite sets of orders and of   *)
(* workers and any length of the queue: that it uses the dispatcher as the *)
(* specification of the dispatcher allows, so that what DispatcherProofs   *)
(* proves of it holds here too; and its own safety properties, which rest  *)
(* on that.                                                                *)
(***************************************************************************)
EXTENDS GoService, FiniteSetTheorems, TLAPS

\* The results about the dispatcher, for the dispatcher in the service.
P == INSTANCE DispatcherProofs WITH
        Jobs <- Orders, Stoppers <- {"main"}, NoJob <- NoOrder

-----------------------------------------------------------------------------
(* D and P are two instances of the same definitions.                      *)

LEMMA SameFinite ==
  ASSUME NEW S
  PROVE  P!IsFiniteSet(S) <=> IsFiniteSet(S)
  BY DEF P!IsFiniteSet, IsFiniteSet

LEMMA SameCapacity == D!Capacity = P!Capacity
  BY DEF D!Capacity, P!Capacity, P!Cardinality, D!Cardinality, Cardinality

LEMMA SameInit == D!Init <=> P!Init
  BY DEF D!Init, P!Init

LEMMA SameDispatch ==
  ASSUME NEW o \in Orders
  PROVE  D!Dispatch(o) <=> P!Dispatch(o)
  <1> USE SameCapacity DEF D!callVars, P!callVars, D!chanVars, P!chanVars, D!workVars, P!workVars
  <1>1. D!CheckShutdown(o) <=> P!CheckShutdown(o)
    BY DEF D!CheckShutdown, P!CheckShutdown
  <1>2. D!Send(o) <=> P!Send(o)
    BY DEF D!Send, P!Send
  <1>3. D!SendPanics(o) <=> P!SendPanics(o)
    BY DEF D!SendPanics, P!SendPanics
  <1>4. D!SendCancelled(o) <=> P!SendCancelled(o)
    BY DEF D!SendCancelled, P!SendCancelled
  <1>5. D!SendFull(o) <=> P!SendFull(o)
    BY DEF D!SendFull, P!SendFull
  <1> QED
    BY <1>1, <1>2, <1>3, <1>4, <1>5 DEF D!Dispatch, P!Dispatch

LEMMA SameWorker ==
  ASSUME NEW w \in Workers
  PROVE  D!Worker(w) <=> P!Worker(w)
  <1> USE DEF D!callVars, P!callVars, D!chanVars, P!chanVars, D!Selecting, P!Selecting
  <1>1. D!WorkerTake(w) <=> P!WorkerTake(w)
    BY DEF D!WorkerTake, P!WorkerTake
  <1>2. D!WorkerSeesClosed(w) <=> P!WorkerSeesClosed(w)
    BY DEF D!WorkerSeesClosed, P!WorkerSeesClosed
  <1>3. D!WorkerCancelled(w) <=> P!WorkerCancelled(w)
    BY DEF D!WorkerCancelled, P!WorkerCancelled
  <1>4. D!WorkerFinish(w) <=> P!WorkerFinish(w)
    BY DEF D!WorkerFinish, P!WorkerFinish
  <1> QED
    BY <1>1, <1>2, <1>3, <1>4 DEF D!Worker, P!Worker

LEMMA SameShutdown ==
  ASSUME NEW s \in {"main"}
  PROVE  D!Shutdown(s) <=> P!Shutdown(s)
  <1> USE DEF D!callVars, P!callVars, D!chanVars, P!chanVars, D!workVars, P!workVars
  <1>1. D!BeginShutdown(s) <=> P!BeginShutdown(s)
    BY DEF D!BeginShutdown, P!BeginShutdown
  <1>2. D!CloseJobQueue(s) <=> P!CloseJobQueue(s)
    BY DEF D!CloseJobQueue, P!CloseJobQueue
  <1>3. D!JoinShutdown(s) <=> P!JoinShutdown(s)
    BY DEF D!JoinShutdown, P!JoinShutdown
  <1>4. D!DrainDone(s) <=> P!DrainDone(s)
    BY DEF D!DrainDone, P!DrainDone
  <1>5. D!DrainTimeout(s) <=> P!DrainTimeout(s)
    BY DEF D!DrainTimeout, P!DrainTimeout
  <1> QED
    BY <1>1, <1>2, <1>3, <1>4, <1>5 DEF D!Shutdown, P!Shutdown

LEMMA SameNext == [D!Next]_(D!vars) <=> [P!Next]_(P!vars)
  <1>1. D!CancelRoot <=> P!CancelRoot
    BY DEF D!CancelRoot, P!CancelRoot, D!callVars, P!callVars, D!chanVars, P!chanVars,
           D!workVars, P!workVars
  <1>2. \A o \in Orders : D!CancelRequest(o) <=> P!CancelRequest(o)
    BY DEF D!CancelRequest, P!CancelRequest, D!chanVars, P!chanVars, D!workVars, P!workVars
  <1>3. D!Next <=> P!Next
    BY <1>1, <1>2, SameDispatch, SameWorker, SameShutdown DEF D!Next, P!Next
  <1> QED
    BY <1>3 DEF D!vars, P!vars

-----------------------------------------------------------------------------
(* The service takes only steps of the dispatcher.                         *)

LEMMA PoolStutters ==
  ASSUME UNCHANGED poolVars
  PROVE  [D!Next]_(D!vars)
  BY DEF poolVars, D!vars

LEMMA PoolStep == [Next]_vars => [D!Next]_(D!vars)
  <1> SUFFICES ASSUME [Next]_vars PROVE [D!Next]_(D!vars)
    OBVIOUS
  <1>1. ASSUME NEW o \in Orders, Arrive(o) \/ DecodeAndValidate(o)
        PROVE [D!Next]_(D!vars)
    BY <1>1, PoolStutters DEF Arrive, DecodeAndValidate
  <1>2. ASSUME NEW o \in Orders, CallDispatch(o) PROVE [D!Next]_(D!vars)
    BY <1>2 DEF CallDispatch, D!Next
  <1>3. ASSUME NEW o \in Orders, Disconnect(o) PROVE [D!Next]_(D!vars)
    BY <1>3 DEF Disconnect, D!Next
  <1>4. ASSUME NEW w \in Workers,
               \/ StartOrder(w) \/ SleepCancelled(w) \/ RollFails(w)
               \/ ProduceOk(w) \/ ProduceFails(w) \/ LeavePool(w)
        PROVE [D!Next]_(D!vars)
    <2>1. D!Worker(w)
      BY <1>4 DEF StartOrder, SleepCancelled, RollFails, ProduceOk, ProduceFails, LeavePool,
                  D!Worker
    <2> QED
      BY <2>1 DEF D!Next
  <1>5. ASSUME NEW w \in Workers, NoFault(w) \/ EnterRng(w) \/ RollPasses(w) \/ RngRace(w)
        PROVE [D!Next]_(D!vars)
    BY <1>5, PoolStutters DEF NoFault, EnterRng, RollPasses, RngRace
  <1>6. CASE HttpDrained \/ DrainReturns \/ CloseProducer \/ Exit \/ Signal
             \/ HttpTimeout \/ BrokerSwitch \/ ConsumerFails
    BY <1>6, PoolStutters DEF HttpDrained, DrainReturns, CloseProducer, Exit, Signal,
                              HttpTimeout, BrokerSwitch, ConsumerFails
  <1>7. CASE Cancel
    BY <1>7 DEF Cancel, D!Next
  <1>8. CASE Drain
    BY <1>8 DEF Drain, D!Next
  <1>9. CASE UNCHANGED vars
    BY <1>9 DEF vars, D!vars
  <1> QED
    BY <1>1, <1>2, <1>3, <1>4, <1>5, <1>6, <1>7, <1>8, <1>9
       DEF Next, Request, Worker, MainStep

\* The service uses the dispatcher as its specification allows.
THEOREM UsesDispatcher == Spec => ImplementsDispatcher
  <1>1. Init => D!Init
    BY DEF Init
  <1> QED
    BY <1>1, PoolStep, PTL DEF Spec, ImplementsDispatcher, D!Spec

\* So the invariant of the dispatcher holds in the service.
LEMMA PoolInit == Init => P!IInv
  <1>1. Init => P!Init
    BY SameInit DEF Init
  <1> QED
    BY <1>1, P!IInvInit, SameFinite, WorkersAssumption, SlotsAssumption, NoOrderAssumption

LEMMA PoolKept == P!IInv /\ [Next]_vars => P!IInv'
  BY PoolStep, SameNext, P!IInvStep, SameFinite, WorkersAssumption, SlotsAssumption,
     NoOrderAssumption

\* And the service, seen from the queue of its jobs, is the abstract pool: what
\* the handler, the workers and main do around the dispatcher gives it no
\* behaviour that JobPool does not allow.
THEOREM ServiceIsAPool == Spec => P!ImplementsJobPool
  <1>1. Init => P!Init
    BY SameInit DEF Init
  <1>2. [Next]_vars => [P!Next]_(P!vars)
    BY PoolStep, SameNext
  <1>3. P!IsFiniteSet(Workers) /\ SlotsPerWorker \in Nat /\ NoOrder \notin Orders
    BY SameFinite, WorkersAssumption, SlotsAssumption, NoOrderAssumption
  <1> QED
    BY <1>1, <1>2, <1>3, P!Refinement, PTL DEF Spec, P!Spec

-----------------------------------------------------------------------------
(* What the steps of the dispatcher do and leave alone.                    *)

\* What the invariant of the dispatcher says of the jobs, in plain terms.
JobFacts ==
    /\ caller \in [Orders -> P!CallStates]
    /\ holding \in [Workers -> Orders \cup {NoOrder}]
    /\ executed \subseteq Orders
    /\ stopper \in [{"main"} -> P!StopStates]
    /\ stopper["main"] = "nil" => exited = Workers
    /\ \A o \in executed : caller[o] = "nil"
    /\ \A w \in Workers : holding[w] # NoOrder =>
          /\ w \notin exited
          /\ caller[holding[w]] = "nil"
          /\ holding[w] \notin executed
          /\ \A v \in Workers : holding[v] = holding[w] => v = w
    /\ jobQueue # <<>> =>
          /\ Head(jobQueue) \in Orders \ executed
          /\ \A w \in Workers : holding[w] # Head(jobQueue)

LEMMA PoolFacts == P!IInv => JobFacts
  <1> SUFFICES ASSUME P!IInv PROVE JobFacts
    OBVIOUS
  <1>1. P!TypeOK /\ P!QueueInv /\ P!HoldingInv /\ P!ResultInv /\ P!OnceInv
    BY DEF P!IInv
  <1>2. jobQueue # <<>> =>
          /\ Head(jobQueue) \in Orders \ executed
          /\ \A w \in Workers : holding[w] # Head(jobQueue)
    <2> SUFFICES ASSUME jobQueue # <<>>
                 PROVE  /\ Head(jobQueue) \in Orders \ executed
                        /\ \A w \in Workers : holding[w] # Head(jobQueue)
      OBVIOUS
    <2>1. jobQueue \in Seq(Orders)
      BY <1>1 DEF P!TypeOK
    <2>2. 1 \in DOMAIN jobQueue /\ Head(jobQueue) = jobQueue[1] /\ jobQueue[1] \in Orders
      BY <2>1
    <2> QED
      BY <1>1, <2>2 DEF P!QueueInv
  <1> QED
    BY <1>1, <1>2 DEF JobFacts, P!TypeOK, P!HoldingInv, P!ResultInv, P!OnceInv

LEMMA DispatchEffect ==
  ASSUME JobFacts, NEW o \in Orders, D!Dispatch(o)
  PROVE  /\ UNCHANGED <<queueClosed, shutdownClosed, stopper, holding, exited, executed, rootDone>>
         /\ caller[o] \in {"idle", "checked"}
         /\ caller'[o] \in P!CallStates \ {"idle"}
         /\ \A q \in Orders \ {o} : caller'[q] = caller[q]
         /\ caller'[o] \in {"closed", "panicked"} => shutdownClosed \/ queueClosed
  BY DEF JobFacts, D!Dispatch, D!CheckShutdown, D!Send, D!SendPanics, D!SendCancelled, D!SendFull,
         D!chanVars, D!workVars, P!CallStates, P!Refusals

LEMMA FinishEffect ==
  ASSUME JobFacts, NEW w \in Workers, D!WorkerFinish(w)
  PROVE  /\ UNCHANGED <<queueClosed, shutdownClosed, stopper, exited, caller, rootDone>>
         /\ holding[w] \in Orders /\ executed' = executed \cup {holding[w]}
         /\ holding' = [holding EXCEPT ![w] = NoOrder]
  BY DEF JobFacts, D!WorkerFinish, D!chanVars, D!callVars

LEMMA TakeEffect ==
  ASSUME JobFacts, NEW w \in Workers, D!WorkerTake(w)
  PROVE  /\ UNCHANGED <<queueClosed, shutdownClosed, stopper, exited, caller, rootDone, executed>>
         /\ holding[w] = NoOrder /\ Head(jobQueue) \in Orders \ executed
         /\ \A v \in Workers : holding[v] # Head(jobQueue)
         /\ holding' = [holding EXCEPT ![w] = Head(jobQueue)]
  BY DEF JobFacts, D!WorkerTake, D!Selecting, D!callVars

LEMMA LeaveEffect ==
  ASSUME NEW w \in Workers, D!WorkerSeesClosed(w) \/ D!WorkerCancelled(w)
  PROVE  UNCHANGED <<queueClosed, shutdownClosed, stopper, caller, rootDone, executed, holding>>
  BY DEF D!WorkerSeesClosed, D!WorkerCancelled, D!chanVars, D!callVars

LEMMA ShutdownEffect ==
  ASSUME JobFacts, D!Shutdown("main")
  PROVE  /\ UNCHANGED <<caller, rootDone, executed, holding>>
         /\ stopper'["main"] # "idle"
  BY DEF JobFacts, D!Shutdown, D!BeginShutdown, D!CloseJobQueue, D!JoinShutdown, D!DrainDone,
         D!DrainTimeout, D!chanVars, D!callVars, D!workVars

LEMMA CancelEffect ==
  ASSUME D!CancelRoot \/ \E o \in Orders : D!CancelRequest(o)
  PROVE  /\ UNCHANGED <<queueClosed, shutdownClosed, stopper, caller, executed, holding, exited>>
         /\ rootDone => rootDone'
  BY DEF D!CancelRoot, D!CancelRequest, D!chanVars, D!callVars, D!workVars

-----------------------------------------------------------------------------
(* Types of the service's own variables; the bound of the counters follows *)
(* from the balance, below.                                                *)

Typed ==
    /\ fault \in [delay : BOOLEAN, fail : BOOLEAN]
    /\ request \in [Orders -> {"none"} \cup Open \cup Answers]
    /\ step \in [Workers -> HandleSteps]
    /\ metrics \in [Counters -> Nat]
    /\ placed \in SUBSET Orders
    /\ brokerUp \in BOOLEAN
    /\ producerClosed \in BOOLEAN
    /\ httpTimedOut \in BOOLEAN
    /\ main \in MainStates
    /\ consumerFailed \in 0 .. MaxConsumerFailures
    /\ dropped \in Nat

LEMMA AnswerTyped ==
  ASSUME NEW r \in P!CallStates \ {"idle"}
  PROVE  /\ Answer(r) \in {"handling", "202", "503", "500", "aborted"}
         /\ Answer(r) = "handling" <=> r = "checked"
         /\ Answer(r) = "202" <=> r = "nil"
  BY DEF Answer, P!CallStates, P!Refusals

LEMMA TypedInit == Init => Typed
  <1> SUFFICES ASSUME Init PROVE Typed
    OBVIOUS
  <1> USE DEF Init
  <1>1. request \in [Orders -> {"none"} \cup Open \cup Answers]
    OBVIOUS
  <1>2. step \in [Workers -> HandleSteps]
    BY DEF HandleSteps
  <1>3. metrics \in [Counters -> Nat]
    OBVIOUS
  <1>4. main \in MainStates
    BY DEF MainStates
  <1> QED
    <2>1. consumerFailed \in 0 .. MaxConsumerFailures /\ dropped \in Nat
      BY BoundAssumption
    <2> QED
      BY <1>1, <1>2, <1>3, <1>4, <2>1 DEF Typed

LEMMA TypedKept == Typed /\ JobFacts /\ [Next]_vars => Typed'
  <1> SUFFICES ASSUME Typed, JobFacts, [Next]_vars PROVE Typed'
    OBVIOUS
  <1> USE DEF Typed, Open, Answers, HandleSteps, Counters, MainStates, Inc,
              RequestFrame, WorkerFrame, MainFrame, history
  <1>1. ASSUME NEW o \in Orders, Arrive(o) \/ DecodeAndValidate(o) \/ Disconnect(o)
        PROVE Typed'
    BY <1>1 DEF Arrive, DecodeAndValidate, Disconnect
  <1>2. ASSUME NEW o \in Orders, CallDispatch(o) PROVE Typed'
    <2>1. Answer(caller'[o]) \in {"handling", "202", "503", "500", "aborted"}
      BY <1>2, DispatchEffect, AnswerTyped DEF CallDispatch
    <2> QED
      BY <1>2, <2>1 DEF CallDispatch
  <1>3. ASSUME NEW w \in Workers, StartOrder(w) \/ SleepCancelled(w) \/ NoFault(w) \/ EnterRng(w)
        PROVE Typed'
    BY <1>3 DEF StartOrder, SleepCancelled, NoFault, EnterRng
  <1>4. ASSUME NEW w \in Workers, RollPasses(w) \/ RollFails(w) \/ RngRace(w) \/ LeavePool(w)
        PROVE Typed'
    BY <1>4 DEF RollPasses, RollFails, RngRace, LeavePool
  <1>5. ASSUME NEW w \in Workers, ProduceOk(w) \/ ProduceFails(w) PROVE Typed'
    <2>1. holding[w] \in Orders
      BY <1>5, FinishEffect DEF ProduceOk, ProduceFails
    <2> QED
      BY <1>5, <2>1 DEF ProduceOk, ProduceFails
  <1>6. CASE HttpDrained \/ Cancel \/ Drain \/ DrainReturns \/ CloseProducer \/ Exit
             \/ Signal \/ HttpTimeout
    BY <1>6 DEF HttpDrained, Cancel, Drain, DrainReturns, CloseProducer, Exit, Signal, HttpTimeout
  <1>7. CASE BrokerSwitch \/ UNCHANGED vars
    BY <1>7 DEF BrokerSwitch, vars
  <1>8. CASE ConsumerFails
    BY <1>8, BoundAssumption DEF ConsumerFails
  <1> QED
    BY <1>1, <1>2, <1>3, <1>4, <1>5, <1>6, <1>7, <1>8 DEF Next, Request, Worker, MainStep

-----------------------------------------------------------------------------
(* The shutdown and the requests.                                          *)

\* How far main is, and what that says of the dispatcher and the producer.
Stages ==
    /\ main \in {"serving", "httpShutdown", "cancel"} => stopper["main"] = "idle"
    /\ stopper["main"] = "idle" => ~shutdownClosed /\ ~queueClosed
    /\ main \in {"closeProducer", "closeConsumer"} => stopper["main"] \in {"nil", "timeout"}
    /\ producerClosed => /\ main \in {"closeConsumer", "exited", "crashed"}
                         /\ stopper["main"] \in {"nil", "timeout"}

\* Where a request is, and where its call of Dispatch.
Requests ==
    \A o \in Orders :
        /\ request[o] \in {"none", "reading", "400"} => caller[o] = "idle"
        /\ request[o] = "handling" => caller[o] \in {"idle", "checked"}
        /\ caller[o] = "nil" <=> request[o] = "202"

\* Past the HTTP server a request is open only after a timeout.
Late ==
    \A o \in Orders :
        /\ (/\ request[o] \in Open
            /\ main \in MainStates \ {"serving", "httpShutdown", "exited", "crashed"})
             => httpTimedOut
        /\ caller[o] \in {"closed", "panicked"} => httpTimedOut

LEMMA StagesInit == Init => Stages /\ Requests /\ Late
  BY DEF Init, D!Init, Stages, Requests, Late

LEMMA StagesKept == Typed /\ JobFacts /\ Stages /\ [Next]_vars => Stages'
  <1> SUFFICES ASSUME Typed, JobFacts, Stages, [Next]_vars PROVE Stages'
    OBVIOUS
  <1> USE DEF Stages
  <1>1. ASSUME UNCHANGED <<main, stopper, shutdownClosed, queueClosed, producerClosed>>
        PROVE Stages'
    BY <1>1
  <1>2. ASSUME NEW o \in Orders, Arrive(o) \/ DecodeAndValidate(o)
        PROVE Stages'
    BY <1>1, <1>2 DEF Arrive, DecodeAndValidate, RequestFrame, poolVars
  <1>3. ASSUME NEW o \in Orders, CallDispatch(o) \/ Disconnect(o) PROVE Stages'
    BY <1>1, <1>3, DispatchEffect, CancelEffect DEF CallDispatch, Disconnect, RequestFrame
  <1>4. ASSUME NEW w \in Workers,
               SleepCancelled(w) \/ RollFails(w) \/ ProduceOk(w) \/ ProduceFails(w)
        PROVE Stages'
    BY <1>1, <1>4, FinishEffect DEF SleepCancelled, RollFails, ProduceOk, ProduceFails, WorkerFrame
  <1>5. ASSUME NEW w \in Workers,
               StartOrder(w) \/ NoFault(w) \/ EnterRng(w) \/ RollPasses(w) \/ LeavePool(w)
        PROVE Stages'
    BY <1>1, <1>5, TakeEffect, LeaveEffect
       DEF StartOrder, NoFault, EnterRng, RollPasses, LeavePool, WorkerFrame, poolVars
  <1>6. ASSUME NEW w \in Workers, RngRace(w) PROVE Stages'
    BY <1>6 DEF RngRace, WorkerFrame, poolVars
  <1>7. CASE HttpDrained \/ DrainReturns \/ CloseProducer \/ Exit \/ Signal \/ HttpTimeout
    BY <1>7 DEF HttpDrained, DrainReturns, CloseProducer, Exit, Signal, HttpTimeout, poolVars
  <1>8. CASE Cancel
    BY <1>8, CancelEffect DEF Cancel
  <1>9. CASE Drain
    BY <1>9, ShutdownEffect DEF Drain
  <1>10. CASE BrokerSwitch \/ ConsumerFails \/ UNCHANGED vars
    BY <1>1, <1>10 DEF BrokerSwitch, ConsumerFails, vars, poolVars
  <1> QED
    BY <1>2, <1>3, <1>4, <1>5, <1>6, <1>7, <1>8, <1>9, <1>10
       DEF Next, Request, Worker, MainStep

\* The steps that neither move a request nor call Dispatch.
LEMMA Others ==
  ASSUME JobFacts, [Next]_vars
  PROVE  \/ UNCHANGED <<request, caller>>
         \/ \E o \in Orders : Arrive(o) \/ DecodeAndValidate(o) \/ CallDispatch(o)
  <1>1. ASSUME NEW o \in Orders, Disconnect(o) PROVE UNCHANGED <<request, caller>>
    BY <1>1, CancelEffect DEF Disconnect
  <1>2. ASSUME NEW w \in Workers, Worker(w) \/ RngRace(w) PROVE UNCHANGED <<request, caller>>
    BY <1>2, FinishEffect, TakeEffect, LeaveEffect
       DEF Worker, StartOrder, SleepCancelled, NoFault, EnterRng, RollPasses, RollFails,
           ProduceOk, ProduceFails, LeavePool, RngRace, WorkerFrame, poolVars
  <1>3. CASE MainStep \/ Signal \/ HttpTimeout \/ BrokerSwitch \/ ConsumerFails \/ UNCHANGED vars
    BY <1>3, ShutdownEffect, CancelEffect
       DEF MainStep, HttpDrained, Cancel, Drain, DrainReturns, CloseProducer, Exit, Signal,
           HttpTimeout, BrokerSwitch, ConsumerFails, MainFrame, vars, poolVars
  <1> QED
    BY <1>1, <1>2, <1>3 DEF Next, Request

LEMMA RequestsKept == Typed /\ JobFacts /\ Requests /\ [Next]_vars => Requests'
  <1> SUFFICES ASSUME Typed, JobFacts, Requests, [Next]_vars PROVE Requests'
    OBVIOUS
  <1>1. CASE UNCHANGED <<request, caller>>
    BY <1>1 DEF Requests
  <1>2. ASSUME NEW o \in Orders, Arrive(o) \/ DecodeAndValidate(o) PROVE Requests'
    <2>1. /\ request[o] \in {"none", "reading"}
          /\ request'[o] \in {"reading", "handling", "400"}
          /\ \A q \in Orders \ {o} : request'[q] = request[q]
      BY <1>2 DEF Arrive, DecodeAndValidate, Typed
    <2>2. caller' = caller
      BY <1>2 DEF Arrive, DecodeAndValidate, poolVars
    <2> QED
      BY <2>1, <2>2 DEF Requests
  <1>3. ASSUME NEW o \in Orders, CallDispatch(o) PROVE Requests'
    <2>1. /\ caller'[o] \in P!CallStates \ {"idle"}
          /\ \A q \in Orders \ {o} : caller'[q] = caller[q]
      BY <1>3, DispatchEffect DEF CallDispatch
    <2>2. /\ request'[o] = Answer(caller'[o])
          /\ \A q \in Orders \ {o} : request'[q] = request[q]
      BY <1>3 DEF CallDispatch, Typed
    <2> QED
      BY <2>1, <2>2, AnswerTyped DEF Requests
  <1> QED
    BY <1>1, <1>2, <1>3, Others

\* main does not go back, and a timeout of the HTTP server is not forgotten.
LEMMA MainGoesOn ==
  ASSUME Typed, [Next]_vars
  PROVE  /\ httpTimedOut => httpTimedOut'
         /\ \/ main' = main \/ main' \in {"httpShutdown", "exited", "crashed"}
            \/ main = "httpShutdown" /\ main' = "cancel"
                 /\ (httpTimedOut' \/ \A o \in Orders : request[o] \notin Open)
                 /\ UNCHANGED <<request, caller>>
            \/ main \in {"cancel", "drain", "closeProducer"} /\ UNCHANGED <<request, caller>>
  <1>1. ASSUME NEW o \in Orders, Arrive(o) \/ Request(o) \/ Disconnect(o)
        PROVE UNCHANGED <<main, httpTimedOut>>
    BY <1>1 DEF Arrive, Request, DecodeAndValidate, CallDispatch, Disconnect, RequestFrame
  <1>2. ASSUME NEW w \in Workers, Worker(w) PROVE UNCHANGED <<main, httpTimedOut>>
    BY <1>2 DEF Worker, StartOrder, SleepCancelled, NoFault, EnterRng, RollPasses, RollFails,
                ProduceOk, ProduceFails, LeavePool, WorkerFrame
  <1>3. ASSUME NEW w \in Workers, RngRace(w)
        PROVE main' = "crashed" /\ UNCHANGED httpTimedOut
    BY <1>3 DEF RngRace, WorkerFrame
  <1>4. CASE Signal \/ Exit
    BY <1>4 DEF Signal, Exit
  <1>5. CASE HttpDrained \/ HttpTimeout
    BY <1>5 DEF HttpDrained, HttpTimeout, MainFrame, poolVars
  <1>6. CASE Cancel \/ Drain \/ DrainReturns \/ CloseProducer
    BY <1>6, CancelEffect DEF Cancel, Drain, DrainReturns, CloseProducer, MainFrame, poolVars
  <1>7. CASE BrokerSwitch \/ ConsumerFails \/ UNCHANGED vars
    BY <1>7 DEF BrokerSwitch, ConsumerFails, vars
  <1> QED
    BY <1>1, <1>2, <1>3, <1>4, <1>5, <1>6, <1>7 DEF Next, MainStep

LEMMA LateKept ==
  Typed /\ JobFacts /\ Stages /\ Requests /\ Late /\ [Next]_vars => Late'
  <1> SUFFICES ASSUME Typed, JobFacts, Stages, Requests, Late, [Next]_vars PROVE Late'
    OBVIOUS
  <1> USE DEF Late, Open
  <1>1. CASE UNCHANGED <<request, caller>>
    BY <1>1, MainGoesOn DEF MainStates
  <1>2. ASSUME NEW o \in Orders, Arrive(o) PROVE Late'
    BY <1>2 DEF Arrive, RequestFrame, poolVars, Typed
  <1>3. ASSUME NEW o \in Orders, DecodeAndValidate(o) PROVE Late'
    BY <1>3 DEF DecodeAndValidate, RequestFrame, poolVars, Typed
  <1>4. ASSUME NEW o \in Orders, CallDispatch(o) PROVE Late'
    <2>1. /\ caller'[o] \in {"closed", "panicked"} => shutdownClosed \/ queueClosed
          /\ \A q \in Orders \ {o} : caller'[q] = caller[q]
      BY <1>4, DispatchEffect DEF CallDispatch
    <2>2. shutdownClosed \/ queueClosed => main \notin {"serving", "httpShutdown", "cancel"}
      BY DEF Stages
    <2>3. main \in MainStates \ {"exited", "crashed"} /\ request[o] = "handling"
      BY <1>4 DEF CallDispatch, Alive, Typed
    <2>4. UNCHANGED <<main, httpTimedOut>> /\ \A q \in Orders \ {o} : request'[q] = request[q]
      BY <1>4 DEF CallDispatch, RequestFrame, Typed
    <2> QED
      BY <2>1, <2>2, <2>3, <2>4
  <1> QED
    BY <1>1, <1>2, <1>3, <1>4, Others

-----------------------------------------------------------------------------
(* The orders on the topic.                                                *)

\* Only a worker that holds an order is in Handle, and only orders whose job
\* has ended are on the topic.
Handling ==
    /\ \A w \in Workers : step[w] = "none" <=> holding[w] = NoOrder
    /\ placed \subseteq executed

\* A worker at the end of Handle, which may have written its order.
Ends(w) ==
    /\ D!WorkerFinish(w)
    /\ step' = [step EXCEPT ![w] = "none"]
    /\ placed' \in {placed, placed \cup {holding[w]}}

LEMMA HandlingInit == Init => Handling
  BY DEF Init, D!Init, Handling

LEMMA EndsOfHandle ==
  ASSUME NEW w \in Workers,
         SleepCancelled(w) \/ RollFails(w) \/ ProduceOk(w) \/ ProduceFails(w)
  PROVE  Ends(w)
  BY DEF SleepCancelled, RollFails, ProduceOk, ProduceFails, Ends

LEMMA HandlingKept == Typed /\ JobFacts /\ Handling /\ [Next]_vars => Handling'
  <1> SUFFICES ASSUME Typed, JobFacts, Handling, [Next]_vars PROVE Handling'
    OBVIOUS
  <1> USE DEF Handling
  <1>1. CASE UNCHANGED <<step, holding, placed, executed>>
    BY <1>1
  <1>2. ASSUME NEW o \in Orders, Arrive(o) \/ Request(o) \/ Disconnect(o) PROVE Handling'
    BY <1>1, <1>2, DispatchEffect, CancelEffect
       DEF Arrive, Request, DecodeAndValidate, CallDispatch, Disconnect, RequestFrame, poolVars
  <1>3. ASSUME NEW w \in Workers, StartOrder(w) PROVE Handling'
    <2>1. /\ holding' = [holding EXCEPT ![w] = Head(jobQueue)] /\ Head(jobQueue) \in Orders
          /\ UNCHANGED executed
      BY <1>3, TakeEffect DEF StartOrder
    <2>2. step' = [step EXCEPT ![w] = "sleep"] /\ UNCHANGED placed
      BY <1>3 DEF StartOrder
    <2> QED
      BY <2>1, <2>2, NoOrderAssumption DEF Typed, JobFacts
  <1>4. ASSUME NEW w \in Workers, NoFault(w) \/ EnterRng(w) \/ RollPasses(w) PROVE Handling'
    <2>1. /\ step[w] \in {"sleep", "rng"} /\ step'[w] \in {"produce", "rng"}
          /\ \A v \in Workers \ {w} : step'[v] = step[v]
          /\ UNCHANGED <<holding, executed, placed>>
      BY <1>4 DEF NoFault, EnterRng, RollPasses, poolVars, Typed
    <2> QED
      BY <2>1
  <1>5. ASSUME NEW w \in Workers, Ends(w) PROVE Handling'
    <2>1. /\ holding' = [holding EXCEPT ![w] = NoOrder]
          /\ executed' = executed \cup {holding[w]}
      BY <1>5, FinishEffect DEF Ends
    <2> QED
      BY <1>5, <2>1 DEF Ends, Typed, JobFacts
  <1>6. ASSUME NEW w \in Workers, LeavePool(w) \/ RngRace(w) PROVE Handling'
    BY <1>1, <1>6, LeaveEffect DEF LeavePool, RngRace, poolVars
  <1>7. CASE MainStep \/ Signal \/ HttpTimeout \/ BrokerSwitch \/ ConsumerFails \/ UNCHANGED vars
    BY <1>1, <1>7, ShutdownEffect, CancelEffect
       DEF MainStep, HttpDrained, Cancel, Drain, DrainReturns, CloseProducer, Exit, Signal,
           HttpTimeout, BrokerSwitch, ConsumerFails, MainFrame, vars, poolVars
  <1> QED
    BY <1>2, <1>3, <1>4, <1>5, <1>6, <1>7, EndsOfHandle DEF Next, Worker

-----------------------------------------------------------------------------
(* Everything but the counters.                                            *)

SafeInv == Typed /\ P!IInv /\ Stages /\ Requests /\ Late /\ Handling

LEMMA SafeInit == Init => SafeInv
  BY TypedInit, PoolInit, StagesInit, HandlingInit DEF SafeInv

LEMMA SafeKept == SafeInv /\ [Next]_vars => SafeInv'
  BY PoolFacts, TypedKept, PoolKept, StagesKept, RequestsKept, LateKept, HandlingKept DEF SafeInv

LEMMA Safe == Spec => []SafeInv
  BY SafeInit, SafeKept, PTL DEF Spec

\* An order that was answered with an error is not run and not written, now or
\* later: Dispatch refused it, and only accepted jobs reach a worker.
THEOREM RefusedStaysAway == Spec => []RefusedNeverPlaced
  <1>1. SafeInv => RefusedNeverPlaced
    <2> SUFFICES ASSUME SafeInv, NEW o \in Orders, request[o] \in Answers \ {"202"}
                 PROVE  o \notin placed \cup executed \cup D!Running
      BY DEF RefusedNeverPlaced
    <2>1. caller[o] # "nil"
      BY DEF SafeInv, Requests
    <2>2. o \notin executed /\ \A w \in Workers : holding[w] # o
      BY <2>1, PoolFacts, NoOrderAssumption DEF SafeInv, JobFacts
    <2>3. placed \subseteq executed
      BY DEF SafeInv, Handling
    <2> QED
      BY <2>2, <2>3 DEF D!Running
  <1> QED
    BY <1>1, Safe, PTL

\* No handler meets a closed dispatcher unless the HTTP server gave up waiting.
THEOREM ServerStopsFirst == Spec => []ClosedOnlyAfterTimeout
  <1>1. SafeInv => ClosedOnlyAfterTimeout
    BY DEF SafeInv, Late, ClosedOnlyAfterTimeout
  <1> QED
    BY <1>1, Safe, PTL

\* No job meets a closed producer unless the drain timed out: a drain that
\* returned nil has seen every worker leave, and no worker leaves with a job.
THEOREM ProducerStopsLast == Spec => []ProducerOutlivesJobs
  <1>1. SafeInv => ProducerOutlivesJobs
    <2> SUFFICES ASSUME SafeInv, producerClosed, D!Running # {}
                 PROVE  stopper["main"] = "timeout"
      BY DEF ProducerOutlivesJobs
    <2>1. PICK w \in Workers : holding[w] # NoOrder
      BY DEF D!Running
    <2>2. w \notin exited
      BY <2>1, PoolFacts DEF SafeInv, JobFacts
    <2>3. stopper["main"] # "nil"
      BY <2>2, PoolFacts DEF SafeInv, JobFacts
    <2> QED
      BY <2>3 DEF SafeInv, Stages
  <1> QED
    BY <1>1, Safe, PTL

-----------------------------------------------------------------------------
(* Counting.                                                               *)

At(S) == {w \in Workers : step[w] \in S}
Started == D!Running \cup executed
\* Handle's share of the counter, and the orders that it ended without an event.
FailedInHandle == metrics["failedProcessing"] - consumerFailed
Ended == FailedInHandle + dropped

\* MetricsBalance, without the part that Handling already has.
Balance ==
    /\ metrics["received"] = Cardinality(Started)
    /\ metrics["published"] = metrics["observed"] + metrics["failedKafka"]
                                 + Cardinality(At({"produce"}))
    /\ FailedInHandle \in Nat
    /\ metrics["received"] = metrics["published"] + Ended + Cardinality(At({"sleep", "rng"}))
    /\ dropped > 0 => rootDone

LEMMA Counted ==
  ASSUME NEW S
  PROVE  IsFiniteSet(At(S)) /\ Cardinality(At(S)) \in Nat
  <1>1. At(S) \subseteq Workers
    BY DEF At
  <1> QED
    BY <1>1, WorkersAssumption, FS_Subset, FS_CardinalityType

LEMMA OrdersCounted ==
  ASSUME JobFacts
  PROVE  Started \subseteq Orders /\ IsFiniteSet(Started) /\ Cardinality(Started) \in Nat
  <1>1. Started \subseteq Orders
    BY DEF JobFacts, Started, D!Running
  <1> QED
    BY <1>1, OrdersAssumption, FS_Subset, FS_CardinalityType

\* One worker goes to another step of Handle.
LEMMA Moved ==
  ASSUME Typed, NEW w \in Workers, NEW where, step' = [step EXCEPT ![w] = where], NEW S
  PROVE  /\ step[w] \in S /\ where \notin S => Cardinality(At(S))' = Cardinality(At(S)) - 1
         /\ step[w] \notin S /\ where \in S => Cardinality(At(S))' = Cardinality(At(S)) + 1
         /\ (step[w] \in S <=> where \in S) => Cardinality(At(S))' = Cardinality(At(S))
  <1>1. /\ step'[w] = where
        /\ \A v \in Workers \ {w} : step'[v] = step[v]
    BY DEF Typed
  <1>2. IsFiniteSet(At(S)) /\ Cardinality(At(S)) \in Nat
    BY Counted
  <1>3. CASE step[w] \in S /\ where \notin S
    <2>1. At(S)' = At(S) \ {w} /\ w \in At(S)
      BY <1>1, <1>3 DEF At
    <2> QED
      BY <1>2, <1>3, <2>1, FS_RemoveElement
  <1>4. CASE step[w] \notin S /\ where \in S
    <2>1. At(S)' = At(S) \cup {w} /\ w \notin At(S)
      BY <1>1, <1>4 DEF At
    <2> QED
      BY <1>2, <1>4, <2>1, FS_AddElement
  <1>5. CASE step[w] \in S <=> where \in S
    <2>1. At(S)' = At(S)
      BY <1>1, <1>5 DEF At
    <2> QED
      BY <1>5, <2>1
  <1> QED
    BY <1>3, <1>4, <1>5

\* A worker that takes a job starts one more order ...
LEMMA StartedGrows ==
  ASSUME JobFacts, NEW w \in Workers, D!WorkerTake(w)
  PROVE  Cardinality(Started)' = Cardinality(Started) + 1
  <1> DEFINE o == Head(jobQueue)
  <1>1. /\ holding[w] = NoOrder /\ o \in Orders \ executed
        /\ \A v \in Workers : holding[v] # o
        /\ holding' = [holding EXCEPT ![w] = o]
        /\ UNCHANGED executed
    BY TakeEffect
  <1>2. o # NoOrder
    BY <1>1, NoOrderAssumption
  <1>3. /\ holding'[w] = o
        /\ \A v \in Workers \ {w} : holding'[v] = holding[v]
    BY <1>1 DEF JobFacts
  <1>4. D!Running' = D!Running \cup {o} /\ o \notin D!Running
    BY <1>1, <1>2, <1>3 DEF D!Running
  <1>5. Started' = Started \cup {o} /\ o \notin Started
    BY <1>1, <1>4 DEF Started
  <1> QED
    BY <1>5, OrdersCounted, FS_AddElement

\* ... and one that finishes a job starts and forgets none.
LEMMA StartedKept ==
  ASSUME JobFacts, NEW w \in Workers, D!WorkerFinish(w)
  PROVE  Started' = Started
  <1>1. /\ executed' = executed \cup {holding[w]}
        /\ holding[w] \in Orders
        /\ holding' = [holding EXCEPT ![w] = NoOrder]
    BY FinishEffect
  <1>2. /\ holding'[w] = NoOrder
        /\ \A v \in Workers \ {w} : holding'[v] = holding[v]
    BY <1>1 DEF JobFacts
  <1>3. \A o \in D!Running : o \in D!Running' \/ o = holding[w]
    BY <1>2 DEF D!Running
  <1>4. D!Running' \subseteq D!Running /\ holding[w] \in D!Running
    BY <1>1, <1>2, NoOrderAssumption DEF D!Running
  <1> QED
    BY <1>1, <1>3, <1>4 DEF Started

-----------------------------------------------------------------------------
(* The counters.                                                           *)

Early == At({"sleep", "rng"})
Writing == At({"produce"})

\* The steps that count nothing and move no worker, job or message.
Uncounted ==
    /\ UNCHANGED <<metrics, step, placed, consumerFailed, dropped>>
    /\ Started' = Started
    /\ rootDone => rootDone'

\* The consumer's share is the consumer's, and only a cut delay drops an order.
LEMMA WorkerHistory ==
  ASSUME NEW w \in Workers,
         \/ StartOrder(w) \/ NoFault(w) \/ EnterRng(w) \/ RollPasses(w) \/ RollFails(w)
         \/ ProduceOk(w) \/ ProduceFails(w)
  PROVE  consumerFailed' = consumerFailed /\ dropped' = dropped
  BY DEF StartOrder, NoFault, EnterRng, RollPasses, RollFails, ProduceOk, ProduceFails, WorkerFrame

LEMMA UncountedSteps ==
  ASSUME Typed, JobFacts, [Next]_vars
  PROVE  Uncounted \/ ConsumerFails \/ \E w \in Workers :
            \/ StartOrder(w) \/ SleepCancelled(w) \/ NoFault(w) \/ EnterRng(w)
            \/ RollPasses(w) \/ RollFails(w) \/ ProduceOk(w) \/ ProduceFails(w)
  <1> USE DEF Uncounted, Started, D!Running
  <1>1. ASSUME NEW o \in Orders, Arrive(o) \/ Request(o) \/ Disconnect(o) PROVE Uncounted
    BY <1>1, DispatchEffect, CancelEffect
       DEF Arrive, Request, DecodeAndValidate, CallDispatch, Disconnect, RequestFrame,
           poolVars, history
  <1>2. ASSUME NEW w \in Workers, LeavePool(w) \/ RngRace(w) PROVE Uncounted
    BY <1>2, LeaveEffect DEF LeavePool, RngRace, WorkerFrame, poolVars
  <1>3. CASE MainStep \/ Signal \/ HttpTimeout \/ BrokerSwitch \/ UNCHANGED vars
    BY <1>3, ShutdownEffect, CancelEffect
       DEF MainStep, HttpDrained, Cancel, Drain, DrainReturns, CloseProducer, Exit, Signal,
           HttpTimeout, BrokerSwitch, MainFrame, history, vars, poolVars
  <1> QED
    BY <1>1, <1>2, <1>3 DEF Next, Worker

LEMMA HandleMoves ==
  ASSUME Typed, NEW w \in Workers, NEW where, step' = [step EXCEPT ![w] = where]
  PROVE  /\ step[w] = "none" /\ where = "sleep" =>
              Cardinality(Early)' = Cardinality(Early) + 1
                /\ Cardinality(Writing)' = Cardinality(Writing)
         /\ step[w] = "sleep" /\ where = "rng" =>
              Cardinality(Early)' = Cardinality(Early)
                /\ Cardinality(Writing)' = Cardinality(Writing)
         /\ step[w] \in {"sleep", "rng"} /\ where = "produce" =>
              Cardinality(Early)' = Cardinality(Early) - 1
                /\ Cardinality(Writing)' = Cardinality(Writing) + 1
         /\ step[w] \in {"sleep", "rng"} /\ where = "none" =>
              Cardinality(Early)' = Cardinality(Early) - 1
                /\ Cardinality(Writing)' = Cardinality(Writing)
         /\ step[w] = "produce" /\ where = "none" =>
              Cardinality(Early)' = Cardinality(Early)
                /\ Cardinality(Writing)' = Cardinality(Writing) - 1
  <1>1. /\ step[w] \in {"sleep", "rng"} /\ where \notin {"sleep", "rng"} =>
              Cardinality(Early)' = Cardinality(Early) - 1
        /\ step[w] \notin {"sleep", "rng"} /\ where \in {"sleep", "rng"} =>
              Cardinality(Early)' = Cardinality(Early) + 1
        /\ (step[w] \in {"sleep", "rng"} <=> where \in {"sleep", "rng"}) =>
              Cardinality(Early)' = Cardinality(Early)
    BY Moved DEF Early
  <1>2. /\ step[w] \in {"produce"} /\ where \notin {"produce"} =>
              Cardinality(Writing)' = Cardinality(Writing) - 1
        /\ step[w] \notin {"produce"} /\ where \in {"produce"} =>
              Cardinality(Writing)' = Cardinality(Writing) + 1
        /\ (step[w] \in {"produce"} <=> where \in {"produce"}) =>
              Cardinality(Writing)' = Cardinality(Writing)
    BY Moved DEF Writing
  <1> QED
    BY <1>1, <1>2

LEMMA BalanceInit == Init => Balance /\ CountersMeanTopic
  <1> SUFFICES ASSUME Init PROVE Balance /\ CountersMeanTopic
    OBVIOUS
  <1>1. Early = {} /\ Writing = {}
    BY DEF Init, Early, Writing, At
  <1>2. Started = {}
    BY DEF Init, D!Init, Started, D!Running
  <1>3. \A c \in Counters : metrics[c] = 0
    BY DEF Init
  <1>4. placed = {} /\ Cardinality({}) = 0
    BY FS_EmptySet DEF Init
  <1> HIDE DEF Early, Writing
  <1>5. Balance
    <2>1. FailedInHandle = 0 /\ Ended = 0 /\ dropped = 0
      BY <1>3 DEF Init, FailedInHandle, Ended, Counters
    <2> QED
      BY <1>1, <1>2, <1>3, <1>4, <2>1 DEF Balance, Counters, Early, Writing
  <1> QED
    BY <1>3, <1>4, <1>5 DEF CountersMeanTopic, Counters

\* How a job may move between the terms of the balance.
LEMMA Shifts ==
  ASSUME NEW r \in Nat, NEW p \in Nat, NEW n \in Nat, NEW e \in Nat, r = p + n + e
  PROVE  /\ r + 1 = p + n + (e + 1)
         /\ r = (p + 1) + n + (e - 1)
         /\ r = p + (n + 1) + (e - 1)
  OBVIOUS

LEMMA BalanceKept ==
  Typed /\ JobFacts /\ Handling /\ Balance /\ CountersMeanTopic /\ [Next]_vars
    => Balance' /\ CountersMeanTopic'
  <1> SUFFICES ASSUME Typed, JobFacts, Handling, Balance, CountersMeanTopic, [Next]_vars
               PROVE  Balance' /\ CountersMeanTopic'
    OBVIOUS
  <1> DEFINE e == Cardinality(Early)  wr == Cardinality(Writing)
             s == Cardinality(Started)  q == Cardinality(placed)
             f == FailedInHandle  n == Ended
             Jobs(m) == m["received"] = s' /\ m["received"] = m["published"] + n' + e'
             Writes(m) == /\ m["published"] = m["observed"] + m["failedKafka"] + wr'
                          /\ m["observed"] <= q' /\ q' <= m["observed"] + m["failedKafka"]
             Shares == f' \in Nat /\ (dropped > 0 => rootDone)'
             Kept(m) == Jobs(m) /\ Writes(m) /\ Shares
  <1>a. SUFFICES Kept(metrics')
    BY DEF Balance, CountersMeanTopic, Early, Writing
  <1>b. metrics["received"] = s /\ metrics["received"] = metrics["published"] + n + e
    BY DEF Balance, Early
  <1>g. /\ metrics["published"] = metrics["observed"] + metrics["failedKafka"] + wr
        /\ metrics["observed"] <= q /\ q <= metrics["observed"] + metrics["failedKafka"]
    BY DEF Balance, CountersMeanTopic, Early, Writing
  <1>f. f \in Nat /\ (dropped > 0 => rootDone)
    BY DEF Balance
  <1>c. /\ metrics["received"] \in Nat /\ metrics["published"] \in Nat
        /\ metrics["observed"] \in Nat /\ metrics["failedKafka"] \in Nat
        /\ metrics["failedProcessing"] \in Nat /\ consumerFailed \in Nat /\ dropped \in Nat
    BY BoundAssumption DEF Typed, Counters
  <1>p. metrics["received"] \in Nat /\ metrics["published"] \in Nat
    BY <1>c
  <1>n. n \in Nat
    BY <1>c, <1>f DEF Ended
  <1>d. e \in Nat /\ wr \in Nat /\ s \in Nat /\ q \in Nat /\ IsFiniteSet(placed)
    <2>1. IsFiniteSet(placed) /\ q \in Nat
      BY OrdersAssumption, FS_Subset, FS_CardinalityType DEF Typed
    <2> QED
      BY <2>1, Counted, OrdersCounted DEF Early, Writing
  <1>k. /\ metrics["received"] + 1 = metrics["published"] + n + (e + 1)
        /\ metrics["received"] = (metrics["published"] + 1) + n + (e - 1)
        /\ metrics["received"] = metrics["published"] + (n + 1) + (e - 1)
    <2> HIDE DEF n, e
    <2> QED
      BY <1>b, <1>d, <1>n, <1>p, Shifts
  <1>e. ASSUME NEW c \in Counters, Inc(c)
        PROVE /\ metrics'[c] = metrics[c] + 1
              /\ \A b \in Counters \ {c} : metrics'[b] = metrics[b]
    BY <1>e DEF Inc, Typed
  <1>1. CASE Uncounted
    <2>1. metrics' = metrics /\ e' = e /\ wr' = wr /\ s' = s /\ q' = q
          /\ (rootDone => rootDone') /\ f' = f /\ n' = n /\ dropped' = dropped
      BY <1>1 DEF Uncounted, Early, Writing, At, FailedInHandle, Ended
    <2> QED
      BY <1>b, <1>f, <1>g, <2>1
  <1>2. ASSUME NEW w \in Workers, StartOrder(w) PROVE Kept(metrics')
    <2>1. e' = e + 1 /\ wr' = wr
      <3>1. step[w] = "none" /\ step' = [step EXCEPT ![w] = "sleep"]
        BY <1>2, TakeEffect DEF StartOrder, Handling
      <3> QED
        BY <3>1, HandleMoves
    <2>2. s' = s + 1 /\ q' = q /\ rootDone' = rootDone
      BY <1>2, StartedGrows, TakeEffect DEF StartOrder
    <2>3. /\ metrics'["received"] = metrics["received"] + 1
          /\ \A c \in Counters \ {"received"} : metrics'[c] = metrics[c]
      BY <1>2, <1>e DEF StartOrder, Counters
    <2>5. /\ metrics'["received"] = metrics["received"] + 1
          /\ metrics'["published"] = metrics["published"]
          /\ metrics'["observed"] = metrics["observed"]
          /\ metrics'["failedKafka"] = metrics["failedKafka"]
          /\ metrics'["failedProcessing"] = metrics["failedProcessing"]
      BY <2>3 DEF Counters
    <2>h. f' = f /\ n' = n /\ dropped' = dropped
      BY <1>2, <2>5, WorkerHistory DEF FailedInHandle, Ended
    <2>6. Jobs(metrics')
      BY <1>b, <1>k, <2>h, <2>1, <2>2, <2>5
    <2>7. Writes(metrics')
      BY <1>g, <1>c, <1>d, <2>h, <2>1, <2>2, <2>5
    <2>8. Shares
      BY <1>f, <2>h, <2>1, <2>2, <2>5
    <2> QED
      BY <2>6, <2>7, <2>8
  <1>3. ASSUME NEW w \in Workers, SleepCancelled(w) PROVE Kept(metrics')
    <2>1. e' = e - 1 /\ wr' = wr
      BY <1>3, HandleMoves DEF SleepCancelled
    <2>2. s' = s /\ q' = q /\ rootDone /\ rootDone' /\ metrics' = metrics
      BY <1>3, StartedKept, FinishEffect DEF SleepCancelled
    <2>3. consumerFailed' = consumerFailed /\ dropped' = dropped + 1
      BY <1>3 DEF SleepCancelled, WorkerFrame
    <2>h. f' = f /\ n' = n + 1
      BY <1>c, <1>f, <2>2, <2>3 DEF FailedInHandle, Ended
    <2>6. Jobs(metrics')
      BY <1>b, <1>k, <2>1, <2>2, <2>h
    <2>7. Writes(metrics')
      BY <1>g, <1>c, <1>d, <2>1, <2>2, <2>h
    <2>8. Shares
      BY <1>f, <2>1, <2>2, <2>h
    <2> QED
      BY <2>6, <2>7, <2>8
  <1>4. ASSUME NEW w \in Workers, EnterRng(w) PROVE Kept(metrics')
    <2>1. e' = e /\ wr' = wr
      BY <1>4, HandleMoves DEF EnterRng
    <2>2. s' = s /\ q' = q /\ rootDone' = rootDone /\ metrics' = metrics
      BY <1>4 DEF EnterRng, poolVars, Started, D!Running
    <2>h. f' = f /\ n' = n /\ dropped' = dropped
      BY <1>4, <2>2, WorkerHistory DEF FailedInHandle, Ended, Counters
    <2> QED
      BY <1>b, <1>f, <1>g, <2>h, <2>1, <2>2
  <1>5. ASSUME NEW w \in Workers, NoFault(w) \/ RollPasses(w) PROVE Kept(metrics')
    <2>1. e' = e - 1 /\ wr' = wr + 1
      BY <1>5, HandleMoves DEF NoFault, RollPasses
    <2>2. s' = s /\ q' = q /\ rootDone' = rootDone
      BY <1>5 DEF NoFault, RollPasses, poolVars, Started, D!Running
    <2>3. /\ metrics'["published"] = metrics["published"] + 1
          /\ \A c \in Counters \ {"published"} : metrics'[c] = metrics[c]
      BY <1>5, <1>e DEF NoFault, RollPasses, Counters
    <2>5. /\ metrics'["published"] = metrics["published"] + 1
          /\ metrics'["received"] = metrics["received"]
          /\ metrics'["observed"] = metrics["observed"]
          /\ metrics'["failedKafka"] = metrics["failedKafka"]
          /\ metrics'["failedProcessing"] = metrics["failedProcessing"]
      BY <2>3 DEF Counters
    <2>h. f' = f /\ n' = n /\ dropped' = dropped
      BY <1>5, <2>5, WorkerHistory DEF FailedInHandle, Ended
    <2>6. Jobs(metrics')
      BY <1>b, <1>k, <2>h, <2>1, <2>2, <2>5
    <2>7. Writes(metrics')
      BY <1>g, <1>c, <1>d, <2>h, <2>1, <2>2, <2>5
    <2>8. Shares
      BY <1>f, <2>h, <2>1, <2>2, <2>5
    <2> QED
      BY <2>6, <2>7, <2>8
  <1>6. ASSUME NEW w \in Workers, RollFails(w) PROVE Kept(metrics')
    <2>1. e' = e - 1 /\ wr' = wr
      BY <1>6, HandleMoves DEF RollFails
    <2>2. s' = s /\ q' = q /\ rootDone' = rootDone
      BY <1>6, StartedKept, FinishEffect DEF RollFails
    <2>3. /\ metrics'["failedProcessing"] = metrics["failedProcessing"] + 1
          /\ \A c \in Counters \ {"failedProcessing"} : metrics'[c] = metrics[c]
      BY <1>6, <1>e DEF RollFails, Counters
    <2>5. /\ metrics'["failedProcessing"] = metrics["failedProcessing"] + 1
          /\ metrics'["received"] = metrics["received"]
          /\ metrics'["published"] = metrics["published"]
          /\ metrics'["observed"] = metrics["observed"]
          /\ metrics'["failedKafka"] = metrics["failedKafka"]
      BY <2>3 DEF Counters
    <2>4. consumerFailed' = consumerFailed /\ dropped' = dropped
      BY <1>6, WorkerHistory
    <2>h. f' = f + 1 /\ n' = n + 1 /\ dropped' = dropped
      BY <1>c, <1>f, <2>4, <2>5 DEF FailedInHandle, Ended
    <2>6. Jobs(metrics')
      BY <1>b, <1>k, <2>h, <2>1, <2>2, <2>5
    <2>7. Writes(metrics')
      BY <1>g, <1>c, <1>d, <2>h, <2>1, <2>2, <2>5
    <2>8. Shares
      BY <1>f, <2>h, <2>1, <2>2, <2>5
    <2> QED
      BY <2>6, <2>7, <2>8
  <1>7. ASSUME NEW w \in Workers, ProduceOk(w) \/ ProduceFails(w)
        PROVE /\ wr' = wr - 1 /\ e' = e /\ s' = s /\ rootDone' = rootDone
              /\ Cardinality(placed \cup {holding[w]}) = q + 1
    <2>1. e' = e /\ wr' = wr - 1
      BY <1>7, HandleMoves DEF ProduceOk, ProduceFails
    <2>2. s' = s /\ rootDone' = rootDone
      BY <1>7, StartedKept, FinishEffect DEF ProduceOk, ProduceFails
    <2>3. holding[w] \notin placed
      BY <1>7, FinishEffect, NoOrderAssumption DEF ProduceOk, ProduceFails, JobFacts, Handling
    <2> QED
      BY <1>d, <2>1, <2>2, <2>3, FS_AddElement
  <1>8. ASSUME NEW w \in Workers, ProduceOk(w) PROVE Kept(metrics')
    <2>1. q' = q + 1
      BY <1>7, <1>8 DEF ProduceOk
    <2>2. /\ metrics'["observed"] = metrics["observed"] + 1
          /\ \A c \in Counters \ {"observed"} : metrics'[c] = metrics[c]
      BY <1>8, <1>e DEF ProduceOk, Counters
    <2>3. wr' = wr - 1 /\ e' = e /\ s' = s /\ rootDone' = rootDone
      BY <1>7, <1>8
    <2>4. /\ metrics'["observed"] = metrics["observed"] + 1
          /\ metrics'["received"] = metrics["received"]
          /\ metrics'["published"] = metrics["published"]
          /\ metrics'["failedKafka"] = metrics["failedKafka"]
          /\ metrics'["failedProcessing"] = metrics["failedProcessing"]
      BY <2>2 DEF Counters
    <2>h. f' = f /\ n' = n /\ dropped' = dropped
      BY <1>8, <2>4, WorkerHistory DEF FailedInHandle, Ended, Counters
    <2>6. Jobs(metrics')
      BY <1>b, <1>k, <2>h, <2>1, <2>3, <2>4
    <2>7. Writes(metrics')
      BY <1>g, <1>c, <1>d, <2>h, <2>1, <2>3, <2>4
    <2>8. Shares
      BY <1>f, <2>h, <2>1, <2>3, <2>4
    <2> QED
      BY <2>6, <2>7, <2>8
  <1>9. ASSUME NEW w \in Workers, ProduceFails(w) PROVE Kept(metrics')
    <2>1. q' = q \/ q' = q + 1
      BY <1>7, <1>9 DEF ProduceFails
    <2>2. /\ metrics'["failedKafka"] = metrics["failedKafka"] + 1
          /\ \A c \in Counters \ {"failedKafka"} : metrics'[c] = metrics[c]
      BY <1>9, <1>e DEF ProduceFails, Counters
    <2>3. wr' = wr - 1 /\ e' = e /\ s' = s /\ rootDone' = rootDone
      BY <1>7, <1>9
    <2>4. /\ metrics'["failedKafka"] = metrics["failedKafka"] + 1
          /\ metrics'["received"] = metrics["received"]
          /\ metrics'["published"] = metrics["published"]
          /\ metrics'["observed"] = metrics["observed"]
          /\ metrics'["failedProcessing"] = metrics["failedProcessing"]
      BY <2>2 DEF Counters
    <2>h. f' = f /\ n' = n /\ dropped' = dropped
      BY <1>9, <2>4, WorkerHistory DEF FailedInHandle, Ended, Counters
    <2>6. Jobs(metrics')
      BY <1>b, <1>k, <2>h, <2>1, <2>3, <2>4
    <2>7. Writes(metrics')
      BY <1>g, <1>c, <1>d, <2>h, <2>1, <2>3, <2>4
    <2>8. Shares
      BY <1>f, <2>h, <2>1, <2>3, <2>4
    <2> QED
      BY <2>6, <2>7, <2>8
  <1>10. CASE ConsumerFails
    <2>1. e' = e /\ wr' = wr /\ s' = s /\ q' = q /\ rootDone' = rootDone
      BY <1>10 DEF ConsumerFails, poolVars, Early, Writing, At, Started, D!Running
    <2>2. consumerFailed' = consumerFailed + 1 /\ dropped' = dropped
      BY <1>10 DEF ConsumerFails
    <2>3. /\ metrics'["failedProcessing"] = metrics["failedProcessing"] + 1
          /\ \A c \in Counters \ {"failedProcessing"} : metrics'[c] = metrics[c]
      BY <1>10, <1>e DEF ConsumerFails, Counters
    <2>5. /\ metrics'["failedProcessing"] = metrics["failedProcessing"] + 1
          /\ metrics'["received"] = metrics["received"]
          /\ metrics'["published"] = metrics["published"]
          /\ metrics'["observed"] = metrics["observed"]
          /\ metrics'["failedKafka"] = metrics["failedKafka"]
      BY <2>3 DEF Counters
    <2>4. f' = f /\ n' = n
      BY <1>c, <2>2, <2>5 DEF FailedInHandle, Ended
    <2> QED
      BY <1>b, <1>f, <1>g, <2>1, <2>2, <2>5, <2>4
  <1> QED
    BY <1>1, <1>2, <1>3, <1>4, <1>5, <1>6, <1>8, <1>9, <1>10, UncountedSteps

-----------------------------------------------------------------------------
(* Everything.                                                             *)

IInv == SafeInv /\ Balance /\ CountersMeanTopic

LEMMA Inductive == Spec => []IInv
  <1>1. Init => IInv
    BY SafeInit, BalanceInit DEF IInv
  <1>2. IInv /\ [Next]_vars => IInv'
    BY SafeKept, BalanceKept, PoolFacts DEF IInv, SafeInv
  <1> QED
    BY <1>1, <1>2, PTL DEF Spec

\* Handle's counters add up whatever the consumer adds to the one they share:
\* every job that started was counted as received once, every event is matched
\* by one write, in progress, done or failed, and no order is lost to the
\* counters but one whose delay the shutdown cut short.
THEOREM CountersBalance == Spec => []MetricsBalance
  <1>1. IInv => MetricsBalance
    <2> SUFFICES ASSUME IInv PROVE MetricsBalance
      OBVIOUS
    <2>1. Balance /\ Typed /\ Handling
      BY DEF IInv, SafeInv
    <2>2. /\ FailedInHandle \in Nat /\ dropped \in Nat
          /\ metrics["published"] \in Nat /\ Cardinality(At({"sleep", "rng"})) \in Nat
      BY <2>1, Counted DEF Typed, Balance, Counters
    <2>3. metrics["received"] = metrics["published"] + FailedInHandle + dropped
                                  + Cardinality(At({"sleep", "rng"}))
      BY <2>1, <2>2 DEF Balance, Ended
    <2>4. FailedInHandle >= 0
      BY <2>2
    <2> QED
      BY <2>1, <2>3, <2>4
         DEF Handling, Balance, MetricsBalance, Started, FailedInHandle, At
  <1> QED
    BY <1>1, Inductive, PTL

\* The counters bound what is on the topic, from below and from above.
THEOREM CountersBoundTopic == Spec => []CountersMeanTopic
  <1>1. IInv => CountersMeanTopic
    BY DEF IInv
  <1> QED
    BY <1>1, Inductive, PTL

\* The variables have their types: no counter outgrows the orders posted,
\* and the consumer's failures, because each is bounded by the orders received.
THEOREM TypeCorrect == Spec => []TypeOK
  <1>1. IInv => TypeOK
    <2> SUFFICES ASSUME IInv PROVE TypeOK
      OBVIOUS
    <2>1. D!TypeOK
      BY DEF IInv, SafeInv, P!IInv, P!TypeOK, D!TypeOK, P!CallStates, D!CallStates,
             P!Refusals, D!Refusals, P!StopStates, D!StopStates
    <2>2. Typed
      BY DEF IInv, SafeInv
    <2> DEFINE n == Cardinality(Orders)
               f == FailedInHandle
               early == Cardinality(At({"sleep", "rng"}))
               writing == Cardinality(At({"produce"}))
    <2>3. n \in Nat /\ metrics["received"] <= n
      <3>1. Started \subseteq Orders
        BY PoolFacts, OrdersCounted DEF IInv, SafeInv
      <3> QED
        BY <3>1, OrdersAssumption, FS_Subset, FS_CardinalityType DEF IInv, Balance
    <2>4. early \in Nat /\ writing \in Nat
      BY Counted
    <2>5. \A c \in Counters : metrics[c] \in Nat
      BY <2>2 DEF Typed
    <2>6. /\ consumerFailed \in Nat /\ consumerFailed <= MaxConsumerFailures
          /\ dropped \in Nat /\ MaxConsumerFailures \in Nat
      BY <2>2, BoundAssumption DEF Typed
    <2>7. /\ metrics["published"] <= n /\ dropped <= n
          /\ metrics["observed"] <= n /\ metrics["failedKafka"] <= n
          /\ metrics["failedProcessing"] <= n + MaxConsumerFailures
      <3>1. /\ metrics["received"] = metrics["published"] + (f + dropped) + early
            /\ metrics["published"] = metrics["observed"] + metrics["failedKafka"] + writing
            /\ metrics["failedProcessing"] = f + consumerFailed
            /\ f \in Nat
        BY <2>5, <2>6 DEF IInv, Balance, Ended, FailedInHandle, Counters
      <3>2. /\ metrics["received"] \in Nat /\ metrics["published"] \in Nat
            /\ metrics["observed"] \in Nat /\ metrics["failedKafka"] \in Nat
        BY <2>5 DEF Counters
      <3> HIDE DEF n, f, early, writing
      <3>3. metrics["published"] <= n /\ f <= n /\ dropped <= n
        BY <2>3, <2>4, <2>6, <3>1, <3>2
      <3>4. metrics["observed"] <= n /\ metrics["failedKafka"] <= n
        BY <2>3, <2>4, <3>1, <3>2, <3>3
      <3>5. metrics["failedProcessing"] <= n + MaxConsumerFailures
        BY <2>3, <2>6, <3>1, <3>3
      <3> QED
        BY <3>3, <3>4, <3>5
    <2>8. \A c \in Counters : metrics[c] <= n + MaxConsumerFailures
      <3>1. \A c \in Counters \ {"failedProcessing"} : metrics[c] <= n
        BY <2>3, <2>7 DEF Counters
      <3> HIDE DEF n
      <3> QED
        BY <2>3, <2>5, <2>6, <2>7, <3>1
    <2>9. metrics \in [Counters -> 0 .. n + MaxConsumerFailures]
      BY <2>2, <2>3, <2>5, <2>6, <2>8 DEF Typed
    <2>10. dropped \in 0 .. n
      BY <2>3, <2>6, <2>7
    <2> QED
      BY <2>1, <2>2, <2>9, <2>10 DEF TypeOK, Typed
  <1> QED
    BY <1>1, Inductive, PTL

-----------------------------------------------------------------------------
(* Progress of one goroutine.                                              *)
(*                                                                         *)
(* Each of these is a chain of leads-to steps whose length no constant     *)
(* changes.  What needs an induction over the orders or over the queue is  *)
(* left to the liveness properties of GoService.  The prover cannot        *)
(* evaluate ENABLED: what it means, that a guard holds, is the hypothesis  *)
(* of each theorem.                                                        *)

\* The guards of Request(o): Dispatch never waits, so there is one for
\* each place where the handler can be.
CanRequest(o) ==
    /\ Alive
    /\ \/ request[o] = "reading"
       \/ request[o] = "handling" /\ caller[o] \in {"idle", "checked"}

RequestEnabled(o) == CanRequest(o) => ENABLED <<Request(o)>>_vars

Reading(o) == request[o] = "reading"
Calling(o, where) == request[o] = "handling" /\ caller[o] = where
Closed(o) == request[o] \notin Open

\* Every step leaves request o where it is or moves it on, and a step of its
\* goroutine moves it on.
RequestGoesOn(o) ==
    /\ Reading(o) => Reading(o)' \/ Calling(o, "idle")' \/ Closed(o)'
    /\ Calling(o, "idle") => Calling(o, "idle")' \/ Calling(o, "checked")' \/ Closed(o)'
    /\ Calling(o, "checked") => Calling(o, "checked")' \/ Closed(o)'
    /\ Request(o) => /\ Reading(o) => ~Reading(o)'
                     /\ Calling(o, "idle") => ~Calling(o, "idle")'
                     /\ Calling(o, "checked") => ~Calling(o, "checked")'

LEMMA DispatchGoesOn ==
  ASSUME JobFacts, Typed, NEW o \in Orders, CallDispatch(o)
  PROVE  /\ Calling(o, "idle") => Calling(o, "checked")' \/ Closed(o)'
         /\ Calling(o, "checked") => Closed(o)'
         /\ ~Reading(o)
  <1>1. /\ request'[o] = Answer(caller'[o])
        /\ caller'[o] \in P!CallStates \ {"idle"}
        /\ caller[o] = "checked" => caller'[o] # "checked"
        /\ request[o] = "handling"
    BY DispatchEffect DEF CallDispatch, Typed, JobFacts, D!Dispatch, D!CheckShutdown, D!Send,
       D!SendPanics, D!SendCancelled, D!SendFull
  <1>2. caller'[o] # "checked" => Closed(o)'
    BY <1>1, AnswerTyped DEF Closed, Open
  <1>3. caller'[o] = "checked" => Calling(o, "checked")'
    BY <1>1, AnswerTyped DEF Calling
  <1> QED
    BY <1>1, <1>2, <1>3 DEF Calling, Reading

LEMMA RequestMoves ==
  ASSUME SafeInv, [Next]_vars, NEW o \in Orders
  PROVE  RequestGoesOn(o)
  <1>1. JobFacts /\ Typed /\ Requests
    BY PoolFacts DEF SafeInv
  <1>2. CASE UNCHANGED <<request, caller>>
    <2>1. ~Request(o)
      <3>1. ~DecodeAndValidate(o)
        BY <1>1, <1>2 DEF DecodeAndValidate, Typed
      <3>2. ~CallDispatch(o)
        BY <1>1, <1>2, DispatchGoesOn DEF CallDispatch, Calling, Closed, Reading, Open, Requests
      <3> QED
        BY <3>1, <3>2 DEF Request
    <2> QED
      BY <1>2, <2>1 DEF RequestGoesOn, Reading, Calling, Closed
  <1>3. ASSUME NEW q \in Orders, q # o, Arrive(q) \/ DecodeAndValidate(q) \/ CallDispatch(q)
        PROVE  RequestGoesOn(o)
    <2>1. request'[o] = request[o] /\ caller'[o] = caller[o]
      BY <1>1, <1>3, DispatchEffect DEF Arrive, DecodeAndValidate, CallDispatch, Typed, poolVars
    <2>2. ~Request(o)
      <3>1. ~DecodeAndValidate(o)
        BY <1>1, <2>1 DEF DecodeAndValidate, Typed
      <3>2. ~CallDispatch(o)
        BY <1>1, <2>1, DispatchGoesOn DEF CallDispatch, Calling, Closed, Reading, Open, Requests
      <3> QED
        BY <3>1, <3>2 DEF Request
    <2> QED
      BY <2>1, <2>2 DEF RequestGoesOn, Reading, Calling, Closed
  <1>4. CASE Arrive(o)
    BY <1>4 DEF Arrive, RequestGoesOn, Reading, Calling, Request, DecodeAndValidate, CallDispatch
  <1>5. CASE DecodeAndValidate(o)
    <2>1. request[o] = "reading" /\ request'[o] \in {"handling", "400"} /\ caller'[o] = "idle"
      BY <1>1, <1>5 DEF DecodeAndValidate, Typed, poolVars, Requests
    <2> QED
      BY <2>1 DEF RequestGoesOn, Reading, Calling, Closed, Open
  <1>6. CASE CallDispatch(o)
    <2>1. request[o] = "handling" /\ caller'[o] # "idle"
      BY <1>1, <1>6, DispatchEffect DEF CallDispatch
    <2>2. ~(Closed(o)' /\ Calling(o, "checked")')
      BY DEF Closed, Calling, Open
    <2> QED
      BY <1>1, <1>6, <2>1, <2>2, DispatchGoesOn DEF RequestGoesOn, Reading, Calling
  <1> QED
    BY <1>1, <1>2, <1>3, <1>4, <1>5, <1>6, Others

\* A request that is open is answered, or its connection is dropped: reading
\* it ends, and Dispatch never waits for room in the queue, so the handler
\* returns whatever the queue, the workers and the shutdown do.
THEOREM RequestEnds ==
  ASSUME NEW o \in Orders
  PROVE  Spec /\ WF_vars(Request(o)) /\ []RequestEnabled(o)
           => (request[o] \in Open ~> (request[o] \notin Open \/ ~Alive))
  <1>1. SafeInv /\ [Next]_vars => RequestGoesOn(o)
    BY RequestMoves
  <1>2. SafeInv /\ request[o] \in Open
          => Reading(o) \/ Calling(o, "idle") \/ Calling(o, "checked")
    BY DEF SafeInv, Requests, Open, Reading, Calling
  <1>3. RequestEnabled(o) /\ Alive
          => (Reading(o) \/ Calling(o, "idle") \/ Calling(o, "checked")
                => ENABLED <<Request(o)>>_vars)
    BY DEF RequestEnabled, CanRequest, Reading, Calling
  <1>4. Closed(o) <=> request[o] \notin Open
    BY DEF Closed
  <1> QED
    BY <1>1, <1>2, <1>3, <1>4, Safe, PTL DEF RequestGoesOn, Spec

\* The guards of a worker in Handle: neither its sleep, nor the generator, nor
\* its write waits for another goroutine.
CanHandle(w) == Alive /\ step[w] # "none"

HandleEnabled(w) == CanHandle(w) => ENABLED <<Worker(w)>>_vars

\* Worker w has order o, at this place of Handle.
Handles(w, o, where) == holding[w] = o /\ step[w] = where
Decided(o) == o \in executed

HandleGoesOn(w, o) ==
    /\ Handles(w, o, "sleep") => \/ Handles(w, o, "sleep")' \/ Handles(w, o, "rng")'
                                 \/ Handles(w, o, "produce")' \/ Decided(o)'
    /\ Handles(w, o, "rng") =>
         Handles(w, o, "rng")' \/ Handles(w, o, "produce")' \/ Decided(o)'
    /\ Handles(w, o, "produce") => Handles(w, o, "produce")' \/ Decided(o)'
    /\ Worker(w) => /\ Handles(w, o, "sleep") => ~Handles(w, o, "sleep")'
                    /\ Handles(w, o, "rng") => ~Handles(w, o, "rng")'
                    /\ Handles(w, o, "produce") => ~Handles(w, o, "produce")'

LEMMA OthersLeaveHandle ==
  ASSUME JobFacts, Typed, [Next]_vars, NEW w \in Workers, ~Worker(w)
  PROVE  holding'[w] = holding[w] /\ step'[w] = step[w]
  <1>1. CASE UNCHANGED <<holding, step>>
    BY <1>1
  <1>2. ASSUME NEW o \in Orders, Arrive(o) \/ Request(o) \/ Disconnect(o)
        PROVE  UNCHANGED <<holding, step>>
    BY <1>2, DispatchEffect, CancelEffect
       DEF Arrive, Request, DecodeAndValidate, CallDispatch, Disconnect, RequestFrame, poolVars
  <1>3. ASSUME NEW v \in Workers, Worker(v)
        PROVE  holding'[w] = holding[w] /\ step'[w] = step[w]
    <2>1. v # w
      BY <1>3
    <2>2. CASE StartOrder(v)
      BY <2>1, <2>2, TakeEffect DEF StartOrder, JobFacts, Typed
    <2>3. CASE Ends(v)
      BY <2>1, <2>3, FinishEffect DEF Ends, JobFacts, Typed
    <2>4. CASE NoFault(v) \/ EnterRng(v) \/ RollPasses(v)
      BY <2>1, <2>4 DEF NoFault, EnterRng, RollPasses, poolVars, Typed
    <2>5. CASE LeavePool(v)
      BY <2>5, LeaveEffect DEF LeavePool
    <2> QED
      BY <1>3, <2>2, <2>3, <2>4, <2>5, EndsOfHandle DEF Worker
  <1>4. ASSUME NEW v \in Workers, RngRace(v) PROVE UNCHANGED <<holding, step>>
    BY <1>4 DEF RngRace, poolVars
  <1>5. CASE MainStep \/ Signal \/ HttpTimeout \/ BrokerSwitch \/ ConsumerFails \/ UNCHANGED vars
    BY <1>5, ShutdownEffect, CancelEffect
       DEF MainStep, HttpDrained, Cancel, Drain, DrainReturns, CloseProducer, Exit, Signal,
           HttpTimeout, BrokerSwitch, ConsumerFails, MainFrame, vars, poolVars
  <1> QED
    BY <1>1, <1>2, <1>3, <1>4, <1>5 DEF Next

LEMMA HandleMovesOn ==
  ASSUME SafeInv, [Next]_vars, NEW w \in Workers, NEW o \in Orders
  PROVE  HandleGoesOn(w, o)
  <1> USE DEF HandleGoesOn, Handles, Decided
  <1>1. JobFacts /\ Typed /\ Handling
    BY PoolFacts DEF SafeInv
  <1>2. CASE ~Worker(w)
    BY <1>1, <1>2, OthersLeaveHandle
  <1>3. CASE StartOrder(w) \/ LeavePool(w)
    <2>1. step[w] = "none"
      BY <1>1, <1>3, TakeEffect
         DEF StartOrder, LeavePool, D!WorkerSeesClosed, D!WorkerCancelled, D!Selecting, Handling
    <2> QED
      BY <2>1
  <1>4. CASE Ends(w)
    <2>1. step'[w] = "none" /\ executed' = executed \cup {holding[w]}
      BY <1>1, <1>4, FinishEffect DEF Ends, Typed
    <2> QED
      BY <2>1
  <1>5. CASE NoFault(w) \/ EnterRng(w) \/ RollPasses(w)
    <2>1. /\ holding'[w] = holding[w]
          /\ \/ step[w] = "sleep" /\ step'[w] \in {"rng", "produce"}
             \/ step[w] = "rng" /\ step'[w] = "produce"
      BY <1>1, <1>5 DEF NoFault, EnterRng, RollPasses, poolVars, Typed
    <2> QED
      BY <2>1
  <1> QED
    BY <1>2, <1>3, <1>4, <1>5, EndsOfHandle DEF Worker

\* A worker gets every order that it has started through Handle: whatever the
\* broker, the faults and the shutdown do, its job is executed, unless the
\* process ends first.
THEOREM HandleEnds ==
  ASSUME NEW w \in Workers, NEW o \in Orders
  PROVE  Spec /\ WF_vars(Worker(w)) /\ []HandleEnabled(w)
           => (holding[w] = o ~> (o \in executed \/ ~Alive))
  <1>1. SafeInv /\ [Next]_vars => HandleGoesOn(w, o)
    BY HandleMovesOn
  <1>2. SafeInv /\ holding[w] = o
          => Handles(w, o, "sleep") \/ Handles(w, o, "rng") \/ Handles(w, o, "produce")
    BY NoOrderAssumption DEF SafeInv, Handling, Typed, HandleSteps, Handles
  <1>3. HandleEnabled(w) /\ Alive
          => (Handles(w, o, "sleep") \/ Handles(w, o, "rng") \/ Handles(w, o, "produce")
                => ENABLED <<Worker(w)>>_vars)
    BY DEF HandleEnabled, CanHandle, Handles
  <1>4. Decided(o) <=> o \in executed
    BY DEF Decided
  <1> QED
    BY <1>1, <1>2, <1>3, <1>4, Safe, PTL DEF HandleGoesOn, Spec

-----------------------------------------------------------------------------
(* Progress of main, once it waits for no request.                         *)

\* The guards of MainStep; a worker's deadline may always end the drain.
CanStop ==
    \/ main = "httpShutdown" /\ \A o \in Orders : request[o] \notin Open
    \/ main = "cancel" /\ ~rootDone
    \/ /\ main = "drain"
       /\ \/ stopper["main"] = "idle" /\ shutdownOnce \in {"new", "done"}
          \/ stopper["main"] \in {"closing", "waiting", "nil", "timeout"}
    \/ main \in {"closeProducer", "closeConsumer"}

StopEnabled == CanStop => ENABLED <<MainStep>>_vars

\* The places of main from which it waits for no request any more.
Quiet == main = "httpShutdown" /\ \A o \in Orders : request[o] \notin Open
Draining(where) == main = "drain" /\ stopper["main"] = where
Drained == main = "drain" /\ stopper["main"] \in {"nil", "timeout"}
Closing(which) == main = which

\* main cancels the root context once, after the HTTP server.
NotCancelled == main \in {"serving", "httpShutdown", "cancel"} => ~rootDone

LEMMA NotCancelledKept == Typed /\ JobFacts /\ NotCancelled /\ [Next]_vars => NotCancelled'
  <1> SUFFICES ASSUME Typed, JobFacts, NotCancelled, [Next]_vars PROVE NotCancelled'
    OBVIOUS
  <1> USE DEF NotCancelled
  <1>1. ASSUME UNCHANGED <<main, rootDone>> PROVE NotCancelled'
    BY <1>1
  <1>2. ASSUME NEW o \in Orders, Arrive(o) \/ Request(o) \/ Disconnect(o)
        PROVE  UNCHANGED <<main, rootDone>>
    BY <1>2, DispatchEffect
       DEF Arrive, Request, DecodeAndValidate, CallDispatch, Disconnect, D!CancelRequest,
           RequestFrame, poolVars
  <1>3. ASSUME NEW w \in Workers, Worker(w) PROVE UNCHANGED <<main, rootDone>>
    BY <1>3, FinishEffect, TakeEffect, LeaveEffect
       DEF Worker, StartOrder, SleepCancelled, NoFault, EnterRng, RollPasses, RollFails,
           ProduceOk, ProduceFails, LeavePool, WorkerFrame, poolVars
  <1>4. ASSUME NEW w \in Workers, RngRace(w) PROVE NotCancelled'
    BY <1>4 DEF RngRace
  <1>5. CASE \/ HttpDrained \/ Signal \/ HttpTimeout
             \/ BrokerSwitch \/ ConsumerFails \/ UNCHANGED vars
    BY <1>5 DEF HttpDrained, Signal, HttpTimeout, BrokerSwitch, ConsumerFails, vars, poolVars
  <1>6. CASE Cancel \/ Drain \/ DrainReturns \/ CloseProducer \/ Exit
    BY <1>6, ShutdownEffect DEF Cancel, Drain, DrainReturns, CloseProducer, Exit, poolVars
  <1> QED
    BY <1>1, <1>2, <1>3, <1>4, <1>5, <1>6 DEF Next, MainStep

\* Every step leaves main where it is, moves it on or ends the process, and a
\* step of its own moves it on.
StopGoesOn ==
    /\ Quiet => Quiet' \/ Closing("cancel")' \/ ~Alive'
    /\ Closing("cancel") => Closing("cancel")' \/ Draining("idle")' \/ ~Alive'
    /\ Draining("idle") =>
         Draining("idle")' \/ Draining("closing")' \/ Draining("waiting")' \/ ~Alive'
    /\ Draining("closing") => Draining("closing")' \/ Draining("waiting")' \/ ~Alive'
    /\ Draining("waiting") => Draining("waiting")' \/ Drained' \/ ~Alive'
    /\ Drained => Drained' \/ Closing("closeProducer")' \/ ~Alive'
    /\ Closing("closeProducer") =>
         Closing("closeProducer")' \/ Closing("closeConsumer")' \/ ~Alive'
    /\ Closing("closeConsumer") => Closing("closeConsumer")' \/ ~Alive'
    /\ MainStep =>
         /\ Quiet => ~Quiet'
         /\ Closing("cancel") => ~Closing("cancel")'
         /\ Draining("idle") => ~Draining("idle")'
         /\ Draining("closing") => ~Draining("closing")'
         /\ Draining("waiting") => ~Draining("waiting")'
         /\ Drained => ~Drained'
         /\ Closing("closeProducer") => ~Closing("closeProducer")'
         /\ Closing("closeConsumer") => ~Closing("closeConsumer")'

\* The other goroutines leave main and its call of Shutdown alone, and open no
\* request once the listener is closed.
LEMMA OthersLeaveMain ==
  ASSUME JobFacts, Typed, [Next]_vars, ~MainStep
  PROVE  \/ main' = "crashed"
         \/ main = "serving"
         \/ main = "httpShutdown" /\ main' = "cancel"
         \/ /\ UNCHANGED <<main, stopper>>
            /\ \A o \in Orders : request[o] \notin Open => request'[o] = request[o]
  <1>1. ASSUME NEW o \in Orders, Arrive(o) PROVE main = "serving"
    BY <1>1 DEF Arrive
  <1>2. ASSUME NEW o \in Orders, Request(o) \/ Disconnect(o)
        PROVE  /\ UNCHANGED <<main, stopper>>
               /\ \A q \in Orders : request[q] \notin Open => request'[q] = request[q]
    BY <1>2, DispatchEffect, CancelEffect
       DEF Request, DecodeAndValidate, CallDispatch, Disconnect, RequestFrame, poolVars, Typed, Open
  <1>3. ASSUME NEW w \in Workers, Worker(w) PROVE UNCHANGED <<main, stopper, request>>
    BY <1>3, FinishEffect, TakeEffect, LeaveEffect
       DEF Worker, StartOrder, SleepCancelled, NoFault, EnterRng, RollPasses, RollFails,
           ProduceOk, ProduceFails, LeavePool, WorkerFrame, poolVars
  <1>4. ASSUME NEW w \in Workers, RngRace(w) PROVE main' = "crashed"
    BY <1>4 DEF RngRace
  <1>5. CASE Signal \/ HttpTimeout
    BY <1>5 DEF Signal, HttpTimeout
  <1>6. CASE BrokerSwitch \/ ConsumerFails \/ UNCHANGED vars
    BY <1>6 DEF BrokerSwitch, ConsumerFails, vars, poolVars
  <1> QED
    BY <1>1, <1>2, <1>3, <1>4, <1>5, <1>6 DEF Next

LEMMA StopMoves ==
  ASSUME SafeInv, [Next]_vars
  PROVE  StopGoesOn
  <1> USE DEF StopGoesOn, Quiet, Closing, Draining, Drained
  <1>1. JobFacts /\ Typed /\ Stages
    BY PoolFacts DEF SafeInv
  <1>2. CASE ~MainStep
    BY <1>1, <1>2, OthersLeaveMain DEF Alive
  <1>3. CASE HttpDrained \/ DrainReturns \/ CloseProducer \/ Exit
    BY <1>3 DEF HttpDrained, DrainReturns, CloseProducer, Exit, Alive
  <1>4. CASE Cancel
    <2>1. main = "cancel" /\ main' = "drain" /\ stopper' = stopper /\ stopper["main"] = "idle"
      BY <1>1, <1>4, CancelEffect DEF Cancel, Stages
    <2> QED
      BY <2>1
  <1>5. CASE Drain
    <2>1. /\ main = "drain" /\ main' = "drain"
          /\ \/ stopper["main"] = "idle" /\ stopper'["main"] \in {"closing", "waiting"}
             \/ stopper["main"] = "closing" /\ stopper'["main"] = "waiting"
             \/ stopper["main"] = "waiting" /\ stopper'["main"] \in {"nil", "timeout"}
      BY <1>1, <1>5 DEF Drain, D!Shutdown, D!BeginShutdown, D!CloseJobQueue, D!JoinShutdown,
                        D!DrainDone, D!DrainTimeout, JobFacts
    <2> QED
      BY <2>1
  <1> QED
    BY <1>2, <1>3, <1>4, <1>5 DEF MainStep

\* From the last answer on, or from the timeout of the HTTP server, main ends
\* the process: Shutdown of the dispatcher returns at its deadline whatever the
\* workers do, and main goes on with an error as without one.
THEOREM ShutdownGoesThrough ==
  Spec /\ WF_vars(MainStep) /\ []StopEnabled
    => ((\/ main = "httpShutdown" /\ \A o \in Orders : request[o] \notin Open
         \/ main \in {"cancel", "drain", "closeProducer", "closeConsumer"}) ~> ~Alive)
  <1> DEFINE going == \/ Quiet \/ Closing("cancel") \/ Draining("idle") \/ Draining("closing")
                      \/ Draining("waiting") \/ Drained \/ Closing("closeProducer")
                      \/ Closing("closeConsumer")
             begun == \/ main = "httpShutdown" /\ \A o \in Orders : request[o] \notin Open
                      \/ main \in {"cancel", "drain", "closeProducer", "closeConsumer"}
  <1>1. SafeInv /\ [Next]_vars => StopGoesOn
    BY StopMoves
  <1>2. SafeInv /\ begun => going
    BY PoolFacts DEF SafeInv, JobFacts, P!StopStates, Quiet, Closing, Draining, Drained
  <1>3. SafeInv /\ NotCancelled /\ StopEnabled => (going => ENABLED <<MainStep>>_vars)
    <2> SUFFICES ASSUME SafeInv, NotCancelled, going PROVE CanStop
      BY DEF StopEnabled
    <2>1. stopper["main"] = "idle" => shutdownOnce = "new"
      BY DEF SafeInv, Stages, P!IInv, P!OnceInv
    <2> QED
      BY <2>1 DEF CanStop, NotCancelled, Quiet, Closing, Draining, Drained
  <1>4. Init => NotCancelled
    BY DEF Init, D!Init, NotCancelled
  <1>5. SafeInv /\ NotCancelled /\ [Next]_vars => NotCancelled'
    BY NotCancelledKept, PoolFacts DEF SafeInv
  <1> QED
    BY <1>1, <1>2, <1>3, <1>4, <1>5, Safe, PTL DEF StopGoesOn, Spec
=============================================================================
