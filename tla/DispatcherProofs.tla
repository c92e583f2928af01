-------------------------- MODULE DispatcherProofs --------------------------
(***************************************************************************)
(* Proofs about Dispatcher for any set of jobs, any finite set of workers, *)
(* any number of callers of Shutdown and any queue length.  One inductive  *)
(* invariant, IInv, carries all of them.                                   *)
(***************************************************************************)
EXTENDS Dispatcher, FiniteSetTheorems, SequenceTheorems, TLAPS

(* A parameter of the pool: how many jobs the queue holds. *)
LEMMA CapacityNat == Capacity \in Nat
  BY WorkersAssumption, SlotsAssumption, FS_CardinalityType DEF Capacity

(* The base case and the step of type correctness. *)
LEMMA TypeInit == Init => TypeOK
<1> SUFFICES ASSUME Init PROVE TypeOK
  OBVIOUS
<1> USE DEF Init
<1>1. jobQueue \in Seq(Jobs)
  OBVIOUS
<1>2. caller \in [Jobs -> CallStates]
  BY DEF CallStates
<1>3. holding \in [Workers -> Jobs \cup {NoJob}]
  OBVIOUS
<1>4. stopper \in [Stoppers -> StopStates]
  BY DEF StopStates
<1> QED
  BY <1>1, <1>2, <1>3, <1>4 DEF TypeOK

(* No action of a caller, a worker or a stopper breaks the types. *)
LEMMA TypeStep == TypeOK /\ [Next]_vars => TypeOK'
<1> SUFFICES ASSUME TypeOK, [Next]_vars PROVE TypeOK'
  OBVIOUS
<1> USE DEF TypeOK, CallStates, Refusals, StopStates, callVars, chanVars, workVars
<1>1. ASSUME NEW j \in Jobs, Dispatch(j) PROVE TypeOK'
  <2>1. CASE CheckShutdown(j)
    BY <2>1 DEF CheckShutdown
  <2>2. CASE Send(j)
    BY <2>2 DEF Send
  <2>3. CASE SendPanics(j)
    BY <2>3 DEF SendPanics
  <2>4. CASE SendCancelled(j)
    BY <2>4 DEF SendCancelled
  <2>5. CASE SendFull(j)
    BY <2>5 DEF SendFull
  <2> QED
    BY <1>1, <2>1, <2>2, <2>3, <2>4, <2>5 DEF Dispatch
<1>2. ASSUME NEW w \in Workers, Worker(w) PROVE TypeOK'
  <2>1. CASE WorkerTake(w)
    <3>1. Head(jobQueue) \in Jobs /\ Tail(jobQueue) \in Seq(Jobs)
      BY <2>1, HeadTailProperties DEF WorkerTake
    <3> QED
      BY <2>1, <3>1 DEF WorkerTake
  <2>2. CASE WorkerSeesClosed(w)
    BY <2>2 DEF WorkerSeesClosed
  <2>3. CASE WorkerCancelled(w)
    BY <2>3 DEF WorkerCancelled
  <2>4. CASE WorkerFinish(w)
    BY <2>4 DEF WorkerFinish
  <2> QED
    BY <1>2, <2>1, <2>2, <2>3, <2>4 DEF Worker
<1>3. ASSUME NEW s \in Stoppers, Shutdown(s) PROVE TypeOK'
  BY <1>3 DEF Shutdown, BeginShutdown, CloseJobQueue, JoinShutdown, DrainDone,
              DrainTimeout
<1>4. CASE CancelRoot
  BY <1>4 DEF CancelRoot
<1>5. ASSUME NEW j \in Jobs, CancelRequest(j) PROVE TypeOK'
  BY <1>5 DEF CancelRequest
<1>6. CASE UNCHANGED vars
  BY <1>6 DEF vars
<1> QED
  BY <1>1, <1>2, <1>3, <1>4, <1>5, <1>6 DEF Next

(* The variables have their types in every reachable state. *)
THEOREM TypeCorrect == Spec => []TypeOK
  BY TypeInit, TypeStep, PTL DEF Spec

-----------------------------------------------------------------------------

(* The inductive invariant holds at the start. *)
LEMMA IInvInit == Init => IInv
<1> SUFFICES ASSUME Init PROVE IInv
  OBVIOUS
<1>1. TypeOK
  BY TypeInit
<1>2. QueueInv
  BY CapacityNat DEF Init, QueueInv
<1>3. HoldingInv
  BY DEF Init, HoldingInv
<1>4. ResultInv
  BY DEF Init, ResultInv
<1>5. OnceInv
  BY DEF Init, OnceInv
<1>6. NoJobLeftBehind
  BY DEF Init, NoJobLeftBehind
<1> QED
  BY <1>1, <1>2, <1>3, <1>4, <1>5, <1>6 DEF IInv

(* A Dispatch call that does not end in acceptance changes the result of   *)
(* one unaccepted job and nothing else; the invariant does not look at it. *)
LEMMA NotAccepted ==
  ASSUME IInv, TypeOK',
         NEW j \in Jobs, caller[j] # "nil",
         NEW r, r # "nil",
         caller' = [caller EXCEPT ![j] = r],
         UNCHANGED <<rootDone, stopper>>, UNCHANGED chanVars, UNCHANGED workVars
  PROVE  IInv'
<1> USE DEF chanVars, workVars
<1>0. \A k \in Jobs : caller'[k] = "nil" <=> caller[k] = "nil"
  BY DEF IInv, TypeOK
<1>1. \A i \in DOMAIN jobQueue : jobQueue[i] \in Jobs
  BY ElementOfSeq DEF IInv, TypeOK
<1>2. QueueInv'
  BY <1>0, <1>1 DEF IInv, QueueInv, Capacity
<1>3. HoldingInv'
  BY <1>0 DEF IInv, TypeOK, HoldingInv
<1>4. ResultInv'
  BY <1>0 DEF IInv, TypeOK, ResultInv
<1>5. OnceInv'
  BY DEF IInv, OnceInv
<1>6. NoJobLeftBehind'
  BY DEF IInv, NoJobLeftBehind
<1> QED
  BY <1>2, <1>3, <1>4, <1>5, <1>6 DEF IInv

(* Send puts a job in the queue that was nowhere before. *)
LEMMA SendInv ==
  ASSUME IInv, TypeOK', NEW j \in Jobs, Send(j)
  PROVE  IInv'
<1> USE DEF Send, workVars
<1>1. /\ jobQueue \in Seq(Jobs)
      /\ Len(jobQueue') = Len(jobQueue) + 1
      /\ \A i \in 1 .. Len(jobQueue) : jobQueue'[i] = jobQueue[i]
      /\ jobQueue'[Len(jobQueue) + 1] = j
      /\ DOMAIN jobQueue = 1 .. Len(jobQueue)
      /\ DOMAIN jobQueue' = 1 .. Len(jobQueue) + 1
      /\ Len(jobQueue) \in Nat
  BY AppendProperties, LenProperties DEF IInv, TypeOK
<1>2. \A k \in Jobs : caller'[k] = IF k = j THEN "nil" ELSE caller[k]
  BY DEF IInv, TypeOK
<1>3. /\ j \notin executed
      /\ \A w \in Workers : holding[w] # j
      /\ \A i \in DOMAIN jobQueue : jobQueue[i] # j
  BY NoJobAssumption DEF IInv, QueueInv, HoldingInv, ResultInv
<1>4. \A i \in DOMAIN jobQueue : jobQueue[i] \in Jobs
  BY <1>1, ElementOfSeq
<1>5. QueueInv'
  <2>1. (Len(jobQueue) <= Capacity)'
    BY <1>1, CapacityNat DEF Capacity
  <2>2. (\A i, k \in DOMAIN jobQueue : jobQueue[i] = jobQueue[k] => i = k)'
    BY <1>1, <1>3 DEF IInv, QueueInv
  <2>3. ASSUME NEW i \in DOMAIN jobQueue'
        PROVE  /\ caller'[jobQueue'[i]] = "nil"
               /\ jobQueue'[i] \notin executed'
               /\ \A w \in Workers : holding'[w] # jobQueue'[i]
    <3>1. CASE i = Len(jobQueue) + 1
      BY <3>1, <1>1, <1>2, <1>3
    <3>2. CASE i \in DOMAIN jobQueue
      BY <3>2, <1>1, <1>2, <1>4 DEF IInv, QueueInv
    <3> QED
      BY <3>1, <3>2, <1>1
  <2> QED
    BY <2>1, <2>2, <2>3 DEF QueueInv
<1>6. HoldingInv'
  BY <1>2 DEF IInv, TypeOK, HoldingInv
<1>7. ResultInv'
  <2>1. \A k \in executed' : caller'[k] = "nil"
    BY <1>2 DEF IInv, TypeOK, ResultInv
  <2>2. ASSUME NEW k \in Jobs, caller'[k] = "nil", k \notin executed',
               \A w \in Workers : holding'[w] # k
        PROVE  \E i \in DOMAIN jobQueue' : jobQueue'[i] = k
    <3>1. CASE k = j
      BY <3>1, <1>1
    <3>2. CASE k # j
      <4>1. PICK i \in DOMAIN jobQueue : jobQueue[i] = k
        BY <2>2, <3>2, <1>2 DEF IInv, ResultInv
      <4> QED
        BY <4>1, <1>1
    <3> QED
      BY <3>1, <3>2
  <2> QED
    BY <2>1, <2>2 DEF ResultInv
<1>8. OnceInv'
  BY DEF IInv, OnceInv
<1>9. NoJobLeftBehind'
  BY DEF IInv, NoJobLeftBehind
<1> QED
  BY <1>5, <1>6, <1>7, <1>8, <1>9 DEF IInv

(* A worker takes the oldest job: it leaves the queue and is held by one   *)
(* worker only.                                                            *)
LEMMA TakeInv ==
  ASSUME IInv, TypeOK', NEW w \in Workers, WorkerTake(w)
  PROVE  IInv'
<1> USE DEF WorkerTake, callVars
<1> DEFINE h == Head(jobQueue)
<1>1. /\ h \in Jobs
      /\ h = jobQueue[1]
      /\ Len(jobQueue) \in Nat \ {0}
      /\ Len(jobQueue') = Len(jobQueue) - 1
      /\ \A i \in 1 .. Len(jobQueue) - 1 : jobQueue'[i] = jobQueue[i + 1]
      /\ DOMAIN jobQueue = 1 .. Len(jobQueue)
      /\ DOMAIN jobQueue' = 1 .. Len(jobQueue) - 1
  BY HeadTailProperties, LenProperties, EmptySeq DEF IInv, TypeOK
<1>2. \A v \in Workers : holding'[v] = IF v = w THEN h ELSE holding[v]
  BY DEF IInv, TypeOK
<1>3. /\ caller[h] = "nil"
      /\ h \notin executed
      /\ \A v \in Workers : holding[v] # h
      /\ h # NoJob
  BY <1>1, NoJobAssumption DEF IInv, QueueInv
<1>4. QueueInv'
  <2>1. (Len(jobQueue) <= Capacity)'
    BY <1>1, CapacityNat DEF Capacity, IInv, QueueInv
  <2>2. (\A i, k \in DOMAIN jobQueue : jobQueue[i] = jobQueue[k] => i = k)'
    <3> SUFFICES ASSUME NEW i \in DOMAIN jobQueue', NEW k \in DOMAIN jobQueue',
                        jobQueue'[i] = jobQueue'[k]
                 PROVE  i = k
      OBVIOUS
    <3>1. jobQueue[i + 1] = jobQueue[k + 1] /\ i + 1 \in DOMAIN jobQueue
                                            /\ k + 1 \in DOMAIN jobQueue
      BY <1>1
    <3>2. i + 1 = k + 1
      BY <3>1 DEF IInv, QueueInv
    <3> QED
      BY <3>2, <1>1
  <2>3. ASSUME NEW i \in DOMAIN jobQueue'
        PROVE  /\ caller'[jobQueue'[i]] = "nil"
               /\ jobQueue'[i] \notin executed'
               /\ \A v \in Workers : holding'[v] # jobQueue'[i]
    <3>1. /\ i + 1 \in DOMAIN jobQueue
          /\ jobQueue'[i] = jobQueue[i + 1]
          /\ i + 1 # 1
          /\ 1 \in DOMAIN jobQueue
      BY <1>1
    <3>2. jobQueue'[i] # h
      BY <3>1, <1>1 DEF IInv, QueueInv
    <3> QED
      BY <3>1, <3>2, <1>2 DEF IInv, QueueInv
  <2> QED
    BY <2>1, <2>2, <2>3 DEF QueueInv
<1>5. HoldingInv'
  <2> SUFFICES ASSUME NEW v \in Workers, holding'[v] # NoJob
               PROVE  /\ v \notin exited'
                      /\ caller'[holding'[v]] = "nil"
                      /\ holding'[v] \notin executed'
                      /\ \A u \in Workers : holding'[u] = holding'[v] => u = v
    BY DEF HoldingInv
  <2>1. CASE v = w
    BY <2>1, <1>2, <1>3 DEF Selecting
  <2>2. CASE v # w
    BY <2>2, <1>2, <1>3 DEF IInv, HoldingInv
  <2> QED
    BY <2>1, <2>2
<1>6. ResultInv'
  <2>1. \A k \in executed' : caller'[k] = "nil"
    BY DEF IInv, ResultInv
  <2>2. ASSUME NEW k \in Jobs, caller'[k] = "nil", k \notin executed',
               \A v \in Workers : holding'[v] # k
        PROVE  \E i \in DOMAIN jobQueue' : jobQueue'[i] = k
    <3>1. k # h /\ \A v \in Workers : holding[v] # k
      BY <2>2, <1>2, NoJobAssumption DEF Selecting
    <3>2. PICK i \in DOMAIN jobQueue : jobQueue[i] = k
      BY <2>2, <3>1 DEF IInv, ResultInv
    <3>3. i # 1
      BY <3>1, <3>2, <1>1
    <3>4. i - 1 \in DOMAIN jobQueue' /\ jobQueue'[i - 1] = k
      BY <3>2, <3>3, <1>1
    <3> QED
      BY <3>4
  <2> QED
    BY <2>1, <2>2 DEF ResultInv
<1>7. OnceInv'
  BY DEF IInv, OnceInv
<1>8. NoJobLeftBehind'
  BY DEF IInv, NoJobLeftBehind
<1> QED
  BY <1>4, <1>5, <1>6, <1>7, <1>8 DEF IInv

(* A job that returns moves from its worker to the executed ones. *)
LEMMA FinishInv ==
  ASSUME IInv, TypeOK', NEW w \in Workers, WorkerFinish(w)
  PROVE  IInv'
<1> USE DEF WorkerFinish, callVars, chanVars
<1>1. \A v \in Workers : holding'[v] = IF v = w THEN NoJob ELSE holding[v]
  BY DEF IInv, TypeOK
<1>2. /\ holding[w] \in Jobs
      /\ caller[holding[w]] = "nil"
      /\ \A i \in DOMAIN jobQueue : jobQueue[i] # holding[w] /\ jobQueue[i] \in Jobs
  BY ElementOfSeq DEF IInv, TypeOK, HoldingInv, QueueInv
<1>3. QueueInv'
  BY <1>1, <1>2, NoJobAssumption DEF IInv, QueueInv, Capacity
<1>4. HoldingInv'
  BY <1>1 DEF IInv, HoldingInv
<1>5. ResultInv'
  BY <1>1, <1>2 DEF IInv, ResultInv
<1>6. OnceInv'
  BY DEF IInv, OnceInv
<1>7. NoJobLeftBehind'
  BY DEF IInv, NoJobLeftBehind
<1> QED
  BY <1>3, <1>4, <1>5, <1>6, <1>7 DEF IInv

(* A worker returns idle, on a closed and empty queue or on cancellation.  *)
LEMMA LeaveInv ==
  ASSUME IInv, TypeOK', NEW w \in Workers,
         WorkerSeesClosed(w) \/ WorkerCancelled(w)
  PROVE  IInv'
<1> USE DEF WorkerSeesClosed, WorkerCancelled, Selecting, callVars, chanVars
<1>1. QueueInv'
  BY DEF IInv, QueueInv, Capacity
<1>2. HoldingInv'
  BY DEF IInv, HoldingInv
<1>3. ResultInv'
  BY DEF IInv, ResultInv
<1>4. OnceInv'
  BY DEF IInv, OnceInv, TypeOK
<1>5. NoJobLeftBehind'
  BY DEF IInv, NoJobLeftBehind
<1> QED
  BY <1>1, <1>2, <1>3, <1>4, <1>5 DEF IInv

(* The steps of Shutdown only move its own state and the two flags. *)
LEMMA ShutdownInv ==
  ASSUME IInv, TypeOK', NEW s \in Stoppers, Shutdown(s)
  PROVE  IInv'
<1>1. UNCHANGED <<jobQueue, caller, holding, exited, executed, rootDone>>
  BY DEF Shutdown, BeginShutdown, CloseJobQueue, JoinShutdown, DrainDone,
         DrainTimeout, callVars, chanVars, workVars
<1>2. QueueInv' /\ HoldingInv' /\ ResultInv'
  BY <1>1 DEF IInv, QueueInv, HoldingInv, ResultInv, Capacity
<1>3. NoJobLeftBehind' /\ OnceInv'
  <2> USE DEF IInv, TypeOK, OnceInv, NoJobLeftBehind, callVars, chanVars, workVars
  <2>1. CASE BeginShutdown(s)
    BY <2>1 DEF BeginShutdown
  <2>2. CASE CloseJobQueue(s)
    BY <2>2 DEF CloseJobQueue
  <2>3. CASE JoinShutdown(s)
    BY <2>3 DEF JoinShutdown
  <2>4. CASE DrainDone(s)
    BY <2>4 DEF DrainDone
  <2>5. CASE DrainTimeout(s)
    BY <2>5 DEF DrainTimeout
  <2> QED
    BY <2>1, <2>2, <2>3, <2>4, <2>5 DEF Shutdown
<1> QED
  BY <1>2, <1>3 DEF IInv

(* Contexts that are cancelled, and stuttering. *)
LEMMA ContextInv ==
  ASSUME IInv, TypeOK',
         UNCHANGED <<jobQueue, queueClosed, shutdownClosed, shutdownOnce, caller,
                     holding, exited, executed, stopper>>,
         rootDone => rootDone'
  PROVE  IInv'
<1>1. QueueInv' /\ HoldingInv' /\ ResultInv' /\ OnceInv'
  BY DEF IInv, QueueInv, HoldingInv, ResultInv, OnceInv, Capacity
<1>2. NoJobLeftBehind'
  BY DEF IInv, NoJobLeftBehind
<1> QED
  BY <1>1, <1>2 DEF IInv

-----------------------------------------------------------------------------

(* Every step preserves the inductive invariant. *)
LEMMA IInvStep == IInv /\ [Next]_vars => IInv'
<1> SUFFICES ASSUME IInv, [Next]_vars PROVE IInv'
  OBVIOUS
<1>0. TypeOK'
  BY TypeStep DEF IInv
<1>1. ASSUME NEW j \in Jobs, Dispatch(j) PROVE IInv'
  <2>1. CASE CheckShutdown(j)
    <3>1. (IF shutdownClosed THEN "closed" ELSE "checked") # "nil"
      OBVIOUS
    <3>2. caller[j] # "nil"
      BY <2>1 DEF CheckShutdown
    <3> QED
      BY <2>1, <3>1, <3>2, <1>0, NotAccepted DEF CheckShutdown
  <2>2. CASE Send(j)
    BY <2>2, <1>0, SendInv
  <2>3. CASE SendPanics(j)
    BY <2>3, <1>0, NotAccepted DEF SendPanics
  <2>4. CASE SendCancelled(j)
    BY <2>4, <1>0, NotAccepted DEF SendCancelled
  <2>5. CASE SendFull(j)
    BY <2>5, <1>0, NotAccepted DEF SendFull
  <2> QED
    BY <1>1, <2>1, <2>2, <2>3, <2>4, <2>5 DEF Dispatch
<1>2. ASSUME NEW w \in Workers, Worker(w) PROVE IInv'
  BY <1>2, <1>0, TakeInv, FinishInv, LeaveInv DEF Worker
<1>3. ASSUME NEW s \in Stoppers, Shutdown(s) PROVE IInv'
  BY <1>3, <1>0, ShutdownInv
<1>4. CASE CancelRoot
  BY <1>4, <1>0, ContextInv DEF CancelRoot, callVars, chanVars, workVars
<1>5. ASSUME NEW j \in Jobs, CancelRequest(j) PROVE IInv'
  BY <1>5, <1>0, ContextInv DEF CancelRequest, chanVars, workVars
<1>6. CASE UNCHANGED vars
  BY <1>6, <1>0, ContextInv DEF vars
<1> QED
  BY <1>1, <1>2, <1>3, <1>4, <1>5, <1>6 DEF Next

(* The inductive invariant holds in every reachable state. *)
THEOREM Inductive == Spec => []IInv
  BY IInvInit, IInvStep, PTL DEF Spec

(* Every accepted job is in exactly one place and no refused job is in any *)
(* (dispatcher.go, the hand-over from Dispatch to runWorker).              *)
THEOREM Conservation == Spec => []JobConservation
<1>1. IInv => JobConservation
  <2> SUFFICES ASSUME IInv PROVE JobConservation
    OBVIOUS
  <2> USE DEF IInv, QueueInv, HoldingInv, ResultInv
  <2>1. \A i \in DOMAIN jobQueue : jobQueue[i] \in Jobs
    BY ElementOfSeq DEF TypeOK
  <2>2. Range(jobQueue) \subseteq Accepted
    BY <2>1 DEF Range, Accepted
  <2>3. Running \subseteq Accepted
    BY DEF Running, Accepted, TypeOK
  <2>4. executed \subseteq Accepted
    BY DEF Accepted, TypeOK
  <2>5. Accepted \subseteq Range(jobQueue) \cup Running \cup executed
    BY NoJobAssumption DEF Range, Accepted, Running
  <2>6. /\ Range(jobQueue) \cap Running = {}
        /\ Range(jobQueue) \cap executed = {}
        /\ Running \cap executed = {}
    BY DEF Range, Running
  <2>7. /\ \A i, k \in DOMAIN jobQueue : jobQueue[i] = jobQueue[k] => i = k
        /\ \A v, w \in Workers : holding[v] = holding[w] /\ v # w => holding[v] = NoJob
    OBVIOUS
  <2> QED
    BY <2>2, <2>3, <2>4, <2>5, <2>6, <2>7 DEF JobConservation
<1> QED
  BY <1>1, Inductive, PTL

(* When Shutdown returns nil the pool is quiet, and without a cancelled    *)
(* root context all that was accepted has been executed.  With no workers  *)
(* at all this rests on the queue having no room.                          *)
THEOREM Drained == Spec => []DrainedWhenNil
<1>1. IInv => DrainedWhenNil
  <2> SUFFICES ASSUME IInv, NEW s \in Stoppers, stopper[s] = "nil"
               PROVE  exited = Workers /\ Running = {} /\ (rootDone \/ Accepted = executed)
    BY DEF DrainedWhenNil
  <2>1. exited = Workers /\ queueClosed
    BY DEF IInv, OnceInv
  <2>2. \A w \in Workers : holding[w] = NoJob
    BY <2>1 DEF IInv, HoldingInv
  <2>3. Running = {}
    BY <2>2 DEF Running
  <2>4. ASSUME ~rootDone PROVE jobQueue = <<>>
    <3>1. CASE Workers = {}
      <4>1. Capacity = 0
        BY <3>1, FS_EmptySet, SlotsAssumption DEF Capacity
      <4> QED
        BY <4>1, LenProperties, EmptySeq DEF IInv, QueueInv, TypeOK
    <3>2. CASE Workers # {}
      BY <3>2, <2>1, <2>4 DEF IInv, NoJobLeftBehind
    <3> QED
      BY <3>1, <3>2
  <2>5. ASSUME ~rootDone PROVE Accepted = executed
    <3>1. DOMAIN jobQueue = {}
      BY <2>4, <2>5
    <3> QED
      BY <3>1, <2>2, NoJobAssumption DEF IInv, TypeOK, ResultInv, Accepted
  <2> QED
    BY <2>1, <2>3, <2>5
<1> QED
  BY <1>1, Inductive, PTL

(* The two channels are closed once, in order, by one goroutine. *)
THEOREM CloseOnce == Spec => []ClosedOnce
<1>1. IInv => ClosedOnce
  BY DEF IInv, TypeOK, OnceInv, ClosedOnce
<1> QED
  BY <1>1, Inductive, PTL

(* A worker abandons queued jobs only after the root context is cancelled. *)
THEOREM NothingLeftBehind == Spec => []NoJobLeftBehind
<1>1. IInv => NoJobLeftBehind
  BY DEF IInv
<1> QED
  BY <1>1, Inductive, PTL

(* After the closes of a Shutdown no Dispatch call succeeds. *)
THEOREM LateAdmission == Spec => NoLateAdmission
<1>1. IInv /\ [Next]_vars =>
        [(\E s \in Stoppers : stopper[s] \in {"waiting", "nil", "timeout"})
            => Accepted' = Accepted]_vars
  <2> SUFFICES ASSUME IInv, Next, NEW s \in Stoppers,
                      stopper[s] \in {"waiting", "nil", "timeout"}
               PROVE  Accepted' = Accepted
    OBVIOUS
  <2> USE DEF IInv, TypeOK, Accepted, callVars, chanVars, workVars
  <2>1. queueClosed
    BY DEF OnceInv
  <2>2. ASSUME NEW j \in Jobs, Dispatch(j) PROVE Accepted' = Accepted
    BY <2>1, <2>2 DEF Dispatch, CheckShutdown, Send, SendPanics, SendCancelled,
                      SendFull
  <2>3. ASSUME caller' = caller PROVE Accepted' = Accepted
    BY <2>3
  <2>4. (\A j \in Jobs : ~Dispatch(j)) => caller' = caller
    BY DEF Next, Worker, WorkerTake, WorkerSeesClosed, WorkerCancelled, WorkerFinish,
           Shutdown, BeginShutdown, CloseJobQueue, JoinShutdown, DrainDone,
           DrainTimeout, CancelRoot, CancelRequest
  <2> QED
    BY <2>2, <2>3, <2>4
<1> QED
  BY <1>1, Inductive, PTL DEF Spec, NoLateAdmission

-----------------------------------------------------------------------------
(* The dispatcher implements JobPool.  Refused, Overflowed and Quiet name  *)
(* what the mapping makes of the callers and of the stoppers.              *)

Overflowed == {j \in Jobs : caller[j] = "full"}
Refused == {j \in Jobs : caller[j] \in Refusals \ {"full"}}
Quiet == \E s \in Stoppers : stopper[s] = "nil"

(* While a worker is idle fewer jobs run than there are workers. *)
LEMMA RoomToRun ==
  ASSUME TypeOK, NEW w \in Workers, holding[w] = NoJob
  PROVE  Cardinality(Running) < Cardinality(Workers)
<1> DEFINE others == Workers \ {w}
           held == {holding[v] : v \in others}
           f == [v \in others |-> holding[v]]
<1>1. IsFiniteSet(others) /\ Cardinality(others) = Cardinality(Workers) - 1
  BY WorkersAssumption, FS_RemoveElement
<1>2. f \in Surjection(others, held)
  BY DEF Surjection
<1>3. IsFiniteSet(held) /\ Cardinality(held) <= Cardinality(others)
  BY <1>1, <1>2, FS_Surjection
<1>4. Running \in SUBSET held
  BY DEF Running
<1>5. Cardinality(Running) <= Cardinality(held) /\ IsFiniteSet(Running)
  BY <1>3, <1>4, FS_Subset
<1>6. /\ Cardinality(Workers) \in Nat
      /\ Cardinality(held) \in Nat
      /\ Cardinality(Running) \in Nat
  BY <1>3, <1>5, WorkersAssumption, FS_CardinalityType
<1> QED
  BY <1>1, <1>3, <1>5, <1>6

(* A job whose call has no result yet is not known to the pool. *)
LEMMA Unknown ==
  ASSUME IInv, NEW j \in Jobs, caller[j] \in {"idle", "checked"}
  PROVE  j \notin Pool!Known
<1> USE DEF IInv, QueueInv, HoldingInv, ResultInv
<1>1. j \notin {jobQueue[i] : i \in DOMAIN jobQueue}
  OBVIOUS
<1>2. j \notin Running
  BY DEF Running
<1>3. j \notin executed
  OBVIOUS
<1>4. j \notin Refused \cup Overflowed
  BY DEF Refused, Overflowed, Refusals
<1> QED
  BY <1>1, <1>2, <1>3, <1>4 DEF Pool!Known, Refused, Overflowed

(* A call of Dispatch is an admission, a refusal, or not yet visible. *)
LEMMA DispatchRefines ==
  ASSUME IInv, NEW j \in Jobs, Dispatch(j)
  PROVE  [Pool!Next]_(Pool!vars)
<1> USE DEF callVars, chanVars, workVars
<1>0. /\ caller \in [Jobs -> CallStates]
      /\ UNCHANGED <<queueClosed, rootDone, holding, executed, stopper>>
  BY DEF IInv, TypeOK, Dispatch, CheckShutdown, Send, SendPanics, SendCancelled,
         SendFull
<1>1. UNCHANGED <<Running, Quiet>>
  BY <1>0 DEF Running, Quiet
<1>2. ASSUME NEW r \in Refusals \ {"full"}, caller[j] \in {"idle", "checked"},
             caller' = [caller EXCEPT ![j] = r], jobQueue' = jobQueue
      PROVE  Pool!Refuse(j)
  <2>1. Refused' = Refused \cup {j} /\ Overflowed' = Overflowed
    BY <1>0, <1>2 DEF Refused, Overflowed
  <2> QED
    BY <2>1, <1>0, <1>1, <1>2, Unknown DEF Pool!Refuse, Refused, Overflowed, Quiet
<1>3. CASE CheckShutdown(j)
  <2>1. CASE shutdownClosed
    BY <2>1, <1>2, <1>3 DEF CheckShutdown, Refusals, Pool!Next
  <2>2. CASE ~shutdownClosed
    <3>1. Refused' = Refused /\ Overflowed' = Overflowed
      BY <2>2, <1>0, <1>3 DEF CheckShutdown, Refused, Overflowed, Refusals
    <3> QED
      BY <3>1, <1>0, <1>1, <1>3 DEF CheckShutdown, Pool!vars, Refused, Overflowed, Quiet
  <2> QED
    BY <2>1, <2>2
<1>4. CASE Send(j)
  <2>1. Refused' = Refused /\ Overflowed' = Overflowed
    BY <1>0, <1>4 DEF Send, Refused, Overflowed, Refusals
  <2>2. Pool!Admit(j)
    BY <2>1, <1>0, <1>1, <1>4, Unknown DEF Send, Pool!Admit, Refused, Overflowed, Quiet
  <2> QED
    BY <2>2 DEF Pool!Next
<1>5. CASE SendPanics(j) \/ SendCancelled(j)
  BY <1>2, <1>5 DEF SendPanics, SendCancelled, Refusals, Pool!Next
<1>6. CASE SendFull(j)
  <2>1. Overflowed' = Overflowed \cup {j} /\ Refused' = Refused
    BY <1>0, <1>6 DEF SendFull, Refused, Overflowed, Refusals
  <2>2. Pool!TurnAway(j)
    BY <2>1, <1>0, <1>1, <1>6, Unknown DEF SendFull, Pool!TurnAway, Refused, Overflowed, Quiet
  <2> QED
    BY <2>2 DEF Pool!Next
<1> QED
  BY <1>3, <1>4, <1>5, <1>6 DEF Dispatch

(* A worker starts the oldest job, finishes its job, or leaves unseen. *)
LEMMA WorkerRefines ==
  ASSUME IInv, NEW w \in Workers, Worker(w)
  PROVE  [Pool!Next]_(Pool!vars)
<1> USE DEF callVars, chanVars
<1>0. UNCHANGED <<queueClosed, rootDone, caller, stopper>>
  BY DEF Worker, WorkerTake, WorkerSeesClosed, WorkerCancelled, WorkerFinish
<1>1. UNCHANGED <<Refused, Overflowed, Quiet>>
  BY <1>0 DEF Refused, Overflowed, Quiet
<1>2. holding \in [Workers -> Jobs \cup {NoJob}]
  BY DEF IInv, TypeOK
<1>3. CASE WorkerTake(w)
  <2>1. Head(jobQueue) # NoJob
    BY <1>3, HeadTailProperties, NoJobAssumption DEF IInv, TypeOK, WorkerTake
  <2>2. Running' = Running \cup {Head(jobQueue)}
    BY <2>1, <1>2, <1>3 DEF WorkerTake, Selecting, Running
  <2>3. ~Quiet
    BY <1>3 DEF WorkerTake, Selecting, Quiet, IInv, OnceInv
  <2>4. Cardinality(Running) < Cardinality(Workers)
    BY <1>3, RoomToRun DEF WorkerTake, Selecting, IInv
  <2>5. UNCHANGED <<executed, Refused, Overflowed, queueClosed, rootDone, Quiet>>
    BY <1>0, <1>1, <1>3 DEF WorkerTake
  <2>6. jobQueue # <<>> /\ jobQueue' = Tail(jobQueue)
    BY <1>3 DEF WorkerTake
  <2>7. Pool!Cardinality(Running) = Cardinality(Running)
    BY DEF Pool!Cardinality, Cardinality
  <2>8. Pool!Start
    BY <2>2, <2>3, <2>4, <2>5, <2>6, <2>7 DEF Pool!Start, Refused, Overflowed, Quiet
  <2> QED
    BY <2>8 DEF Pool!Next
<1>4. CASE WorkerFinish(w)
  <2>1. Running' = Running \ {holding[w]}
    BY <1>2, <1>4 DEF WorkerFinish, Running, IInv, HoldingInv
  <2>2. holding[w] \in Running /\ holding[w] \in Jobs
    BY <1>2, <1>4 DEF WorkerFinish, Running
  <2>3. Pool!Finish(holding[w])
    BY <2>1, <2>2, <1>0, <1>1, <1>4 DEF WorkerFinish, Pool!Finish, Refused, Overflowed, Quiet
  <2> QED
    BY <2>2, <2>3 DEF Pool!Next
<1>5. CASE WorkerSeesClosed(w) \/ WorkerCancelled(w)
  <2>1. UNCHANGED <<jobQueue, executed, Running>>
    BY <1>5 DEF WorkerSeesClosed, WorkerCancelled, Running
  <2> QED
    BY <2>1, <1>0, <1>1 DEF Pool!vars, Refused, Overflowed, Quiet
<1> QED
  BY <1>3, <1>4, <1>5 DEF Worker

(* Shutdown closes the pool when it closes jobQueue, and announces that it *)
(* is drained when it returns nil.                                         *)
LEMMA ShutdownRefines ==
  ASSUME IInv, NEW s \in Stoppers, Shutdown(s)
  PROVE  [Pool!Next]_(Pool!vars)
<1> USE DEF callVars, chanVars, workVars
<1>0. UNCHANGED <<jobQueue, rootDone, caller, holding, executed>>
  BY DEF Shutdown, BeginShutdown, CloseJobQueue, JoinShutdown, DrainDone, DrainTimeout
<1>1. UNCHANGED <<Refused, Overflowed, Running>>
  BY <1>0 DEF Refused, Overflowed, Running
<1>2. stopper \in [Stoppers -> StopStates]
  BY DEF IInv, TypeOK
<1>3. CASE BeginShutdown(s) \/ JoinShutdown(s) \/ DrainTimeout(s)
  <2>1. UNCHANGED <<queueClosed, Quiet>>
    BY <1>2, <1>3 DEF BeginShutdown, JoinShutdown, DrainTimeout, Quiet
  <2> QED
    BY <2>1, <1>0, <1>1 DEF Pool!vars, Refused, Overflowed, Quiet
<1>4. CASE CloseJobQueue(s)
  <2>1. ~queueClosed /\ queueClosed'
    BY <1>4 DEF CloseJobQueue, IInv, OnceInv
  <2>2. UNCHANGED Quiet
    BY <1>2, <1>4 DEF CloseJobQueue, Quiet
  <2>3. Pool!Close
    BY <2>1, <2>2, <1>0, <1>1 DEF Pool!Close, Refused, Overflowed, Quiet
  <2> QED
    BY <2>3 DEF Pool!Next
<1>5. CASE DrainDone(s)
  <2>1. /\ exited = Workers
        /\ queueClosed
        /\ queueClosed' = queueClosed
        /\ Quiet'
    BY <1>2, <1>5 DEF DrainDone, IInv, OnceInv, Quiet
  <2>2. Running = {}
    BY <2>1 DEF IInv, HoldingInv, Running
  <2>3. rootDone \/ jobQueue = <<>>
    <3>1. CASE Workers = {}
      <4>1. Capacity = 0
        BY <3>1, FS_EmptySet, SlotsAssumption DEF Capacity
      <4> QED
        BY <4>1, LenProperties, EmptySeq DEF IInv, QueueInv, TypeOK
    <3>2. CASE Workers # {}
      BY <3>2, <2>1 DEF IInv, NoJobLeftBehind
    <3> QED
      BY <3>1, <3>2
  <2>4. Pool!AnnounceDrained
    BY <2>1, <2>2, <2>3, <1>0, <1>1 DEF Pool!AnnounceDrained, Refused, Overflowed, Quiet
  <2> QED
    BY <2>4 DEF Pool!Next
<1> QED
  BY <1>3, <1>4, <1>5 DEF Shutdown

(* The dispatcher implements the bounded first-in first-out job pool. *)
THEOREM Refinement == Spec => ImplementsJobPool
<1>1. Init => Pool!Init
  <2> SUFFICES ASSUME Init PROVE Pool!Init
    OBVIOUS
  <2>1. Running = {} /\ Refused = {} /\ Overflowed = {} /\ ~Quiet
    BY DEF Init, Running, Refused, Overflowed, Refusals, Quiet
  <2> QED
    BY <2>1 DEF Init, Pool!Init, Refused, Overflowed, Quiet
<1>2. IInv /\ [Next]_vars => [Pool!Next]_(Pool!vars)
  <2> SUFFICES ASSUME IInv, [Next]_vars PROVE [Pool!Next]_(Pool!vars)
    OBVIOUS
  <2>1. CASE CancelRoot
    <3>1. UNCHANGED <<Refused, Overflowed, Running, Quiet>>
      BY <2>1 DEF CancelRoot, callVars, workVars, Refused, Overflowed, Running, Quiet
    <3>2. Pool!Abort
      BY <3>1, <2>1 DEF CancelRoot, chanVars, workVars, Pool!Abort, Refused, Overflowed, Quiet
    <3> QED
      BY <3>2 DEF Pool!Next
  <2>2. ASSUME NEW j \in Jobs, CancelRequest(j) PROVE UNCHANGED Pool!vars
    BY <2>2 DEF CancelRequest, chanVars, workVars, Pool!vars, Running
  <2>3. CASE UNCHANGED vars
    BY <2>3 DEF vars, Pool!vars, Running
  <2> QED
    BY <2>1, <2>2, <2>3, DispatchRefines, WorkerRefines, ShutdownRefines DEF Next
<1> QED
  BY <1>1, <1>2, Inductive, PTL DEF Spec, Pool!Spec, ImplementsJobPool

-----------------------------------------------------------------------------
(* The work that is left.                                                  *)

Busy == {w \in Workers : holding[w] # NoJob}
Here == Workers \ exited

\* The steps the workers can still take before every one of them has returned:
\* each queued job is taken and finished, each job that runs is finished, and
\* each worker returns.
WorkLeft == 2 * Len(jobQueue) + Cardinality(Busy) + Cardinality(Here)

LEMMA WorkLeftBounded ==
  ASSUME IInv
  PROVE  /\ IsFiniteSet(Busy) /\ IsFiniteSet(Here)
         /\ Len(jobQueue) \in Nat /\ Cardinality(Busy) \in Nat /\ Cardinality(Here) \in Nat
         /\ WorkLeft \in 0 .. 2 * Capacity + 2 * Cardinality(Workers)
  <1>1. Busy \subseteq Workers /\ Here \subseteq Workers
    BY DEF Busy, Here
  <1>2. /\ IsFiniteSet(Busy) /\ IsFiniteSet(Here)
        /\ Cardinality(Busy) \in Nat /\ Cardinality(Here) \in Nat /\ Cardinality(Workers) \in Nat
        /\ Cardinality(Busy) <= Cardinality(Workers)
        /\ Cardinality(Here) <= Cardinality(Workers)
    BY <1>1, WorkersAssumption, FS_Subset, FS_CardinalityType
  <1>3. Len(jobQueue) \in Nat /\ Len(jobQueue) <= Capacity
    BY DEF IInv, TypeOK, QueueInv
  <1> QED
    BY <1>2, <1>3, CapacityNat DEF WorkLeft

\* A step of a worker does one of them: the job it takes is one less queued
\* and one more that runs.
LEMMA WorkerWorks ==
  ASSUME IInv, NEW w \in Workers, Worker(w)
  PROVE  WorkLeft' = WorkLeft - 1
  <1> USE DEF WorkLeft
  <1>1. TypeOK
    BY DEF IInv
  <1>2. /\ IsFiniteSet(Busy) /\ IsFiniteSet(Here)
        /\ Len(jobQueue) \in Nat /\ Cardinality(Busy) \in Nat /\ Cardinality(Here) \in Nat
    BY WorkLeftBounded
  <1>3. CASE WorkerTake(w)
    <2>1. Len(jobQueue') = Len(jobQueue) - 1
      BY <1>1, <1>3 DEF WorkerTake, TypeOK
    <2>2. jobQueue # <<>> /\ Head(jobQueue) \in Jobs
      BY <1>1, <1>3 DEF WorkerTake, TypeOK
    <2>3. Busy' = Busy \cup {w} /\ w \notin Busy
      BY <1>1, <1>3, <2>2, NoJobAssumption DEF WorkerTake, Selecting, Busy, TypeOK
    <2>4. Cardinality(Busy') = Cardinality(Busy) + 1
      BY <1>2, <2>3, FS_AddElement
    <2>5. Here' = Here
      BY <1>3 DEF WorkerTake, Here
    <2> QED
      BY <1>2, <2>1, <2>4, <2>5
  <1>4. CASE WorkerFinish(w)
    <2>1. Busy' = Busy \ {w} /\ w \in Busy
      BY <1>1, <1>4 DEF WorkerFinish, Busy, TypeOK
    <2>2. Cardinality(Busy') = Cardinality(Busy) - 1
      BY <1>2, <2>1, FS_RemoveElement
    <2>3. Here' = Here /\ jobQueue' = jobQueue
      BY <1>4 DEF WorkerFinish, Here, chanVars
    <2> QED
      BY <1>2, <2>2, <2>3
  <1>5. CASE WorkerSeesClosed(w) \/ WorkerCancelled(w)
    <2>1. Here' = Here \ {w} /\ w \in Here
      BY <1>5 DEF WorkerSeesClosed, WorkerCancelled, Selecting, Here
    <2>2. Cardinality(Here') = Cardinality(Here) - 1
      BY <1>2, <2>1, FS_RemoveElement
    <2>3. Busy' = Busy /\ jobQueue' = jobQueue
      BY <1>5 DEF WorkerSeesClosed, WorkerCancelled, Busy, chanVars
    <2> QED
      BY <1>2, <2>2, <2>3
  <1> QED
    BY <1>3, <1>4, <1>5 DEF Worker

\* Only a job that is queued adds to it, and a closed queue takes none.
LEMMA OthersAddNothing ==
  ASSUME IInv, [Next]_vars, queueClosed, ~\E w \in Workers : Worker(w)
  PROVE  WorkLeft' = WorkLeft
  <1>1. UNCHANGED <<jobQueue, holding, exited>>
    <2>1. CASE \E j \in Jobs : Dispatch(j)
      BY <2>1 DEF Dispatch, CheckShutdown, Send, SendPanics, SendCancelled, SendFull,
                  chanVars, workVars
    <2>2. CASE \E s \in Stoppers : Shutdown(s)
      BY <2>2 DEF Shutdown, BeginShutdown, CloseJobQueue, JoinShutdown, DrainDone, DrainTimeout,
                  chanVars, workVars
    <2>3. CASE CancelRoot \/ \E j \in Jobs : CancelRequest(j)
      BY <2>3 DEF CancelRoot, CancelRequest, chanVars, workVars
    <2>4. CASE UNCHANGED vars
      BY <2>4 DEF vars
    <2> QED
      BY <2>1, <2>2, <2>3, <2>4 DEF Next
  <1> QED
    BY <1>1 DEF WorkLeft, Busy, Here

\* The pool cannot be kept busy after Shutdown has closed the queue: every
\* step of a worker is one of a bounded number that are left, and no step of
\* anybody adds to them (runWorker; Shutdown's wg.Wait waits for this).
THEOREM WorkIsBounded ==
  Spec => /\ [](WorkLeft \in 0 .. 2 * Capacity + 2 * Cardinality(Workers))
          /\ [][/\ (\E w \in Workers : Worker(w)) => WorkLeft' < WorkLeft
                /\ queueClosed => WorkLeft' <= WorkLeft]_vars
  <1>1. IInv => WorkLeft \in 0 .. 2 * Capacity + 2 * Cardinality(Workers)
    BY WorkLeftBounded
  <1>2. IInv /\ [Next]_vars =>
          [/\ (\E w \in Workers : Worker(w)) => WorkLeft' < WorkLeft
           /\ queueClosed => WorkLeft' <= WorkLeft]_vars
    <2> SUFFICES ASSUME IInv, [Next]_vars
                 PROVE  /\ (\E w \in Workers : Worker(w)) => WorkLeft' < WorkLeft
                        /\ queueClosed => WorkLeft' <= WorkLeft
      OBVIOUS
    <2>1. WorkLeft \in Int
      BY WorkLeftBounded, <1>1, CapacityNat
    <2>2. (\E w \in Workers : Worker(w)) => WorkLeft' = WorkLeft - 1
      BY WorkerWorks
    <2>3. queueClosed => WorkLeft' = WorkLeft \/ \E w \in Workers : Worker(w)
      BY OthersAddNothing
    <2> QED
      BY <2>1, <2>2, <2>3
  <1> QED
    BY <1>1, <1>2, Inductive, PTL DEF Spec

-----------------------------------------------------------------------------
(* One worker.  The prover cannot evaluate ENABLED: what it means for the  *)
(* worker, that a guard holds, is the hypothesis of the theorem.           *)

CanWork(w) ==
    \/ holding[w] # NoJob
    \/ Selecting(w) /\ (jobQueue # <<>> \/ queueClosed \/ rootDone)

WorkEnabled(w) == CanWork(w) => ENABLED <<Worker(w)>>_vars

NoMoreWork == queueClosed /\ jobQueue = <<>>
Runs(w) == NoMoreWork /\ holding[w] # NoJob
Idles(w) == NoMoreWork /\ Selecting(w)
Returned(w) == w \in exited

WorkerLeaves(w) ==
    /\ Runs(w) => Runs(w)' \/ Idles(w)' \/ Returned(w)'
    /\ Idles(w) => Idles(w)' \/ Returned(w)'
    /\ Worker(w) => /\ Runs(w) => ~Runs(w)'
                    /\ Idles(w) => ~Idles(w)'

\* A closed and empty queue stays as it is, and nobody takes a job.
LEMMA NothingToTake ==
  ASSUME IInv, NoMoreWork, [Next]_vars
  PROVE  /\ NoMoreWork'
         /\ \/ UNCHANGED <<holding, exited>>
            \/ \E v \in Workers : WorkerFinish(v) \/ WorkerSeesClosed(v) \/ WorkerCancelled(v)
  <1> USE DEF NoMoreWork
  <1>1. CASE \E j \in Jobs : Dispatch(j)
    BY <1>1 DEF Dispatch, CheckShutdown, Send, SendPanics, SendCancelled, SendFull,
                chanVars, workVars
  <1>2. CASE \E w \in Workers : Worker(w)
    BY <1>2 DEF Worker, WorkerTake, WorkerFinish, WorkerSeesClosed, WorkerCancelled, chanVars
  <1>3. CASE \E s \in Stoppers : Shutdown(s)
    BY <1>3 DEF Shutdown, BeginShutdown, CloseJobQueue, JoinShutdown, DrainDone, DrainTimeout,
                chanVars, workVars
  <1>4. CASE CancelRoot \/ (\E j \in Jobs : CancelRequest(j)) \/ UNCHANGED vars
    BY <1>4 DEF CancelRoot, CancelRequest, chanVars, workVars, vars
  <1> QED
    BY <1>1, <1>2, <1>3, <1>4 DEF Next

LEMMA WorkerMoves ==
  ASSUME IInv, [Next]_vars, NEW w \in Workers
  PROVE  WorkerLeaves(w)
  <1> USE DEF WorkerLeaves, Runs, Idles, Returned, Selecting
  <1>1. TypeOK /\ HoldingInv
    BY DEF IInv
  <1>2. CASE ~NoMoreWork
    BY <1>2
  <1>3. ASSUME NoMoreWork, UNCHANGED <<holding, exited>> PROVE WorkerLeaves(w)
    <2>1. ~Worker(w)
      BY <1>1, <1>3 DEF Worker, WorkerTake, WorkerFinish, WorkerSeesClosed, WorkerCancelled,
                        NoMoreWork, TypeOK
    <2> QED
      BY <1>3, <2>1, NothingToTake
  <1>4. ASSUME NoMoreWork, NEW v \in Workers, WorkerFinish(v) PROVE WorkerLeaves(w)
    <2>1. /\ holding[v] # NoJob /\ v \notin exited /\ exited' = exited
          /\ holding'[v] = NoJob
          /\ v # w => holding'[w] = holding[w]
      BY <1>1, <1>4 DEF WorkerFinish, TypeOK, HoldingInv
    <2>2. v # w => ~Worker(w)
      BY <1>1, <1>4, <2>1 DEF Worker, WorkerTake, WorkerFinish, WorkerSeesClosed,
                              WorkerCancelled, NoMoreWork, TypeOK
    <2> QED
      BY <1>4, <2>1, <2>2, NothingToTake
  <1>5. ASSUME NoMoreWork, NEW v \in Workers, WorkerSeesClosed(v) \/ WorkerCancelled(v)
        PROVE WorkerLeaves(w)
    <2>1. /\ v \notin exited /\ exited' = exited \cup {v}
          /\ holding[v] = NoJob /\ holding' = holding
      BY <1>5 DEF WorkerSeesClosed, WorkerCancelled, Selecting
    <2>2. v # w => ~Worker(w)
      BY <1>1, <1>5, <2>1 DEF Worker, WorkerTake, WorkerFinish, WorkerSeesClosed,
                              WorkerCancelled, NoMoreWork, TypeOK
    <2> QED
      BY <1>5, <2>1, <2>2, NothingToTake
  <1> QED
    BY <1>2, <1>3, <1>4, <1>5, NothingToTake

\* Once the queue is closed and empty each worker returns by itself: it
\* finishes the job it has, and then nothing but the closed queue or the done
\* context is left to receive.
THEOREM WorkerReturns ==
  ASSUME NEW w \in Workers
  PROVE  Spec /\ WF_vars(Worker(w)) /\ []WorkEnabled(w)
           => ((queueClosed /\ jobQueue = <<>>) ~> w \in exited)
  <1>1. IInv /\ [Next]_vars => WorkerLeaves(w)
    BY WorkerMoves
  <1>2. queueClosed /\ jobQueue = <<>> => Runs(w) \/ Idles(w) \/ Returned(w)
    BY DEF NoMoreWork, Runs, Idles, Returned, Selecting
  <1>3. WorkEnabled(w) => (Runs(w) \/ Idles(w) => ENABLED <<Worker(w)>>_vars)
    BY DEF WorkEnabled, CanWork, Runs, Idles, NoMoreWork
  <1>4. Returned(w) <=> w \in exited
    BY DEF Returned
  <1> QED
    BY <1>1, <1>2, <1>3, <1>4, Inductive, PTL DEF WorkerLeaves, Spec
=============================================================================
