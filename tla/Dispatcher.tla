----------------------------- MODULE Dispatcher -----------------------------
(***************************************************************************)
(* The in-process command dispatcher of the Go order service               *)
(* (src/services/go/internal/pipeline/dispatcher.go), goroutine by         *)
(* goroutine.                                                              *)
(*                                                                         *)
(* Every HTTP handler goroutine makes one call of Dispatch, for one job.   *)
(* Dispatch is not atomic: it looks at shutdownCh in one select statement  *)
(* and sends on jobQueue in a second one, so a call is two steps, and a    *)
(* Shutdown may run between them.  A fixed pool of worker goroutines       *)
(* receives from jobQueue; a worker leaves when it sees the channel closed *)
(* and empty, or when the root context is done.  Shutdown is also several  *)
(* steps: it closes the two channels one after the other inside a          *)
(* sync.Once and then waits for the workers or for its own deadline.       *)
(*                                                                         *)
(* A Go select with several ready cases picks one of them at random: each  *)
(* ready case is an action of its own here.  A value sent to a parked      *)
(* receiver is handed over without touching the buffer; the model lets it  *)
(* pass through the queue, which only allows more interleavings.           *)
(***************************************************************************)
EXTENDS Integers, Sequences, FiniteSets, Functions

CONSTANTS
    Jobs,           \* the jobs submitted, each by one call of Dispatch
    Workers,        \* the worker goroutines (WORKER_COUNT of them)
    Stoppers,       \* the goroutines that call Shutdown
    SlotsPerWorker, \* queue slots per worker: the 10 of workerCount*10
    NoJob           \* what an idle worker holds

ASSUME WorkersAssumption == IsFiniteSet(Workers)
ASSUME SlotsAssumption == SlotsPerWorker \in Nat
ASSUME NoJobAssumption == NoJob \notin Jobs

VARIABLES
    jobQueue,       \* contents of the buffered channel, oldest first
    queueClosed,    \* close(d.jobQueue) has run
    shutdownClosed, \* close(d.shutdownCh) has run
    shutdownOnce,   \* state of the sync.Once
    caller,         \* where the Dispatch call for each job is, or its result
    requestDone,    \* jobs whose own (request) context is done
    rootDone,       \* the context given to NewDispatcher is done
    holding,        \* the job each worker is executing
    exited,         \* workers that returned (wg.Done has run)
    executed,       \* jobs whose execute function returned
    stopper         \* where each Shutdown call is, or its result

callVars  == <<caller, requestDone>>
chanVars  == <<jobQueue, queueClosed, shutdownClosed, shutdownOnce>>
workVars  == <<holding, exited, executed>>
vars == <<jobQueue, queueClosed, shutdownClosed, shutdownOnce, caller,
          requestDone, rootDone, holding, exited, executed, stopper>>

Capacity == SlotsPerWorker * Cardinality(Workers)

-----------------------------------------------------------------------------
(* Results of the calls.  "panicked" is a send on a closed channel: the    *)
(* Dispatch call does not return at all.                                   *)

Refusals == {"closed", "full", "cancelled", "panicked"}
CallStates == {"idle", "checked", "nil"} \cup Refusals
StopStates == {"idle", "closing", "waiting", "nil", "timeout"}

Accepted == {j \in Jobs : caller[j] = "nil"}
Running == {holding[w] : w \in Workers} \ {NoJob}

TypeOK ==
    /\ jobQueue \in Seq(Jobs)
    /\ queueClosed \in BOOLEAN
    /\ shutdownClosed \in BOOLEAN
    /\ shutdownOnce \in {"new", "running", "done"}
    /\ caller \in [Jobs -> CallStates]
    /\ requestDone \in SUBSET Jobs
    /\ rootDone \in BOOLEAN
    /\ holding \in [Workers -> Jobs \cup {NoJob}]
    /\ exited \in SUBSET Workers
    /\ executed \in SUBSET Jobs
    /\ stopper \in [Stoppers -> StopStates]

Init ==
    /\ jobQueue = <<>>
    /\ queueClosed = FALSE
    /\ shutdownClosed = FALSE
    /\ shutdownOnce = "new"
    /\ caller = [j \in Jobs |-> "idle"]
    /\ requestDone = {}
    /\ rootDone = FALSE
    /\ holding = [w \in Workers |-> NoJob]
    /\ exited = {}
    /\ executed = {}
    /\ stopper = [s \in Stoppers |-> "idle"]

-----------------------------------------------------------------------------
(* Faulty variants of actions defined below, each the effect of a slip in  *)
(* the code.  They are not part of the specification: a property is only   *)
(* worth its run if the variant named beside it breaks it.                 *)

(* runWorker without "if !ok { return }": runs the zero job, stays.        *)
(* WorkersReturn *)
WorkerIgnoresOk(w) ==
    /\ w \notin exited /\ holding[w] = NoJob
    /\ queueClosed /\ jobQueue = <<>>
    /\ executed' = executed \cup {NoJob}
    /\ UNCHANGED <<rootDone, holding, exited, stopper>>
    /\ UNCHANGED chanVars /\ UNCHANGED callVars

(* The worker looks at the context after it has received.  JobConservation *)
WorkerDropsJob(w) ==
    /\ w \notin exited /\ holding[w] = NoJob
    /\ rootDone
    /\ jobQueue' = IF jobQueue = <<>> THEN <<>> ELSE Tail(jobQueue)
    /\ exited' = exited \cup {w}
    /\ UNCHANGED <<queueClosed, shutdownClosed, shutdownOnce, rootDone>>
    /\ UNCHANGED <<holding, executed, stopper>> /\ UNCHANGED callVars

(* wg.Add(1) outside the loop of NewDispatcher.  DrainedWhenNil *)
DrainDoneAtFirst(s) ==
    /\ stopper[s] = "waiting"
    /\ exited # {}
    /\ stopper' = [stopper EXCEPT ![s] = "nil"]
    /\ UNCHANGED rootDone
    /\ UNCHANGED chanVars /\ UNCHANGED callVars /\ UNCHANGED workVars

(* Shutdown without the sync.Once.  ClosedOnce *)
BeginWithoutOnce(s) ==
    /\ stopper[s] = "idle"
    /\ shutdownOnce' = "running"
    /\ shutdownClosed' = TRUE
    /\ stopper' = [stopper EXCEPT ![s] = "closing"]
    /\ UNCHANGED <<jobQueue, queueClosed, rootDone>>
    /\ UNCHANGED callVars /\ UNCHANGED workVars

(* Workers return on shutdownCh, not on the closed and empty queue.        *)
(* NoJobLeftBehind, AcceptedRuns *)
WorkerSeesShutdown(w) ==
    /\ w \notin exited /\ holding[w] = NoJob
    /\ shutdownClosed
    /\ exited' = exited \cup {w}
    /\ UNCHANGED <<rootDone, holding, executed, stopper>>
    /\ UNCHANGED chanVars /\ UNCHANGED callVars

(* close(d.jobQueue) is missing.  NoLateAdmission *)
CloseShutdownChOnly(s) ==
    /\ stopper[s] = "closing"
    /\ shutdownOnce' = "done"
    /\ stopper' = [stopper EXCEPT ![s] = "waiting"]
    /\ UNCHANGED <<jobQueue, queueClosed, shutdownClosed, rootDone>>
    /\ UNCHANGED callVars /\ UNCHANGED workVars

(* A stack in place of the channel.  ImplementsJobPool *)
WorkerTakesNewest(w) ==
    /\ w \notin exited /\ holding[w] = NoJob
    /\ jobQueue # <<>>
    /\ holding' = [holding EXCEPT ![w] = jobQueue[Len(jobQueue)]]
    /\ jobQueue' = SubSeq(jobQueue, 1, Len(jobQueue) - 1)
    /\ UNCHANGED <<queueClosed, shutdownClosed, shutdownOnce>>
    /\ UNCHANGED <<rootDone, exited, executed, stopper>> /\ UNCHANGED callVars

-----------------------------------------------------------------------------
(* Dispatch(ctx, fn), called for job j.                                    *)

(* First select: shutdownCh is closed, or the default case. *)
CheckShutdown(j) ==
    /\ caller[j] = "idle"
    /\ caller' = [caller EXCEPT ![j] = IF shutdownClosed THEN "closed" ELSE "checked"]
    /\ UNCHANGED <<requestDone, rootDone, stopper>>
    /\ UNCHANGED chanVars /\ UNCHANGED workVars

(* Second select, case d.jobQueue <- j on an open channel with room. *)
Send(j) ==
    /\ caller[j] = "checked"
    /\ ~queueClosed
    /\ Len(jobQueue) < Capacity
    /\ jobQueue' = Append(jobQueue, j)
    /\ caller' = [caller EXCEPT ![j] = "nil"]
    /\ UNCHANGED <<queueClosed, shutdownClosed, shutdownOnce>>
    /\ UNCHANGED <<requestDone, rootDone, stopper>> /\ UNCHANGED workVars

(* The same case once the channel is closed: it is ready, whatever the     *)
(* queue holds, and panics.                                                *)
SendPanics(j) ==
    /\ caller[j] = "checked"
    /\ queueClosed
    /\ caller' = [caller EXCEPT ![j] = "panicked"]
    /\ UNCHANGED <<requestDone, rootDone, stopper>>
    /\ UNCHANGED chanVars /\ UNCHANGED workVars

(* Case <-ctx.Done(). *)
SendCancelled(j) ==
    /\ caller[j] = "checked"
    /\ j \in requestDone
    /\ caller' = [caller EXCEPT ![j] = "cancelled"]
    /\ UNCHANGED <<requestDone, rootDone, stopper>>
    /\ UNCHANGED chanVars /\ UNCHANGED workVars

(* The default case, taken only when no other case is ready. *)
SendFull(j) ==
    /\ caller[j] = "checked"
    /\ ~queueClosed
    /\ Len(jobQueue) >= Capacity
    /\ j \notin requestDone
    /\ caller' = [caller EXCEPT ![j] = "full"]
    /\ UNCHANGED <<requestDone, rootDone, stopper>>
    /\ UNCHANGED chanVars /\ UNCHANGED workVars

Dispatch(j) ==
    \/ CheckShutdown(j)
    \/ Send(j) \/ SendPanics(j) \/ SendCancelled(j) \/ SendFull(j)

-----------------------------------------------------------------------------
(* runWorker(ctx), for worker w.                                           *)

Selecting(w) == w \notin exited /\ holding[w] = NoJob

(* case j, ok := <-d.jobQueue with ok true: a closed channel still delivers*)
(* what it holds.                                                          *)
WorkerTake(w) ==
    /\ Selecting(w)
    /\ jobQueue # <<>>
    /\ holding' = [holding EXCEPT ![w] = Head(jobQueue)]
    /\ jobQueue' = Tail(jobQueue)
    /\ UNCHANGED <<queueClosed, shutdownClosed, shutdownOnce>>
    /\ UNCHANGED <<rootDone, exited, executed, stopper>> /\ UNCHANGED callVars

(* ok false: return. *)
WorkerSeesClosed(w) ==
    /\ Selecting(w)
    /\ queueClosed
    /\ jobQueue = <<>>
    /\ exited' = exited \cup {w}
    /\ UNCHANGED <<rootDone, holding, executed, stopper>>
    /\ UNCHANGED chanVars /\ UNCHANGED callVars

(* case <-ctx.Done(): return, even when jobs are queued. *)
WorkerCancelled(w) ==
    /\ Selecting(w)
    /\ rootDone
    /\ exited' = exited \cup {w}
    /\ UNCHANGED <<rootDone, holding, executed, stopper>>
    /\ UNCHANGED chanVars /\ UNCHANGED callVars

(* j.execute() returns; its error is discarded. *)
WorkerFinish(w) ==
    /\ holding[w] # NoJob
    /\ executed' = executed \cup {holding[w]}
    /\ holding' = [holding EXCEPT ![w] = NoJob]
    /\ UNCHANGED <<rootDone, exited, stopper>>
    /\ UNCHANGED chanVars /\ UNCHANGED callVars

Worker(w) ==
    \/ WorkerTake(w) \/ WorkerSeesClosed(w)
    \/ WorkerCancelled(w) \/ WorkerFinish(w)

-----------------------------------------------------------------------------
(* Shutdown(ctx), called by s.                                             *)

(* shutdownOnce.Do enters its function: close(d.shutdownCh). *)
BeginShutdown(s) ==
    /\ stopper[s] = "idle"
    /\ shutdownOnce = "new"
    /\ shutdownOnce' = "running"
    /\ shutdownClosed' = TRUE
    /\ stopper' = [stopper EXCEPT ![s] = "closing"]
    /\ UNCHANGED <<jobQueue, queueClosed, rootDone>>
    /\ UNCHANGED callVars /\ UNCHANGED workVars

(* close(d.jobQueue), and the once function returns. *)
CloseJobQueue(s) ==
    /\ stopper[s] = "closing"
    /\ queueClosed' = TRUE
    /\ shutdownOnce' = "done"
    /\ stopper' = [stopper EXCEPT ![s] = "waiting"]
    /\ UNCHANGED <<jobQueue, shutdownClosed, rootDone>>
    /\ UNCHANGED callVars /\ UNCHANGED workVars

(* A later caller of shutdownOnce.Do waits until the first one is through. *)
JoinShutdown(s) ==
    /\ stopper[s] = "idle"
    /\ shutdownOnce = "done"
    /\ stopper' = [stopper EXCEPT ![s] = "waiting"]
    /\ UNCHANGED rootDone
    /\ UNCHANGED chanVars /\ UNCHANGED callVars /\ UNCHANGED workVars

(* case <-done: wg.Wait has returned, every worker is gone. *)
DrainDone(s) ==
    /\ stopper[s] = "waiting"
    /\ exited = Workers
    /\ stopper' = [stopper EXCEPT ![s] = "nil"]
    /\ UNCHANGED rootDone
    /\ UNCHANGED chanVars /\ UNCHANGED callVars /\ UNCHANGED workVars

(* case <-ctx.Done(): the caller's deadline expires first. *)
DrainTimeout(s) ==
    /\ stopper[s] = "waiting"
    /\ stopper' = [stopper EXCEPT ![s] = "timeout"]
    /\ UNCHANGED rootDone
    /\ UNCHANGED chanVars /\ UNCHANGED callVars /\ UNCHANGED workVars

Shutdown(s) ==
    \/ BeginShutdown(s) \/ CloseJobQueue(s) \/ JoinShutdown(s)
    \/ DrainDone(s) \/ DrainTimeout(s)

-----------------------------------------------------------------------------
(* The contexts.                                                           *)

CancelRoot ==
    /\ ~rootDone
    /\ rootDone' = TRUE
    /\ UNCHANGED stopper
    /\ UNCHANGED chanVars /\ UNCHANGED callVars /\ UNCHANGED workVars

(* The client goes away.  Only the second select looks at the request's    *)
(* context, so it is enough to let this happen right before it.            *)
CancelRequest(j) ==
    /\ j \notin requestDone
    /\ caller[j] = "checked"
    /\ requestDone' = requestDone \cup {j}
    /\ UNCHANGED <<caller, rootDone, stopper>>
    /\ UNCHANGED chanVars /\ UNCHANGED workVars

Next ==
    \/ \E j \in Jobs : Dispatch(j)
    \/ \E w \in Workers : Worker(w)
    \/ \E s \in Stoppers : Shutdown(s)
    \/ CancelRoot
    \/ \E j \in Jobs : CancelRequest(j)

Spec == Init /\ [][Next]_vars

(* The Go scheduler runs every goroutine that can make progress, and every *)
(* job ends: its sleep is a timer and its write has bounded attempts.      *)
(* Nothing is assumed of clients, of deadlines, or of the root context.    *)
FairSpec ==
    /\ Spec
    /\ \A w \in Workers : WF_vars(Worker(w))
    /\ \A s \in Stoppers : WF_vars(CloseJobQueue(s)) /\ WF_vars(JoinShutdown(s))
                                                     /\ WF_vars(DrainDone(s))

-----------------------------------------------------------------------------
(* Safety.                                                                 *)

(* Every job whose Dispatch returned nil is in exactly one place -- queued,*)
(* held by one worker, or executed -- and no other job is anywhere: jobs   *)
(* are neither lost, run twice, nor run after a refusal, whatever the      *)
(* interleaving of callers, workers and shutdown.                          *)
JobConservation ==
    /\ Accepted = Range(jobQueue) \cup Running \cup executed
    /\ Range(jobQueue) \cap Running = {}
    /\ Range(jobQueue) \cap executed = {}
    /\ Running \cap executed = {}
    /\ \A i, k \in DOMAIN jobQueue : jobQueue[i] = jobQueue[k] => i = k
    /\ \A v, w \in Workers : holding[v] = holding[w] /\ v # w => holding[v] = NoJob

(* What a nil result of Shutdown promises: the pool is quiet, and unless   *)
(* the root context was cancelled every accepted job has been executed.    *)
DrainedWhenNil ==
    (\E s \in Stoppers : stopper[s] = "nil") =>
        /\ exited = Workers
        /\ Running = {}
        /\ rootDone \/ Accepted = executed

(* The two channels are closed once each, in order, by one goroutine: a    *)
(* second close would panic.                                               *)
ClosedOnce ==
    /\ \A s, t \in Stoppers : stopper[s] = "closing" /\ stopper[t] = "closing" => s = t
    /\ (\E s \in Stoppers : stopper[s] = "closing") => shutdownClosed /\ ~queueClosed
    /\ queueClosed => shutdownClosed

(* A worker leaves a job behind only because the root context was          *)
(* cancelled: while it is not, a worker that returned saw a closed and     *)
(* empty queue, and the queue stays empty.                                 *)
NoJobLeftBehind ==
    exited # {} /\ ~rootDone => queueClosed /\ jobQueue = <<>>

(* Once some Shutdown call has got past the two closes, no Dispatch call   *)
(* turns into an accepted job; a call that finds shutdownCh closed is      *)
(* refused and never queued.                                               *)
NoLateAdmission ==
    [][(\E s \in Stoppers : stopper[s] \in {"waiting", "nil", "timeout"})
          => Accepted' = Accepted]_vars

-----------------------------------------------------------------------------
(* The inductive invariant: what the safety properties above rest on.      *)

QueueInv ==
    /\ Len(jobQueue) <= Capacity
    /\ \A i, k \in DOMAIN jobQueue : jobQueue[i] = jobQueue[k] => i = k
    /\ \A i \in DOMAIN jobQueue :
          /\ caller[jobQueue[i]] = "nil"
          /\ jobQueue[i] \notin executed
          /\ \A w \in Workers : holding[w] # jobQueue[i]

HoldingInv ==
    \A w \in Workers : holding[w] # NoJob =>
        /\ w \notin exited
        /\ caller[holding[w]] = "nil"
        /\ holding[w] \notin executed
        /\ \A v \in Workers : holding[v] = holding[w] => v = w

ResultInv ==
    /\ \A j \in executed : caller[j] = "nil"
    /\ \A j \in Jobs : caller[j] = "nil" =>
          \/ j \in executed
          \/ \E w \in Workers : holding[w] = j
          \/ \E i \in DOMAIN jobQueue : jobQueue[i] = j

OnceInv ==
    /\ shutdownOnce = "new" <=> ~shutdownClosed
    /\ shutdownOnce = "done" <=> queueClosed
    /\ \A s \in Stoppers : stopper[s] = "closing" => shutdownOnce = "running"
    /\ \A s, t \in Stoppers : stopper[s] = "closing" /\ stopper[t] = "closing" => s = t
    /\ \A s \in Stoppers : stopper[s] \in {"waiting", "nil", "timeout"} => queueClosed
    /\ \A s \in Stoppers : stopper[s] = "nil" => exited = Workers

(* Everything at once; NoJobLeftBehind is inductive as it stands. *)
IInv ==
    /\ TypeOK
    /\ QueueInv
    /\ HoldingInv
    /\ ResultInv
    /\ OnceInv
    /\ NoJobLeftBehind

-----------------------------------------------------------------------------
(* The abstract pool this implements.                                      *)

Pool == INSTANCE JobPool WITH
    MaxPending <- Capacity,
    MaxRunning <- Cardinality(Workers),
    pending    <- jobQueue,
    running    <- Running,
    finished   <- executed,
    overflowed <- {j \in Jobs : caller[j] = "full"},
    refused    <- {j \in Jobs : caller[j] \in Refusals \ {"full"}},
    open       <- ~queueClosed,
    aborted    <- rootDone,
    drained    <- \E s \in Stoppers : stopper[s] = "nil"

(* The dispatcher behaves as a bounded first-in first-out job pool: at most*)
(* |Workers| jobs run at a time, they start in the order in which Dispatch *)
(* accepted them, Dispatch answers "full" only when there is no room,      *)
(* refused jobs never run, and Shutdown returns nil only from a quiet pool *)
(* (Dispatch, runWorker and Shutdown together).                            *)
ImplementsJobPool == Pool!Spec

-----------------------------------------------------------------------------
(* Liveness.                                                               *)

(* An accepted job is executed, unless the root context is cancelled. *)
AcceptedRuns == \A j \in Jobs : caller[j] = "nil" ~> (j \in executed \/ rootDone)

(* Shutdown never hangs on the pool: closing the queue or cancelling the   *)
(* root context makes every worker return.                                 *)
WorkersReturn == (queueClosed \/ rootDone) ~> (exited = Workers)

=============================================================================
