# Verification of eda-benchmark

eda-benchmark implements the same event-driven order service twice, in Go and
in .NET, and compares the two under load and under injected faults. This
directory holds TLA+ models of the program, the TLC configurations that check
them on small instances, and TLAPS proofs for every instance.

## 1. Inventory

### The system

```
 k6 --POST /orders--> HTTP server --> handler --(queue)--> worker --> orders.placed
                                                                         |
        orders.processed / orders.failed <-- consumer loop <-------------+
```

Both services have an HTTP API, a place-order handler that counts the order,
applies the injected fault, publishes an in-process event and writes the order
to `orders.placed`, and a consumer that reads `orders.placed` and writes to
`orders.processed`, or to `orders.failed` when that goes wrong. Shell scripts
run the load profiles, inject and remove faults by recreating the containers,
and export Prometheus data; Python scripts turn the data into tables, tests and
charts.

| Component | State | Operations | Interacts by | What makes it correct |
|---|---|---|---|---|
| Go dispatcher (`pipeline/dispatcher.go`) | buffered channel, worker goroutines, `shutdownCh`, `sync.Once`, `WaitGroup` | `NewDispatcher`, `Dispatch`, `runWorker`, `Shutdown` | called by HTTP handler goroutines and by main; runs closures | no job lost, run twice, or run after a refusal; first in, first out; channels closed once; `Shutdown` returns nil only from a quiet pool and never hangs on it |
| Go HTTP handlers and server (`server/`) | open requests | `POST /orders`, `Shutdown` | calls `Dispatch`; answers before the order is written | a refused order is never placed; no live request meets a closed dispatcher |
| Go place-order pipeline (`pipeline/place_order_handler.go`) | none of its own | `Handle` | run by workers under the root context; producer, metrics, fault | outcomes balance; counters mean what is on the topic; every accepted order is decided |
| Go fault injector (`fault/fault.go`) | settings, one unlocked generator | `Sleep`, `ShouldFail` | shared by all workers and the consumer | (see hazards) |
| Go main (`cmd/server/main.go`) | how far the shutdown is | start, four shutdown stages | cancels the root context, closes the clients | nobody uses what is already closed; a signal ends the process |
| Go consumer (`kafka/consumer.go`) | reader position, message in process | `Start`, `processMessage`, `Close` | Kafka group offsets; producer; not joined by main | a committed message is routed or lost in a known way; order within a partition; exactly once while nothing fails; at least once otherwise |
| Go producer (`kafka/producer.go`) | writer open or closed | `WaitForKafka`, `NewProducer`, `Produce`, `Close` | used by workers and the consumer | bounded attempts |
| .NET API and host (`Program.cs`) | open requests, hosted services | `POST /orders`, start, stop | answers after Kafka acknowledged | 202 means placed; hosted services stop in an order that loses nothing |
| .NET handler, consumer, producer | as in Go, without a queue | `Handle`, `ConsumeLoopAsync`, `ProcessMessageAsync`, `ProduceAsync`, `StopAsync` | commits that throw, exceptions that stop the host | as in Go; an order is not on both output topics without a reason; failures counted once |
| Shared topics | three topics, two consumer groups | | each service reads the orders of both | (see section 6) |
| Startup (`docker-compose.yml`, `WaitForKafka`) | attempts, containers and their environment | | dials Kafka, restart policy | the Go service comes up once Kafka does |
| Benchmark orchestration (`benchmarks/run-10-reproducible.sh`) | place in the script, result files | waits, warm-up, k6 phases, `inject_fault`, `remove_fault`, `meta.json`, export | recreates containers, polls `/health`, ignores the exit code of k6 | what a phase names is what it measured; the results of two invocations are not mixed; it ends |
| Analysis pipeline (`analysis/run-analysis.sh` and its scripts) | CSVs in `data/`, files in `output/` | export, tests, charts, tables, notebooks | files; each script also runs alone; files outlive a run | no run computes from a mix of exports; a stale output has a failed job behind it; a failed figure costs only itself |
| Analysis results (`statistical_tests.py`, `generate_tables.py`, notebooks) | none | verdict, printed row, fault windows, recovery time, winners, scores | the same data are judged in several places | the places agree with the data and with each other; missing data claims nothing |
| k6 scripts, profiling, monitoring, CI | | | | not modelled: load generation, configuration |

### What is hard to test

The hazards are listed one by one, each at its line, in `PROJECT.json`. The
groups are:

* *Two selects in `Dispatch`.* A shutdown between them closes the channel under
  the caller. The order in `main` is what keeps it from a live request.
* *Random choice in `runWorker`.* With the root context done, a worker may
  return and leave jobs behind.
* *Shutdown in stages with timeouts.* Each stage may give up and leave its
  goroutines running into the next one.
* *202 before the write.* Everything after the answer happens later, under
  another context, with a broker that may be down.
* *The consume loop beside main.* It is never joined; its writes, its commits
  and its sleep fail one by one, and it ignores most of the errors.
* *Redelivery.* Rebalance, crash and restart repeat what was not committed.
* *.NET exceptions.* One `try` covers parsing, delay, write and commit, so a
  commit that throws leads to the dead-letter path with the write already done;
  the commit in the catch block is in no `try` and ends the host.
* *A write that fails after the fact.* The .NET request waits for Kafka, which
  may have taken the message whose write it reports as failed.
* *A script that stops half way.* The injected fault stays in the containers,
  and half of the CSVs are of another export than the rest.
* *Files that outlive a run.* Results, CSVs and figures of an earlier run lie
  where those of this one are expected.
* *Counters of one process.* Requests and consumer add to the same counters:
  no balance holds of one path alone.
* *The same question answered twice.* Who is better, which samples are under the
  fault, and what counts as significant are each written down in several places.
* *NaN.* It compares false with everything, and `not` turns that into a claim.

## 2. Plan

Ordered by importance; (done) marks what this directory already holds.

1. `JobPool`, `Dispatcher`, `DispatcherProofs` (done): the concurrent core, its
   abstract specification, the refinement, all safety proved.
2. `GoService`, `GoServiceProofs` (done): composition of HTTP handler,
   dispatcher, handler and main up to `orders.placed`; reuses `Dispatcher` by
   `INSTANCE` and implements it; all its safety properties proved.
3. `GoConsumer` (done): the rest of the Go service, with crash and restart.
4. `Delivery` (done): the abstract at-least-once router both consumers
   implement.
5. `GoConsumerProofs` (done): type correctness, `CommittedAccounted`,
   `NoOvertaking` and the refinement, for any number of partitions and messages.
6. `DotnetConsumer`, `DotnetConsumerProofs` (done): `KafkaConsumerService` with
   the producer it writes by and the host that stops both; the properties of
   `GoConsumer` where they hold, plus the double routing and the double counting.
7. `AnalysisFiles`, `AnalysisRun`, `AnalysisRunProofs` (done): the pipeline as
   what it does to files.
8. `Verdict`, `FaultWindows`, `Devex`, `AnalysisResults`, `AnalysisProofs`
   (done): the pure part of the analysis, and the places that apply it.
9. `BenchmarkRun`, `BenchmarkRunProofs` (done): `run-10-reproducible.sh` with
   the containers it measures, their crashes, and `WaitForKafka`.
10. `DotnetService`, `DotnetServiceProofs` (done): `Program.cs` and
    `PlaceOrderHandler`, the requests against the stop order of the hosted
    services; both properties proved.
11. Progress (done as far as the prover goes): the liveness whose chain of
    steps has a fixed length, and the variants of the rest.

Nothing is open of this plan: every safety property of every run is proved. What
is left to TLC and what is not modelled is said in sections 5 and 6.

Runs keep two or three orders or messages, two workers or partitions, and one or
two disruptions; a theorem takes over wherever a property does not depend on
the size.

## 3. Modules

### `Dispatcher` — `pipeline/dispatcher.go`

One action per step that another goroutine can observe. `jobQueue` is the
buffered channel, `queueClosed` and `shutdownClosed` whether the channels are
closed, `shutdownOnce` the `sync.Once`, `exited` the `WaitGroup`. `caller[j]` is
where the `Dispatch` call for job `j` is: before the first `select` (`idle`),
between the two (`checked`), or its result, with `panicked` for the send on a
closed channel. `stopper[s]` is the same for a `Shutdown` call. `holding` and
`executed` follow the jobs through `runWorker`.

| Code | Actions |
|---|---|
| `Dispatch`, first select | `CheckShutdown` |
| `Dispatch`, second select, its ready cases | `Send`, `SendPanics`, `SendCancelled`, `SendFull` |
| `runWorker`, its ready cases, and the end of `execute` | `WorkerTake`, `WorkerSeesClosed`, `WorkerCancelled`, `WorkerFinish` |
| `Shutdown` | `BeginShutdown`, `CloseJobQueue`, `JoinShutdown`, `DrainDone`, `DrainTimeout` |
| contexts | `CancelRoot`, `CancelRequest` |

A Go `select` with several ready cases picks one at random, so each ready case
is an action with its own guard, and `default` is enabled only when no other
case is. A value that Go hands directly to a parked receiver passes through the
queue here; with `WORKER_COUNT=0` there are no receivers and the capacity is 0,
which the model covers.

### `JobPool` — what the dispatcher promises

A bounded first-in first-out pool: jobs are admitted while the pool is open and
has room, started in order by a bounded number of runners, finished, or refused
for good; once aborted the pool may leave jobs pending; it announces that it is
drained only when quiet. A job is turned away for want of room (`TurnAway`) only
while the pool is open and full; other refusals (a closed pool, a caller that
left, a panicking send) are `Refuse`. `overflowed` keeps the two apart.
`Dispatcher!ImplementsJobPool` is the refinement.

### `GoService` — handlers, handler pipeline, fault, main

Instantiates `Dispatcher` with `Orders` for jobs and `{"main"}` for stoppers.
Every action names the dispatcher step it takes, so the composition *is* the
dispatcher plus the code around it, and `ImplementsDispatcher` checks that this
code uses it only as `Dispatcher!Spec` allows. `request[o]` is the state of the
POST or the status code it got, `step[w]` where a worker is in `Handle`,
`metrics` the counters, `main` the stage of `run()`. A produce may succeed, fail
without writing, or fail although the message was written. `RngRace` is the
undefined outcome of two goroutines in the unlocked generator. There is one
`OrderMetrics` in the process, and the consumer of the same process counts the
writes it gives up as `orders_failed_total{reason="processing"}` too:
`ConsumerFails` is its share, bounded by `MaxConsumerFailures` and remembered in
`consumerFailed`. `dropped` counts the orders whose injected delay was cancelled,
which no counter has, so that `MetricsBalance` is exact.

Merged into one step, because only one goroutine sees what lies between: taking
a job and counting it; the end of `Handle` and of `execute`; the return of
`Dispatch` and the answer.

### `GoConsumer` — `kafka/consumer.go`

One action per call of the loop. A message is `<<partition, offset>>`;
`position` is the reader, `committed` the group, `metrics` the consumer's share
of the counters (see `GoService`). Around the loop: `Rebalance`
(the reader goes back to the committed offsets), the stages of main's shutdown,
`Crash`, `Restart`. `gaveUp` and `abandoned` are history variables for the two
ways in which the code knowingly loses a message; `calm` records that nothing
has failed yet.

### `DotnetConsumer` — `Kafka/KafkaConsumerService.cs`

The same shape with the .NET control flow. `pc` tells the two steps of the catch
block from those of the `try`; `host` is how far the generic host is in
stopping; `metrics` has the counters by reason. Requests of the same process
count in them too (`PlaceOrderHandler` as `processing`, `ProduceAsync` as
`kafka`): `RequestFails` is their share, bounded by `MaxRequestFailures` and
remembered in `fromRequests`, and what the properties say of failures they say of
the rest, `OwnFailures`.

| Code | Actions |
|---|---|
| `ConsumeLoopAsync`: `Consume`, the `while` condition | `Consume`, `LoopEnds` |
| `Task.Delay`, `ProduceAsync` to `orders.processed` | `WorkCancelled`, `ProduceProcessed`, `ProduceProcessedFails` |
| `consumer.Commit(result)` | `Commit`, `CommitThrows` |
| `catch (Exception)`: dead letter, second commit | `ProduceFailed`, `ProduceFailedThrows`, `CommitAgain`, `CommitAgainThrows` |
| generic host, process, Kafka group | `Stop`, `HostStops`, `Crash`, `Restart`, `Rebalance` |

Parsing is part of `Consume`, as nobody sees what lies between. Consume errors
and timeouts change nothing and are stutters. The hosted services stop in the
reverse of the order in which `Program.cs` registers them, the consumer before
the producer, so the loop meets a disposed producer only when it outlives the
shutdown timeout. `acknowledged` and `gaveUp` are history variables: what was
acknowledged on `orders.processed`, and whose dead letter failed, which is the
only way this consumer loses a message. `CommitAgainThrows` ends the host and is
therefore counted as a disruption; Go drops the same error and goes on.

### `Delivery` — what both consumers promise

Three steps: route a message, give one up, move the group's offset; each only
when everything before is settled. `GoConsumer!ImplementsDelivery` maps `void`
to the messages that are not JSON, which Go drops, and `lost` to the two ways it
loses one; `DotnetConsumer!ImplementsDelivery` has no void messages, since .NET
sends them to `orders.failed`. Neither proves that a message is routed once:
that is `CalmExactlyOnce`, and only while nothing fails.

### `DotnetService` — `Program.cs`, `PlaceOrderHandler.cs`, `KafkaProducerService.cs`

`request[o]` is where the request for order `o` is, or the answer its handler
gave; `metrics` the counters, `observed` being the observations of the duration
histogram. The consumer of the same process adds its failures to the same two
labels (`ConsumerFails`, at most `MaxConsumerFailures` of each, remembered in
`fromConsumer`); `OwnFailures` are those of the requests. `mediator.Send` gets no token, so a client that leaves does not
cancel a handler, and neither does the host: it stops waiting for its requests
when the shutdown timeout is over (`DrainTimeout`) and goes on to dispose the
producer under them.

| Code | Actions |
|---|---|
| `POST /orders`: binding, validation | `Post`, `Refuse` |
| `PlaceOrderHandler.Handle` | `Handle`, `RollFails`, `Publish`, `Produce` |
| `ProduceAsync` and what follows it | `Written`, `WriteFails` |
| hosted services in reverse order, process | `Stop`, `Drained`, `DrainTimeout`, `Dispose`, `Exit` |

### `BenchmarkRun` — `run-10-reproducible.sh`, `docker-compose.yml`, `WaitForKafka`

`script` is the command the script is at; the six calls of `wait_healthy` are
the names in `Waits`, each with the service it polls and what follows. A
container is `delayed` when it was created with `FAULT_DELAY_MS`; it keeps that
over a crash, because docker starts the same container again. `summary[r][p]`
remembers for each result file the invocation and the fault setting it was
measured under; `silent` the k6 calls that left no summary, which the script
does not notice (`|| true`). `leftover` is the delay an invocation found.

| Code | Actions |
|---|---|
| `wait_healthy` | `Healthy`, `NotHealthy` |
| warm-up, `run_k6`, `meta.json`, export | `WarmUp`, `RunK6`, `RunK6Fails`, `WriteMeta`, `Export` |
| `inject_fault`, `remove_fault` | `InjectFault`, `RemoveFault`, `ComposeFails` |
| `set -e`, interrupt, next start | `Abort`, `Start` |
| containers | `DotnetStarts`, `GoDials`, `GoDialFails`, `Crash`, `KafkaStops`, `KafkaStarts` |

A second concurrent invocation is not modelled: the containers have fixed names
and the script is started by hand.

### `AnalysisFiles`, `AnalysisRun` — `run-analysis.sh` and its scripts

`AnalysisFiles` says which CSVs the export writes and in which order, which of
them every figure, table and notebook is computed from, which it insists on, and
which files it writes. `AnalysisRun` runs it: `data` is the export every CSV is
of, `out` what every output was computed from. A *job* (a figure function, a
table function, a notebook) is what fails as a whole. `NextScript` is the order
of `run-analysis.sh`, or the end when one script was started alone. What a
failure costs is where the scripts differ: `QueryFails` and `TableFails` end the
run (`set -e`), `FigureFails` is caught by `main`, `NotebookFails` by the `||` of
the loop. `Init` is an empty directory, or one in which everything is there, as
in the repository; later runs begin with whatever the earlier ones left.

### `Verdict`, `FaultWindows`, `Devex`, `AnalysisResults` — what the reader is told

The first three are the operators, translated one by one: `Verdict` from
`statistical_tests.py` (a float is the set of its value, so that a comparison
with NaN is false without a case of its own), `FaultWindows` from
`table03_fault_summary` and notebook 05, `Devex` from `table04_devex`, notebook
06 and the radar chart. The last three read the same file, the latest
`devex-*.json`, whatever the spelling of its metrics: `DevexFiles` has no file
(each uses the same placeholder values in its own spelling; this is what
happens today, as `measure.sh` writes a `.txt`), one spelled by the keys that
notebook and radar know, and one by the headings that table 4 knows; a file that
mixes or lacks metrics is not modelled. `AnalysisResults` applies them: a behaviour is one set of
data, and one action per place that speaks about it. What scipy, numpy and
pingouin return (`Stats`) is an input; that an interval is ordered is all that is
assumed of it.

### `MC*` modules and faulty variants

The `MC` modules add only the symmetry sets, and for `AnalysisResults` the inputs. Every module has a section of
faulty variants: copies of an action with one plausible slip (a dropped guard,
a missing close, a swapped order). They are not part of any specification; each
shows that the property named beside it can fail.

## 4. Runs

`CHECK_DEADLOCK FALSE` is set everywhere because the instances really stop: all
calls have returned and the pool or the process has ended, or all messages are
consumed. That nothing stops too early is what the liveness properties say.

| Run | Instance | Shows |
|---|---|---|
| `dispatcher` | 3 jobs, 2 workers, queue of 2, 2 `Shutdown` calls | `JobConservation`, `DrainedWhenNil`, `ClosedOnce`, `NoJobLeftBehind`, `NoLateAdmission`, `ImplementsJobPool`; liveness: `AcceptedRuns`, `WorkersReturn` |
| `go_service` | 3 orders, 2 workers, queue of 2, 1 failure of the consumer | `RefusedNeverPlaced`, `ClosedOnlyAfterTimeout`, `ProducerOutlivesJobs`, `MetricsBalance`, `CountersMeanTopic`, `ImplementsDispatcher` |
| `go_service_live` | 2 orders, 2 workers, no failure of the consumer | `AcceptedIsDecided`, `ShutdownEnds` |
| `go_service_drain` | 2 orders, no failure of the consumer | violation of `DrainCompletes` |
| `go_consumer` | 1 partition of 2, 2 disruptions | `CommittedAccounted`, `NoOvertaking`, `CalmExactlyOnce`, `ImplementsDelivery`; liveness: `EveryMessageEnds` |
| `dotnet_consumer` | 1 partition of 3, 2 disruptions, 1 failed request of each kind | as `go_consumer`, and `CountedOnce` |
| `dotnet_consumer_dead_letter` | 2 partitions of 2, no disruption, no failed request | violation of `DeadLettersFailed` |
| `dotnet_service` | 3 orders, 2 failures of the consumer of each kind | `AnswersMeanTopic`, `MetricsBalance` |
| `benchmark_run` | 2 invocations of 2 runs, 2 polls, 2 dials, 3 troubles | `MeasuredAsNamed`, `ResultsBelongTogether`; liveness: `InvocationEnds`, `GoComesUp` |
| `analysis_run` | 2 runs, 2 failures | `NoMixedExport`, `StaleOnlyIfFailed`; liveness: `FiguresLeadOn` |
| `analysis_results` | samples of up to 2, series of up to 4 (12 by position) | `VerdictSound`, `DevexAgrees`, `WindowsSplitSeries`, `RecoveryNotOverstated` |
| `analysis_missing_data` | the same | violation of `MissingDataClaimsNothing` |

*Why the bounds are enough.* Three jobs exceed the queue of two, so it
fills and refuses, or is full again while a worker holds the first.
Two workers suffice for every race between workers, two stoppers for a second
`Shutdown` at each point of the first. In `go_service`, three orders let one be
refused while two are in progress. In the consumers, two messages allow a commit
that skips one and a second that overtakes; two disruptions allow a crash after
a rebalance and a restart followed by another stop. One partition is enough
because a step of the loop touches the state of one partition and one message;
that order and accounting hold for any number of partitions, messages and
disruptions is proved (section 5). Copies on `orders.processed` are counted 0,
1, many. In `benchmark_run` two invocations are one that leaves something behind
and one that finds it, two runs are the first and any other, and two polls are
one that is repeated and the last; three troubles allow a failing `inject_fault`,
an outage and a k6 without a summary together. In `analysis_run` two runs are one
that fails and the one after it; two failures spoil both writers of a figure. In
`analysis_results` the samples reach every order of two means, ties and NaN, the
p-values and effects lie on both sides of each threshold, and a series of four
has a sample in every window and one to spare; that the windows partition series
of any length is proved. A counter that another path adds to needs one such
addition at any moment; that the balances hold for any number is proved. The
bounds inside guards are `MaxDisruptions`, `MaxConsumerFailures`,
`MaxRequestFailures`, `MaxInvocations`, `MaxTrouble`, `MaxRuns` and `MaxFaults`; `TotalRuns`,
`MaxTries` and `MaxAttempts` are the counts of the code (10, 30 and 12).

*What the violations say.* `main.go` announces "Drain in-flight order jobs", but
cancels the root context first: `Shutdown` returns nil while accepted orders are
still queued, and they are lost. `README.md` calls `orders.failed` "Dead-letter / error
events"; the .NET consumer sends an order there that is acknowledged on
`orders.processed` when its commit throws. A comparison without data has a
p-value of NaN, and `r.p_value >= 0.0001` is false for it: table 2 prints
"<0.0001" for a test that was never made. It happens with the committed data:
the error-rate query divides a series with the label `reason` by one without it,
matches nothing, and the CSV is empty.

*What the models show of the code besides* (disagreements with a document or
with what the output suggests; reachable, but without a run of their own):

* `docs/RUNNING.md` expects 5xx answers while the broker is down; the Go service
  answers 202 before it writes. The Go consumer commits a message whose two
  writes both failed, so that it is on neither topic. `orders_failed_total` of
  the .NET service counts one order up to four times: a request whose write
  timed out although the message arrived, both writes of the consumer, and the
  consumer's own `processing`. `CountedOnce` is what holds in its place of the
  consumer.
* `MeasuredAsNamed` has an exception, with its exact extent: a script that ends
  between `inject_fault` and `remove_fault` leaves the delay, and the first run
  of the next invocation measures its steady state and spike under it.
* "All figures saved" is printed after failures too. When no metric has both
  CSVs, table 2 and figure 8 of an earlier run stay (`NoResults`), and
  `--skip-export` after a failed export computes from CSVs of two exports, which
  is why `NoMixedExport` speaks of runs that began with one.
* Table 3 prints the same numbers for its three scenarios.
* Notebook 05 (lines 137-138) defines the recovery time as the seconds from the
  end of the fault window until P95 is within ±10 % of the baseline. The code
  (lines 151-166) counts from the first sample after the window, and takes any
  sample that is at most 10 % above the baseline, one far below it included.
  `RecoveryNotOverstated` states what that leaves of the definition, which it
  spells out next to the code's own test: the printed time is never longer than
  the defined one, nothing that returns by the definition is called unrecovered,
  and while no sample drops below the band the gap after the fault is all that is
  missing.
* The title of the radar chart (`generate_charts.py:363`) says "lower normalised
  score = better", and notebook 06 (lines 126-128) announces the chart with that
  scale. The chart scales on its own (lines 327-341), so that the better service
  has the *higher* score; the second conjunct of `DevexAgrees` says so. Only the
  scores of the notebook itself are as its text says.
* Table 4, notebook 06 and the radar chart read the same `devex-*.json`, and no
  spelling of it suits all of them. By key, table 4 takes every metric for one
  that is better high; by heading, the notebook does, notebook and radar chart
  rank the number of tests the wrong way round, and the weights match no metric,
  so that Go wins with 0 against 0. `analysis/README.md:112` and notebook 06:91
  say that lower is better for four of the five. `DevexAgrees` says that each place
  is right where it can read the names, and that with a file table 4 and notebook
  06 contradict each other on each of the four.
* Notebook 06 says that `measure.sh` produces the JSON it reads; it writes a
  `.txt`, so that without a file made by hand all three places show placeholders.
* Equal means with a significant difference make .NET the winner.

*Fairness.* Goroutines that can make progress are scheduled by the Go runtime:
weak fairness per worker, request and main. A job ends because its sleep is a
timer and the writer has `MaxAttempts`. Nothing is assumed of clients, signals,
deadlines, the broker, or which write fails. The consumer's process is restarted
(`restart: unless-stopped`), and disruptions are finite. In the .NET consumer
the second commit returns in the end: were it to throw for ever, the host would
stop for ever at the same message. Nothing of the kind is assumed of the first
commit or of either write. The benchmark script goes on: k6 runs for a
given time and the polls are counted; containers start their process, but
nobody has to start Kafka, which is why `GoComesUp` assumes it. A step of the
analysis ends or fails: queries have a timeout of 30 s, notebooks one of 300 s.

## 5. Proofs

`DispatcherProofs` proves, for any set of jobs and stoppers, any finite set of
workers and any queue length:

| Theorem | States |
|---|---|
| `TypeCorrect` | `Spec => []TypeOK` |
| `Inductive` | `Spec => []IInv` |
| `Conservation` | `Spec => []JobConservation` |
| `Drained` | `Spec => []DrainedWhenNil` |
| `CloseOnce` | `Spec => []ClosedOnce` |
| `NothingLeftBehind` | `Spec => []NoJobLeftBehind` |
| `LateAdmission` | `Spec => NoLateAdmission` |
| `Refinement` | `Spec => ImplementsJobPool` |
| `WorkIsBounded`, `WorkerReturns` | see Progress below |

Assumptions: `Workers` is finite, `SlotsPerWorker` is a natural number, `NoJob`
is not a job. `Stoppers` and `Jobs` may be infinite.

The inductive invariant `IInv` is needed because none of the safety properties
is inductive. `JobConservation` says where accepted jobs are, but not that a
queued job has an accepted caller, or that a held job is not also queued, which
is what `WorkerTake` and `Send` need; `DrainedWhenNil` needs that a worker that
returned holds nothing and, without cancellation, left an empty closed queue.
`IInv` is the conjunction of `QueueInv` (length, no repetition, queued jobs are
accepted, not executed, not held), `HoldingInv` (a held job is accepted, held
once, by a worker that is still there), `ResultInv` (accepted jobs are
somewhere), `OnceInv` (how the `sync.Once`, the channels and the stoppers go
together) and `NoJobLeftBehind`. The step theorem has one case per action. The
refinement uses `RoomToRun`: while a worker is idle fewer than `|Workers|` jobs
run, a counting fact about the injection from busy workers to running jobs.

`GoServiceProofs` proves, for any finite sets of orders and workers and any queue
length:

| Theorem | States |
|---|---|
| `UsesDispatcher` | `Spec => ImplementsDispatcher` |
| `ServiceIsAPool` | `Spec => P!ImplementsJobPool`: what is around the dispatcher adds nothing that `JobPool` forbids |
| `RefusedStaysAway` | `Spec => []RefusedNeverPlaced` |
| `ServerStopsFirst` | `Spec => []ClosedOnlyAfterTimeout` |
| `ProducerStopsLast` | `Spec => []ProducerOutlivesJobs` |
| `CountersBalance` | `Spec => []MetricsBalance` |
| `CountersBoundTopic` | `Spec => []CountersMeanTopic` |
| `TypeCorrect` | `Spec => []TypeOK` |
| `RequestEnds`, `HandleEnds`, `ShutdownGoesThrough` | see Progress below |

Assumptions: `Orders` and `Workers` are finite (the counters are compared with
cardinalities), `SlotsPerWorker` and `MaxConsumerFailures` are natural numbers, `NoOrder` is not an order.
The module instantiates `DispatcherProofs` with the orders for jobs and main for
the only stopper. `PoolStep` shows that each step of the service is a step of the
dispatcher or leaves it alone, so the invariant of the dispatcher is one of the
service too, and what it says of jobs (`JobFacts`) is used and not proved again.
The rest of the invariant is what the code around the dispatcher adds. `Stages`:
how far main is, and what that says of `Shutdown` and of the producer.
`Requests`: where a request is and where its call of `Dispatch`. `Late`: past the
HTTP server, a request is open only after a timeout, which is why no handler
meets a closed dispatcher otherwise. `Handling`: only a worker that holds an
order is in `Handle`, and what is on the topic has been executed. `Balance` is
`MetricsBalance` itself; a worker that goes from one step of `Handle` to another
changes the number of workers at either by one (lemma `Moved`), and
`UncountedSteps` puts away all other steps at once.

`DotnetServiceProofs` proves `CountersBalance` (`Spec => []MetricsBalance`) and
`AnswersHold` (`Spec => []AnswersMeanTopic`) for any finite set of orders and any
number of failures of the consumer. Here a
request goes from one place to another, with the same counting lemma. The
invariant adds `Deserted`: once the host has stopped waiting for its requests, one
is still open only if the shutdown timeout has passed. Only such a request meets
the disposed producer, and only it leaves `Handle` uncounted.

`GoConsumerProofs` and `DotnetConsumerProofs` prove, for any finite set of
partitions, any number of messages in each, any number of disruptions and, in
.NET, any number of failing requests:

| Theorem | States |
|---|---|
| `TypeCorrect` | `Spec => []TypeOK` |
| `Inductive` | `Spec => []IInv` |
| `NothingElseLost` | `Spec => []CommittedAccounted` |
| `InOrder` | `Spec => []NoOvertaking` |
| `Refinement` | `Spec => ImplementsDelivery` |
| `ExactlyOnce` | `Spec => []CalmExactlyOnce` |
| `CountedJustOnce` (.NET) | `Spec => []CountedOnce` |
| `LoopComesBack`, `RunIsBounded`, `ReadMeansEnded` | see Progress below |

Assumptions: `LogLength`, `MaxDisruptions` and `MaxRequestFailures` are natural
numbers, `Partitions` is finite (the counters are compared with cardinalities).

A message can be committed because the loop commits it, and again because a
rebalance or a restart takes the reader back to the committed offset; so neither
property is inductive alone. `IInv` says of three places that everything before
them in their partition is accounted for: the reader's position (`ReadInv`), the
committed offset (`CommittedInv`) and the message in process (`CurrentInv`, with
the message itself once the loop is about to commit it); `OrderInv` says it of
every routed message. `ReadInv` excludes a loop that has ended, which in .NET may
have dropped its message, and is restored by `Restart`. Each proof first sums up
what a step does to these places (lemma `Effects` in the .NET module), so that
the invariant and the refinement are proved from the summaries.

`ExactlyOnce` and `CountedJustOnce` need to know what lies behind the loop, and not
only that it is accounted for. Without a disruption the message in process is the
one before the reader's position (`Latest`), so taking a message moves nothing
behind and finishing one moves that one (`CalmInv`). For the counters of .NET,
`SteadyInv` adds how many failed writes the message in process may have caused so
far, which depends on how far the catch block is.

`BenchmarkRunProofs` proves `TypeCorrect`, `MeasuredRight`
(`Spec => []MeasuredAsNamed`) and `ResultsTogether`
(`Spec => []ResultsBelongTogether`) for any number of runs, polls, dials,
invocations and troubles. `MeasuredAsNamed` is about files that are there; the
invariant adds what the containers are at every command: while an invocation has
not injected its first fault they have what it found, from a completed
`inject_fault` to the `remove_fault` both are delayed, after it neither is. For
`ResultsTogether` it adds what the position of the script says of the files
(`Progress`): the phases of this run it is past are measured in this invocation,
or k6 was silent, and the earlier runs have its `meta.json`; and that nothing is of
an invocation still to come (`Older`).

`AnalysisRunProofs` proves `TypeCorrect`, `OneExport`
(`Spec => []NoMixedExport`) and `StaleWhenFailed` (`Spec => []StaleOnlyIfFailed`)
for any number of runs and failures. The invariant of the first is that a run that began with an export and is
at query `job` has replaced the CSVs of the queries before it. That of the second
(`Behind`) says of every job the run is past that it failed or that all its files
are up to date, and of the current job that the files it has written are. Of the 20
jobs only two facts are used: each writes one to seven files, and one that writes a
list of tests writes nothing else (`JobsHaveOneSubject`), which is why a job that
returns without writing leaves nothing stale.

`AnalysisProofs` proves the four properties of `analysis_results` for any samples,
figures and series: `VerdictHolds`, `DevexHolds`, `WindowsHold` and
`RecoveryHolds` (`Spec => []P` for `VerdictSound`, `DevexAgrees`,
`WindowsSplitSeries` and `RecoveryNotOverstated`). Assumptions: p-values are natural
numbers and intervals ordered, metrics are integers, a series is ordered by time (as
the export writes it) and its fault begins before it ends. The invariant `Told` is
that what a place has said is what its operators make of the data; the rest is about
the operators, with no bound on their arguments:
`QuarterWindows`, `ThirdsWindows` and `TimestampWindows` (the windows are
disjoint and, of notebook 05, cover the series; for timestamps the fault must
begin before it ends, and repeated ones are allowed), `SharedFileDisagrees`
(whichever way a shared devex JSON is spelled, table 4 and notebook 06 name opposite
winners of a metric that is better low, whenever its values differ) and
`PrintedPMatchesWinner` (rounding never turns a tie into a printed value that
reads significant, nor a winner into one that does not, except 0.0500 itself).

Sums and counts over a sample are recursions over data, which the prover cannot
expand; no property here depends on what they come to, only on the same total being
used wherever the code uses it.

### Progress

The prover combines leads-to steps (its temporal back end decides propositional
temporal logic, weak fairness included), but it can neither
evaluate `ENABLED` nor do an induction through a temporal formula. Hence the form of the
theorems about liveness:

* What `ENABLED` means is a hypothesis. `DialEnabled`, `WorkEnabled`,
  `RequestEnabled`, `HandleEnabled`, `StopEnabled` and `StepsEnabled` each say
  that an action is enabled when one of its guards, written out beside it
  (`CanRequest`, `CanStop`, ...), holds. Nothing about the code is assumed in
  them: they follow from the definition of the action, and every reachable state
  of the small instances satisfies them.
* A chain of steps is proved when its length depends on no constant. Fairness is
  asked of the one goroutine the theorem is about, and of no other, so that it
  shows at the same time that this one waits for nobody.
* Where the length does depend on a constant, the variant is proved in place of
  the liveness: a bounded number that every step of the one who makes progress
  decreases and no other step increases.

| Module | Theorem | States |
|---|---|---|
| `DispatcherProofs` | `WorkIsBounded` | `WorkLeft`, two for each queued job and one for each running job and each worker still there, is at most `2 * Capacity + 2 * Cardinality(Workers)`; a step of a worker decreases it, and nothing increases it once the queue is closed |
| `DispatcherProofs` | `WorkerReturns` | a closed and empty queue leads to the return of each worker |
| `GoServiceProofs` | `RequestEnds` | an open request is answered or dropped, or the process ends |
| `GoServiceProofs` | `HandleEnds` | the order a worker has started is executed, or the process ends |
| `GoServiceProofs` | `ShutdownGoesThrough` | from the last answer or the timeout of the HTTP server on, the process ends |
| `GoConsumerProofs`, `DotnetConsumerProofs` | `LoopComesBack` | infinitely often the loop is at its fetch in a process that is not being stopped |
| `GoConsumerProofs`, `DotnetConsumerProofs` | `RunIsBounded` | `StepsLeft` starts bounded and every step decreases it, those of the broker, of the shutdown and of crashes included (a failing request, which touches only the counters, leaves it): its upper digits count the disruptions and the stages of a stop still to come, the lower ones five (Go) or six (.NET) for each message not yet read and the steps left of the one in process |
| `GoConsumerProofs`, `DotnetConsumerProofs` | `ReadMeansEnded` | at the fetch every message read is where `EveryMessageEnds` wants it (in Go, in a process that is not being stopped) |
| `BenchmarkRunProofs` | `InvocationIsBounded` | `CommandsLeft` is at most `(11 * TotalRuns + 3) * MaxTries` until the script has ended; a command decreases it, and nothing else increases it |
| `BenchmarkRunProofs` | `GoComesBack` | `GoComesUp` |
| `AnalysisRunProofs` | `FiguresLead` | `FiguresLeadOn`: charts lead to tables, tables to notebooks unless one fails, notebooks to the end; each part is a chain of as many steps as it writes files |

The invariants proved above do the work: `Requests` says where `Dispatch` stands
for an open request, `Handling` that a worker with an order is in `Handle`,
`Stages` and `NotCancelled` that `Shutdown` and `cancel` are still to be called
when main gets there, the inductive invariants of the consumers that the loop has
a message whenever it is not fetching. `ReadMeansEnded` of the Go consumer needs
one more, `PassedInv`: in a running process a message without an outcome is the
one in process, or still before both the reader and the committed offset, or
behind both. Accounting alone (`ReadInv`) is too weak there, since a message
dropped by a cancelled sleep counts as accounted for but must either be read
again or have been passed by a later commit. The .NET loop drops a message only
by ending, so `ReadInv` is enough.

How far this goes towards the liveness that stays with TLC:

* `InvocationEnds` follows from `InvocationIsBounded` by induction over
  `CommandsLeft`.
* `ShutdownEnds`: `RequestEnds` for every order, no new request after the signal,
  and `ShutdownGoesThrough`; missing is the step from every order to all orders
  at once, an induction over a finite set.
* `WorkersReturn` after a close: `WorkIsBounded` and `WorkerReturns`; missing is
  the induction over `WorkLeft`. After a cancellation without a close it needs
  finitely many jobs besides, which the proofs do not assume.
* `AcceptedRuns` and `AcceptedIsDecided`: `HandleEnds` for the job that a worker
  has; missing is the induction over its place in the queue.
* `EveryMessageEnds`: by `RunIsBounded` nothing happens any more from some point
  on, by `LoopComesBack` the loop is then at its fetch in a running process, by
  fairness there is nothing left to read, and by `ReadMeansEnded` every message
  has ended; missing is the induction over `StepsLeft`.

Only model-checked, then, are the properties of this list, and the violations,
which are counterexamples.

## 6. Not modelled

Listed per component with its reason in `PROJECT.json`. In short:

* load generation, plotting, profiling, dashboards and CI have no control worth
  a model; scipy, numpy, pingouin and pandas are inputs, except for the slices,
  comparisons and means whose use the code decides;
* `run-all.sh`, a sequence of k6 calls, and the order in which docker compose
  brings up Kafka and its topics;
* the two services on one set of topics: their consumer groups are independent,
  so each consumer module is already one group on a topic with everybody's
  orders. They spell the JSON fields differently, which Go reads all the same
  and .NET does not: an order of the Go service has no identity in the .NET
  consumer. That is one call of a deserialiser and no matter of order;
* of the .NET service, `/health` and `/metrics`, and HTTP metrics of the
  middleware (outside of which the exception handler stands);
* inside the modelled parts: logging, JSON, HTTP headers, layout, units and the
  exposition of metrics. Validity of an order is a choice; of the external
  libraries only what their callers can observe is modelled.
