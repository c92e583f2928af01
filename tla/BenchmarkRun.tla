---------------------------- MODULE BenchmarkRun ----------------------------
(***************************************************************************)
(* The collection of the measurements, run-10-reproducible.sh, together    *)
(* with the two containers it measures.  The script puts the fault in by   *)
(* recreating both containers with another environment, waits until they   *)
(* answer, and takes it out the same way.  It may end at any step, and the *)
(* next invocation starts from the containers and the result files that    *)
(* are there.                                                              *)
(*                                                                         *)
(* A container keeps its environment when its process crashes: docker      *)
(* starts it again.  The Go service first waits for Kafka (WaitForKafka);  *)
(* the .NET service does not.                                              *)
(***************************************************************************)
EXTENDS Integers, FiniteSets

CONSTANTS
  TotalRuns,      \* TOTAL_RUNS
  MaxTries,       \* polls of wait_healthy
  MaxAttempts,    \* dials of WaitForKafka
  MaxInvocations, \* bound: how often the script is started
  MaxTrouble      \* bound: crashes, outages, failing commands, interrupts

ASSUME CountsArePositive ==
  {TotalRuns, MaxTries, MaxAttempts, MaxInvocations, MaxTrouble} \subseteq Nat \ {0}

Services == {"dotnet", "go"}
Phases == {"steady_state", "spike", "fault_delay"} \* of those that are kept
Runs == 1 .. TotalRuns

VARIABLES
  script,     \* the command the script is at
  tries,      \* i of wait_healthy
  runNum,     \* run_num
  invocation, \* number of this invocation of the script
  leftover,   \* the services that had the delay when it began
  delayed,    \* the services whose container was created with the delay
  health,     \* what curl finds: "up", "starting", or no container: "gone"
  attempt,    \* attempt of WaitForKafka
  kafkaUp,
  summary,    \* the k6 summary of each run and phase; {} when there is none
  meta,       \* the invocation that wrote the meta.json of each run, or 0
  silent,     \* the k6 commands that ended without a summary
  trouble

scriptVars == <<script, tries, runNum>>
resultVars == <<summary, meta, silent>>
begunVars == <<invocation, leftover>>
serviceVars == <<delayed, health, attempt>>
vars == <<scriptVars, resultVars, begunVars, serviceVars, kafkaUp, trouble>>

Ended == {"idle", "done", "failed"}

Trouble == trouble < MaxTrouble /\ trouble' = trouble + 1

Init ==
  /\ script = "idle" /\ tries = 0 /\ runNum = 1
  /\ invocation = 0 /\ leftover = {}
  /\ delayed = {}
  /\ health = [ svc \in Services |-> "starting" ] /\ attempt = 1
  /\ kafkaUp = TRUE
  /\ summary = [ r \in Runs |-> [ p \in Phases |-> {} ] ]
  /\ meta = [ r \in Runs |-> 0 ]
  /\ silent = {}
  /\ trouble = 0

-----------------------------------------------------------------------------
(* The script.                                                             *)

Start ==
  /\ script \in Ended /\ invocation < MaxInvocations
  /\ script' = "start_dotnet" /\ tries' = 0 /\ runNum' = 1
  /\ invocation' = invocation + 1
  /\ leftover' = delayed
  /\ UNCHANGED <<serviceVars, resultVars, kafkaUp, trouble>>

\* The waits: for whom, and what follows.
Wait(svc, next) == [svc |-> svc, next |-> next]
Waits == [ start_dotnet  |-> Wait("dotnet", "start_go"),
           start_go      |-> Wait("go", "warm-up"),
           inject_dotnet |-> Wait("dotnet", "inject_go"),
           inject_go     |-> Wait("go", "fault_delay"),
           remove_dotnet |-> Wait("dotnet", "remove_go"),
           remove_go     |-> Wait("go", "meta") ]
WaitNames == DOMAIN Waits

Healthy ==
  /\ script \in WaitNames
  /\ health[Waits[script].svc] = "up"
  /\ script' = Waits[script].next /\ tries' = 0
  /\ UNCHANGED <<runNum, begunVars, serviceVars, resultVars, kafkaUp, trouble>>

(* The polls are not counted.  InvocationEnds *)
NotHealthyForever ==
  /\ script \in WaitNames
  /\ health[Waits[script].svc] # "up"
  /\ UNCHANGED vars

\* The last poll ends the script, whatever state it leaves.
NotHealthy ==
  /\ script \in WaitNames
  /\ health[Waits[script].svc] # "up"
  /\ tries' = tries + 1
  /\ script' = IF tries' >= MaxTries THEN "failed" ELSE script
  /\ UNCHANGED <<runNum, begunVars, serviceVars, resultVars, kafkaUp, trouble>>

(* meta.json is written when the run begins.  ResultsBelongTogether *)
WarmUpWritesMeta ==
  /\ script = "warm-up"
  /\ script' = "steady_state"
  /\ meta' = [meta EXCEPT ![runNum] = invocation]
  /\ UNCHANGED <<tries, runNum, begunVars, serviceVars, summary, silent, kafkaUp, trouble>>

\* Its results are not kept and its exit code is ignored.
WarmUp ==
  /\ script = "warm-up"
  /\ script' = "steady_state"
  /\ UNCHANGED <<tries, runNum, begunVars, serviceVars, resultVars, kafkaUp, trouble>>

AfterPhase == [ steady_state |-> "spike", spike |-> "inject", fault_delay |-> "remove" ]

\* k6 measures both services as they are, and replaces the summary.
RunK6 ==
  /\ script \in Phases
  /\ summary' = [summary EXCEPT ![runNum][script] =
       {[invocation |-> invocation, delayed |-> delayed, leftover |-> leftover]}]
  /\ script' = AfterPhase[script]
  /\ UNCHANGED <<tries, runNum, begunVars, serviceVars, meta, silent, kafkaUp, trouble>>

\* k6 ends without a summary; "|| true" hides that as well as a threshold.
RunK6Fails ==
  /\ script \in Phases
  /\ Trouble
  /\ silent' = silent \cup {<<invocation, runNum, script>>}
  /\ script' = AfterPhase[script]
  /\ UNCHANGED <<tries, runNum, begunVars, serviceVars, summary, meta, kafkaUp>>

\* docker compose up --force-recreate: both containers are new.
Recreate(withDelay, next) ==
  /\ delayed' = withDelay
  /\ health' = [ svc \in Services |-> "starting" ] /\ attempt' = 1
  /\ script' = next /\ tries' = 0
  /\ UNCHANGED <<runNum, begunVars, resultVars, kafkaUp, trouble>>

InjectFault == script = "inject" /\ Recreate(Services, "inject_dotnet")

(* The Go service is not named to docker compose.                          *)
(* MeasuredAsNamed *)
RemoveFaultDotnetOnly ==
  /\ script = "remove"
  /\ delayed' = delayed \ {"dotnet"}
  /\ health' = [health EXCEPT !["dotnet"] = "starting"]
  /\ script' = "remove_dotnet"
  /\ UNCHANGED <<attempt, tries, runNum, begunVars, resultVars, kafkaUp, trouble>>

RemoveFault == script = "remove" /\ Recreate({}, "remove_dotnet")

\* It fails (pipefail: the tail behind it does not hide that) having replaced
\* some containers and, of these, perhaps not started some.
ComposeFails ==
  /\ script \in {"inject", "remove"}
  /\ Trouble
  /\ \E replaced \in SUBSET Services : \E lost \in SUBSET replaced :
       /\ delayed' = IF script = "inject" THEN delayed \cup replaced
                                          ELSE delayed \ replaced
       /\ health' = [ svc \in Services |->
                        IF svc \in lost THEN "gone"
                        ELSE IF svc \in replaced THEN "starting" ELSE health[svc] ]
       /\ attempt' = IF "go" \in replaced THEN 1 ELSE attempt
  /\ script' = "failed"
  /\ UNCHANGED <<tries, runNum, begunVars, resultVars, kafkaUp>>

\* meta.json, the cooldown, and the next run or the export.
WriteMeta ==
  /\ script = "meta"
  /\ meta' = [meta EXCEPT ![runNum] = invocation]
  /\ IF runNum < TotalRuns THEN script' = "warm-up" /\ runNum' = runNum + 1
                           ELSE script' = "export" /\ UNCHANGED runNum
  /\ UNCHANGED <<tries, begunVars, serviceVars, summary, silent, kafkaUp, trouble>>

Export ==
  /\ script = "export"
  /\ script' = "done"
  /\ UNCHANGED <<tries, runNum, begunVars, serviceVars, resultVars, kafkaUp, trouble>>

\* The export fails, or somebody interrupts the script.
Abort ==
  /\ script \notin Ended
  /\ Trouble
  /\ script' = "failed"
  /\ UNCHANGED <<tries, runNum, begunVars, serviceVars, resultVars, kafkaUp>>

-----------------------------------------------------------------------------
(* The containers.                                                         *)

ServiceFrame == UNCHANGED <<scriptVars, begunVars, resultVars, delayed>>

DotnetStarts ==
  /\ health["dotnet"] = "starting"
  /\ health' = [health EXCEPT !["dotnet"] = "up"]
  /\ UNCHANGED <<attempt, kafkaUp, trouble>> /\ ServiceFrame

\* The dial of WaitForKafka succeeds, and main goes on to serve.
GoDials ==
  /\ health["go"] = "starting" /\ kafkaUp
  /\ health' = [health EXCEPT !["go"] = "up"]
  /\ UNCHANGED <<attempt, kafkaUp, trouble>> /\ ServiceFrame

(* The container is not started again.  GoComesUp *)
GoGivesUp ==
  /\ health["go"] = "starting" /\ ~kafkaUp
  /\ IF attempt < MaxAttempts THEN attempt' = attempt + 1 /\ UNCHANGED health
                              ELSE health' = [health EXCEPT !["go"] = "exited"]
                                   /\ UNCHANGED attempt
  /\ UNCHANGED <<kafkaUp, trouble>> /\ ServiceFrame

\* It fails; after the last one main calls Fatal, docker starts the container
\* again (restart: unless-stopped), and the attempts begin anew.
GoDialFails ==
  /\ health["go"] = "starting" /\ ~kafkaUp
  /\ attempt' = IF attempt < MaxAttempts THEN attempt + 1 ELSE 1
  /\ UNCHANGED <<health, kafkaUp, trouble>> /\ ServiceFrame

\* A service crashes and is started again, with the environment it had.
Crash(svc) ==
  /\ health[svc] = "up"
  /\ Trouble
  /\ health' = [health EXCEPT ![svc] = "starting"]
  /\ attempt' = IF svc = "go" THEN 1 ELSE attempt
  /\ UNCHANGED kafkaUp /\ ServiceFrame

KafkaStops ==
  /\ kafkaUp /\ Trouble
  /\ kafkaUp' = FALSE
  /\ UNCHANGED <<health, attempt>> /\ ServiceFrame

KafkaStarts ==
  /\ ~kafkaUp
  /\ kafkaUp' = TRUE
  /\ UNCHANGED <<health, attempt, trouble>> /\ ServiceFrame

-----------------------------------------------------------------------------
Command == \/ Healthy \/ NotHealthy \/ WarmUp \/ RunK6 \/ InjectFault
           \/ RemoveFault \/ WriteMeta \/ Export

Next == \/ Start \/ Command
        \/ RunK6Fails \/ ComposeFails \/ Abort
        \/ DotnetStarts \/ GoDials \/ GoDialFails
        \/ \E svc \in Services : Crash(svc)
        \/ KafkaStops \/ KafkaStarts

\* The script goes on: k6 and the sleeps last for a given time, the polls are
\* counted.  Processes start.  Nobody has to start the script or Kafka.
Spec == Init /\ [][Next]_vars
        /\ WF_vars(Command) /\ WF_vars(DotnetStarts)
        /\ WF_vars(GoDials) /\ WF_vars(GoDialFails)

-----------------------------------------------------------------------------
TypeOK ==
  /\ script \in Ended \cup WaitNames \cup Phases
                 \cup {"warm-up", "inject", "remove", "meta", "export"}
  /\ tries \in 0 .. MaxTries /\ runNum \in Runs
  /\ invocation \in 0 .. MaxInvocations /\ leftover \subseteq Services
  /\ delayed \subseteq Services
  /\ health \in [Services -> {"up", "starting", "gone"}]
  /\ attempt \in 1 .. MaxAttempts /\ kafkaUp \in BOOLEAN
  /\ summary \in [Runs -> [Phases ->
        SUBSET [invocation : 0 .. MaxInvocations, delayed : SUBSET Services,
                leftover : SUBSET Services]]]
  /\ meta \in [Runs -> 0 .. MaxInvocations]
  /\ silent \subseteq (0 .. MaxInvocations) \X Runs \X Phases
  /\ trouble \in 0 .. MaxTrouble

\* A summary was measured under the conditions its phase names: the fault
\* summary with the delay in both services, the others with it in neither.
\* There is one exception, and its extent is exact: an invocation that began
\* with containers an earlier one left delayed measures its first run, and no
\* other, under what it found (the script removes the fault only after
\* injecting it; the .NET and the Go service may differ then).
MeasuredAsNamed ==
  \A r \in Runs, p \in Phases : \A s \in summary[r][p] :
    s.delayed = IF p = "fault_delay" THEN Services
                ELSE IF r = 1 THEN s.leftover ELSE {}

\* When the script is done, everything in the results directory is its own,
\* but for a k6 that ended without a summary; and at no time is a meta.json
\* newer than the summaries beside it.
ResultsBelongTogether ==
  \A r \in Runs, p \in Phases :
    \/ meta[r] = 0
    \/ <<meta[r], r, p>> \in silent
    \/ /\ summary[r][p] # {}
       /\ \A s \in summary[r][p] :
            /\ s.invocation >= meta[r]
            /\ script = "done" => s.invocation = invocation /\ meta[r] = invocation

\* An invocation ends: whatever happens to Kafka and the services, no wait is
\* for ever.
InvocationEnds == script = "start_dotnet" ~> script \in {"done", "failed"}

\* While Kafka is there, the Go service comes up again after every crash and
\* after having exhausted its attempts, unless its container was lost.
GoComesUp == <>[](kafkaUp /\ health["go"] # "gone") => []<>(health["go"] = "up")
=============================================================================
