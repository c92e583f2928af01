------------------------- MODULE BenchmarkRunProofs -------------------------
(***************************************************************************)
(* What is proved of the benchmark script for any number of runs, polls,   *)
(* dials, invocations and disturbances: its types, and that every summary  *)
(* was measured under the conditions its phase names, with the one         *)
(* exception MeasuredAsNamed allows.                                       *)
(*                                                                         *)
(* The second rests on what the position of the script says of the         *)
(* containers: before the injection they are as the invocation found them  *)
(* in its first run and clean in the others, then delayed, then clean.     *)
(* The third, that the files of a run belong together, rests on what it    *)
(* says of the phases already measured (Progress).                         *)
(***************************************************************************)
EXTENDS BenchmarkRun, TLAPS

FoundOrClean == {"start_dotnet", "start_go", "warm-up", "steady_state", "spike", "inject"}
UnderFault == {"inject_dotnet", "inject_go", "fault_delay", "remove"}
Cleared == {"remove_dotnet", "remove_go", "meta", "export"}

\* A poll that would be one too many is never made.
Polls == script \in WaitNames => tries < MaxTries

Position ==
  /\ script \in {"start_dotnet", "start_go"} => runNum = 1
  /\ script \in FoundOrClean => delayed = IF runNum = 1 THEN leftover ELSE {}
  /\ script \in UnderFault => delayed = Services
  /\ script \in Cleared => delayed = {}

Typed == TypeOK /\ Polls

IInv == Position /\ MeasuredAsNamed

-----------------------------------------------------------------------------
(* Types.                                                                  *)

LEMMA InitTyped == Init => TypeOK
  BY CountsArePositive DEF Init, TypeOK, Services, Runs, Phases, Ended, WaitNames

LEMMA WaitTyped ==
  ASSUME NEW w \in WaitNames
  PROVE  /\ Waits[w].svc \in Services
         /\ Waits[w].next \in WaitNames \cup Phases \cup {"warm-up", "meta"}
  BY DEF Waits, Wait, WaitNames, Services, Phases

LEMMA AfterTyped ==
  ASSUME NEW p \in Phases
  PROVE  AfterPhase[p] \in {"spike", "inject", "remove"}
  BY DEF AfterPhase, Phases

LEMMA Places ==
  /\ WaitNames = {"start_dotnet", "start_go", "inject_dotnet", "inject_go",
                  "remove_dotnet", "remove_go"}
  /\ Phases \cap WaitNames = {}
  BY DEF WaitNames, Waits, Phases

LEMMA CommandTyped == Typed /\ Command => Typed'
  <1> SUFFICES ASSUME Typed, Command PROVE TypeOK' /\ Polls'
    BY DEF Typed
  <1> USE CountsArePositive, Places DEF Typed, TypeOK, Polls
  <1>1. CASE Healthy
    <2>1. /\ script' \in WaitNames \cup Phases \cup {"warm-up", "meta"}
          /\ tries' = 0
      BY <1>1, WaitTyped DEF Healthy
    <2> QED
      BY <1>1, <2>1 DEF Healthy, serviceVars, resultVars, begunVars
  <1>2. CASE NotHealthy
    <2>1. /\ tries' = tries + 1 /\ tries \in Nat /\ tries < MaxTries
          /\ script' = IF tries' >= MaxTries THEN "failed" ELSE script
      BY <1>2 DEF NotHealthy
    <2>2. tries' \in 0 .. MaxTries
      BY <2>1
    <2>3. /\ script' \in {"failed", script}
          /\ script' \in WaitNames => tries' < MaxTries
      BY <2>1, <2>2
    <2> QED
      BY <1>2, <2>2, <2>3 DEF NotHealthy, serviceVars, resultVars, begunVars, Ended
  <1>3. CASE WarmUp
    BY <1>3 DEF WarmUp, serviceVars, resultVars, begunVars, Phases
  <1>4. CASE RunK6
    <2>1. script' \in {"spike", "inject", "remove"}
      BY <1>4, AfterTyped DEF RunK6
    <2>2. /\ script \in Phases /\ runNum \in Runs
          /\ summary' = [summary EXCEPT ![runNum][script] =
               {[invocation |-> invocation, delayed |-> delayed, leftover |-> leftover]}]
      BY <1>4 DEF RunK6
    <2>3. summary' \in [Runs -> [Phases ->
                          SUBSET [invocation : 0 .. MaxInvocations,
                                  delayed : SUBSET Services,
                                  leftover : SUBSET Services]]]
      BY <2>2
    <2> QED
      BY <1>4, <2>1, <2>3 DEF RunK6, serviceVars, begunVars, Phases
  <1>5. CASE InjectFault
    BY <1>5 DEF InjectFault, Recreate, resultVars, begunVars
  <1>6. CASE RemoveFault
    BY <1>6 DEF RemoveFault, Recreate, resultVars, begunVars
  <1>7. CASE WriteMeta
    <2>1. runNum' \in Runs /\ script' \in {"warm-up", "export"}
      BY <1>7 DEF WriteMeta, Runs
    <2>2. meta' \in [Runs -> 0 .. MaxInvocations]
      BY <1>7 DEF WriteMeta
    <2> QED
      BY <1>7, <2>1, <2>2 DEF WriteMeta, serviceVars, begunVars
  <1>8. CASE Export
    BY <1>8 DEF Export, serviceVars, resultVars, begunVars, Ended
  <1> QED
    BY <1>1, <1>2, <1>3, <1>4, <1>5, <1>6, <1>7, <1>8 DEF Command

\* The steps that are not a command of the script going well.
LEMMA OtherTyped ==
  ASSUME Typed, Start \/ RunK6Fails \/ ComposeFails \/ Abort
  PROVE  Typed'
  <1> USE CountsArePositive, Places DEF Typed, TypeOK, Polls
  <1>1. CASE Start
    BY <1>1 DEF Start, serviceVars, resultVars, Runs
  <1>2. CASE RunK6Fails
    <2>1. script' \in {"spike", "inject", "remove"}
      BY <1>2, AfterTyped DEF RunK6Fails
    <2>2. /\ <<invocation, runNum, script>> \in (0 .. MaxInvocations) \X Runs \X Phases
          /\ silent' = silent \cup {<<invocation, runNum, script>>}
      BY <1>2 DEF RunK6Fails
    <2> QED
      BY <1>2, <2>1, <2>2 DEF RunK6Fails, Trouble, serviceVars, begunVars, Phases
  <1>3. CASE ComposeFails
    <2>1. /\ delayed' \subseteq Services /\ attempt' \in 1 .. MaxAttempts
          /\ health' \in [Services -> {"up", "starting", "gone"}]
      BY <1>3 DEF ComposeFails
    <2> QED
      BY <1>3, <2>1 DEF ComposeFails, Trouble, resultVars, begunVars, Ended
  <1>4. CASE Abort
    BY <1>4 DEF Abort, Trouble, serviceVars, resultVars, begunVars, Ended
  <1> QED
    BY <1>1, <1>2, <1>3, <1>4

LEMMA ContainersTyped ==
  ASSUME Typed,
         \/ DotnetStarts \/ GoDials \/ GoDialFails
         \/ \E svc \in Services : Crash(svc)
         \/ KafkaStops \/ KafkaStarts
  PROVE  Typed'
  <1> USE CountsArePositive DEF Typed, TypeOK, Polls, ServiceFrame, scriptVars,
                                resultVars, begunVars, Trouble, Services
  <1>1. CASE DotnetStarts
    BY <1>1 DEF DotnetStarts
  <1>2. CASE GoDials
    BY <1>2 DEF GoDials
  <1>3. CASE GoDialFails
    BY <1>3 DEF GoDialFails
  <1>4. CASE \E svc \in Services : Crash(svc)
    BY <1>4 DEF Crash
  <1>5. CASE KafkaStops
    <2>1. /\ kafkaUp' \in BOOLEAN
          /\ trouble' = trouble + 1 /\ trouble < MaxTrouble
          /\ UNCHANGED <<script, tries, runNum, invocation, leftover, summary, meta,
                         silent, delayed, health, attempt>>
      BY <1>5 DEF KafkaStops
    <2> QED
      BY <2>1
  <1>6. CASE KafkaStarts
    BY <1>6 DEF KafkaStarts
  <1> QED
    BY <1>1, <1>2, <1>3, <1>4, <1>5, <1>6

LEMMA StutterTyped == Typed /\ UNCHANGED vars => Typed'
  BY DEF Typed, TypeOK, Polls, vars, scriptVars, resultVars, begunVars, serviceVars

LEMMA AlwaysTyped == Spec => []Typed
  <1>1. Init => Typed
    BY InitTyped, Places, CountsArePositive DEF Typed, Polls, Init
  <1>2. Typed /\ [Next]_vars => Typed'
    BY CommandTyped, OtherTyped, ContainersTyped, StutterTyped DEF Next
  <1> QED
    BY <1>1, <1>2, PTL DEF Spec

\* The type invariant of the script and its containers.
THEOREM TypeCorrect == Spec => []TypeOK
  BY AlwaysTyped, PTL DEF Typed

-----------------------------------------------------------------------------
(* What was measured.                                                      *)

LEMMA InitMeasured == Init => IInv
  BY Places DEF Init, IInv, Position, MeasuredAsNamed, FoundOrClean, UnderFault, Cleared

\* Steps that leave the summaries alone preserve what is said of them.
LEMMA SummaryKept ==
  ASSUME MeasuredAsNamed, UNCHANGED summary
  PROVE  MeasuredAsNamed'
  BY DEF MeasuredAsNamed

\* So do the steps of the containers and of Kafka for the position.
LEMMA PositionKept ==
  ASSUME Position, UNCHANGED <<script, runNum, leftover, delayed>>
  PROVE  Position'
  BY DEF Position

LEMMA MeasuredNow ==
  ASSUME Typed, IInv, RunK6
  PROVE  MeasuredAsNamed'
  <1> DEFINE new == [invocation |-> invocation, delayed |-> delayed, leftover |-> leftover]
  <1>1. /\ script \in Phases /\ runNum \in Runs
        /\ summary \in [Runs -> [Phases ->
                       SUBSET [invocation : 0 .. MaxInvocations,
                               delayed : SUBSET Services, leftover : SUBSET Services]]]
        /\ summary' = [summary EXCEPT ![runNum][script] = {new}]
    BY DEF RunK6, Typed, TypeOK
  <1>2. delayed = IF script = "fault_delay" THEN Services
                  ELSE IF runNum = 1 THEN leftover ELSE {}
    BY <1>1 DEF IInv, Position, FoundOrClean, UnderFault, Phases
  <1> SUFFICES ASSUME NEW r \in Runs, NEW p \in Phases, NEW s \in summary'[r][p]
               PROVE  s.delayed = IF p = "fault_delay" THEN Services
                                  ELSE IF r = 1 THEN s.leftover ELSE {}
    BY DEF MeasuredAsNamed
  <1>3. CASE r = runNum /\ p = script
    <2>1. summary'[runNum][script] = {new}
      BY <1>1
    <2>2. s = new
      BY <1>3, <2>1
    <2>3. s.delayed = delayed /\ s.leftover = leftover
      BY <2>2
    <2> HIDE DEF new
    <2> QED
      BY <1>2, <1>3, <2>3
  <1>4. CASE ~(r = runNum /\ p = script)
    <2>1. s \in summary[r][p]
      BY <1>1, <1>4
    <2> QED
      BY <2>1 DEF IInv, MeasuredAsNamed
  <1> QED
    BY <1>3, <1>4

LEMMA CommandMeasured ==
  ASSUME Typed, IInv, Command
  PROVE  IInv'
  <1> USE DEF Position, FoundOrClean, UnderFault, Cleared
  <1>1. CASE Healthy
    <2>1. CASE script \in {"start_dotnet", "start_go"}
      <3>1. script' \in {"start_go", "warm-up"}
        BY <1>1, <2>1 DEF Healthy, Waits, Wait
      <3> QED
        BY <1>1, <2>1, <3>1, SummaryKept DEF Healthy, IInv, serviceVars, resultVars, begunVars
    <2>2. CASE script \in {"inject_dotnet", "inject_go"}
      <3>1. script' \in {"inject_go", "fault_delay"}
        BY <1>1, <2>2 DEF Healthy, Waits, Wait
      <3> QED
        BY <1>1, <2>2, <3>1, SummaryKept DEF Healthy, IInv, serviceVars, resultVars, begunVars
    <2>3. CASE script \in {"remove_dotnet", "remove_go"}
      <3>1. script' \in {"remove_go", "meta"}
        BY <1>1, <2>3 DEF Healthy, Waits, Wait
      <3> QED
        BY <1>1, <2>3, <3>1, SummaryKept DEF Healthy, IInv, serviceVars, resultVars, begunVars
    <2> QED
      BY <1>1, <2>1, <2>2, <2>3, Places DEF Healthy
  <1>2. CASE NotHealthy
    <2>1. script' \in {"failed", script}
      BY <1>2 DEF NotHealthy
    <2> QED
      BY <1>2, <2>1, SummaryKept DEF NotHealthy, IInv, serviceVars, resultVars, begunVars
  <1>3. CASE WarmUp
    BY <1>3, SummaryKept DEF WarmUp, IInv, serviceVars, resultVars, begunVars
  <1>4. CASE RunK6
    <2>1. \/ script = "steady_state" /\ script' = "spike"
          \/ script = "spike" /\ script' = "inject"
          \/ script = "fault_delay" /\ script' = "remove"
      BY <1>4 DEF RunK6, Phases, AfterPhase
    <2> QED
      BY <1>4, <2>1, MeasuredNow DEF RunK6, IInv, serviceVars, begunVars
  <1>5. CASE InjectFault
    BY <1>5, SummaryKept DEF InjectFault, Recreate, IInv, resultVars, begunVars
  <1>6. CASE RemoveFault
    BY <1>6, SummaryKept DEF RemoveFault, Recreate, IInv, resultVars, begunVars
  <1>7. CASE WriteMeta
    <2>1. \/ script' = "warm-up" /\ runNum' = runNum + 1
          \/ script' = "export" /\ runNum' = runNum
      BY <1>7 DEF WriteMeta
    <2>2. runNum + 1 # 1
      BY DEF Typed, TypeOK, Runs
    <2> QED
      BY <1>7, <2>1, <2>2, SummaryKept DEF WriteMeta, IInv, serviceVars, begunVars
  <1>8. CASE Export
    BY <1>8, SummaryKept DEF Export, IInv, serviceVars, resultVars, begunVars
  <1> QED
    BY <1>1, <1>2, <1>3, <1>4, <1>5, <1>6, <1>7, <1>8 DEF Command

LEMMA OtherMeasured ==
  ASSUME Typed, IInv, Start \/ RunK6Fails \/ ComposeFails \/ Abort
  PROVE  IInv'
  <1> USE DEF Position, FoundOrClean, UnderFault, Cleared
  <1>1. CASE Start
    BY <1>1, SummaryKept DEF Start, IInv, serviceVars, resultVars
  <1>2. CASE RunK6Fails
    <2>1. \/ script = "steady_state" /\ script' = "spike"
          \/ script = "spike" /\ script' = "inject"
          \/ script = "fault_delay" /\ script' = "remove"
      BY <1>2 DEF RunK6Fails, Phases, AfterPhase
    <2> QED
      BY <1>2, <2>1, SummaryKept DEF RunK6Fails, IInv, serviceVars, begunVars
  <1>3. CASE ComposeFails
    BY <1>3, SummaryKept DEF ComposeFails, IInv, resultVars, begunVars
  <1>4. CASE Abort
    BY <1>4, SummaryKept DEF Abort, IInv, resultVars, begunVars
  <1> QED
    BY <1>1, <1>2, <1>3, <1>4

LEMMA ContainersMeasured ==
  ASSUME IInv,
         \/ DotnetStarts \/ GoDials \/ GoDialFails
         \/ \E svc \in Services : Crash(svc)
         \/ KafkaStops \/ KafkaStarts
  PROVE  IInv'
  <1>1. UNCHANGED <<script, runNum, leftover, delayed, summary>>
    BY DEF DotnetStarts, GoDials, GoDialFails, Crash, KafkaStops, KafkaStarts,
           ServiceFrame, scriptVars, begunVars, resultVars
  <1> QED
    BY <1>1, PositionKept, SummaryKept DEF IInv

LEMMA StutterMeasured == IInv /\ UNCHANGED vars => IInv'
  BY PositionKept, SummaryKept DEF IInv, vars, scriptVars, resultVars, begunVars, serviceVars

\* Every summary was measured under the conditions its phase names, but for
\* the first run after an invocation that left the fault in place.
THEOREM MeasuredRight == Spec => []MeasuredAsNamed
  <1>1. Typed /\ IInv /\ [Next]_vars => IInv'
    BY CommandMeasured, OtherMeasured, ContainersMeasured, StutterMeasured DEF Next
  <1> QED
    BY InitMeasured, AlwaysTyped, <1>1, PTL DEF Spec, IInv

-----------------------------------------------------------------------------
(* What lies together in the results directory.                            *)

Before == {"start_dotnet", "start_go", "warm-up"}
Injecting == {"inject", "inject_dotnet", "inject_go"}
Removing == {"remove", "remove_dotnet", "remove_go"}

\* The phase was measured in this invocation, or k6 was silent.
Fresh(r, p) ==
  \/ <<invocation, r, p>> \in silent
  \/ summary[r][p] # {} /\ \A s \in summary[r][p] : s.invocation = invocation

\* No meta.json is newer than the summaries beside it.
Beside ==
  \A r \in Runs, p \in Phases :
    \/ meta[r] = 0
    \/ <<meta[r], r, p>> \in silent
    \/ summary[r][p] # {} /\ \A s \in summary[r][p] : s.invocation >= meta[r]

\* What the script has done so far in this run and in the runs before.
Progress ==
  /\ script \in {"spike", "fault_delay", "meta"} \cup Injecting \cup Removing =>
        Fresh(runNum, "steady_state")
  /\ script \in {"fault_delay", "meta"} \cup Injecting \cup Removing => Fresh(runNum, "spike")
  /\ script \in {"meta"} \cup Removing => Fresh(runNum, "fault_delay")
  /\ script \notin Ended => \A r \in Runs : r < runNum => meta[r] = invocation
  /\ script \in {"export", "done"} => \A r \in Runs : meta[r] = invocation

\* Nothing is of an invocation still to come.
Older ==
  /\ \A r \in Runs : meta[r] <= invocation
  /\ \A r \in Runs, p \in Phases : \A s \in summary[r][p] : s.invocation <= invocation

KeptInv == Beside /\ Older /\ Progress

LEMMA InitKept == Init => KeptInv
  BY Places, CountsArePositive
  DEF Init, KeptInv, Beside, Older, Progress, Injecting, Removing, Ended

\* Steps of the containers, and those that only end the script.
LEMMA ResultsKept ==
  ASSUME KeptInv, UNCHANGED <<resultVars, invocation, runNum>>,
         script' \in {script, "failed"}
  PROVE  KeptInv'
  BY DEF KeptInv, Beside, Older, Progress, Fresh, resultVars, Injecting, Removing, Ended

\* The script goes on to a command that asks for no more than is done.
LEMMA ResultsCarried ==
  ASSUME KeptInv, UNCHANGED <<resultVars, invocation, runNum>>, script \notin Ended,
         \/ script \in Before /\ script' \in Before \cup {"steady_state"}
         \/ script \in Injecting /\ script' \in Injecting \cup {"fault_delay"}
         \/ script \in Removing /\ script' \in Removing \cup {"meta"}
         \/ script = "export" /\ script' = "done"
  PROVE  KeptInv'
  BY DEF KeptInv, Beside, Older, Progress, Fresh, resultVars, Before, Injecting, Removing, Ended

LEMMA StartKept ==
  ASSUME Typed, KeptInv, Start
  PROVE  KeptInv'
  <1>1. /\ script' = "start_dotnet" /\ runNum' = 1
        /\ UNCHANGED <<summary, meta, silent>>
    BY DEF Start, resultVars
  <1>2. \A r \in Runs : ~(r < 1)
    BY DEF Runs
  <1>3. Beside' /\ Progress'
    BY <1>1, <1>2 DEF KeptInv, Beside, Progress, Injecting, Removing, Ended
  <1>4. /\ \A r \in Runs : meta[r] \in Nat
        /\ \A r \in Runs, p \in Phases : \A s \in summary[r][p] : s.invocation \in Nat
        /\ invocation' = invocation + 1 /\ invocation \in Nat
    BY DEF Start, Typed, TypeOK
  <1>5. Older'
    BY <1>1, <1>4 DEF KeptInv, Older
  <1> QED
    BY <1>3, <1>5 DEF KeptInv

\* A phase ends: there is a new summary, or k6 was silent.
LEMMA PhaseKept ==
  ASSUME Typed, KeptInv, RunK6 \/ RunK6Fails
  PROVE  KeptInv'
  <1> DEFINE new == [invocation |-> invocation, delayed |-> delayed, leftover |-> leftover]
  <1>1. /\ script \in Phases /\ runNum \in Runs
        /\ summary \in [Runs -> [Phases ->
                       SUBSET [invocation : 0 .. MaxInvocations,
                               delayed : SUBSET Services, leftover : SUBSET Services]]]
        /\ meta \in [Runs -> 0 .. MaxInvocations] /\ invocation \in Nat
        /\ UNCHANGED <<runNum, meta, invocation>>
    BY DEF RunK6, RunK6Fails, Typed, TypeOK, begunVars
  <1>2. \/ script = "steady_state" /\ script' = "spike"
        \/ script = "spike" /\ script' = "inject"
        \/ script = "fault_delay" /\ script' = "remove"
    BY <1>1 DEF RunK6, RunK6Fails, Phases, AfterPhase
  <1>3. \/ /\ summary' = [summary EXCEPT ![runNum][script] = {new}] /\ silent' = silent
        \/ /\ summary' = summary
           /\ silent' = silent \cup {<<invocation, runNum, script>>}
    BY DEF RunK6, RunK6Fails
  <1>4. ASSUME NEW p \in Phases, p = script
        PROVE  Fresh(runNum, p)'
    <2>1. CASE silent' = silent \cup {<<invocation, runNum, script>>}
      BY <1>1, <1>4, <2>1 DEF Fresh
    <2>2. CASE summary' = [summary EXCEPT ![runNum][script] = {new}]
      <3>1. summary'[runNum][p] = {new}
        BY <1>1, <1>4, <2>2
      <3>2. new.invocation = invocation
        OBVIOUS
      <3> HIDE DEF new
      <3> QED
        BY <1>1, <3>1, <3>2 DEF Fresh
    <2> QED
      BY <1>3, <2>1, <2>2
  <1>5. \A r \in Runs, p \in Phases : ~(r = runNum /\ p = script) =>
          summary'[r][p] = summary[r][p] /\ silent \subseteq silent'
    BY <1>1, <1>3
  <1>6. \A p \in Phases \ {script} : Fresh(runNum, p) => Fresh(runNum, p)'
    BY <1>1, <1>5 DEF Fresh
  <1>7. silent \subseteq silent'
    BY <1>3
  <1>8. Beside'
    <2> SUFFICES ASSUME NEW r \in Runs, NEW p \in Phases
                 PROVE  \/ meta'[r] = 0
                        \/ <<meta'[r], r, p>> \in silent'
                        \/ /\ summary'[r][p] # {}
                           /\ \A s \in summary'[r][p] : s.invocation >= meta'[r]
      BY DEF Beside
    <2>1. CASE ~(r = runNum /\ p = script)
      BY <1>1, <1>5, <1>7, <2>1 DEF KeptInv, Beside
    <2>2. CASE r = runNum /\ p = script
      <3>1. CASE summary' = summary
        BY <1>1, <1>7, <2>2, <3>1 DEF KeptInv, Beside
      <3>2. CASE summary' = [summary EXCEPT ![runNum][script] = {new}]
        <4>1. summary'[r][p] = {new}
          BY <1>1, <2>2, <3>2
        <4>2. new.invocation = invocation
          OBVIOUS
        <4>3. invocation >= meta'[r]
          BY <1>1 DEF KeptInv, Older
        <4> HIDE DEF new
        <4> QED
          BY <4>1, <4>2, <4>3
      <3> QED
        BY <1>3, <3>1, <3>2
    <2> QED
      BY <2>1, <2>2
  <1>9. Progress'
    BY <1>1, <1>2, <1>4, <1>6 DEF KeptInv, Progress, Injecting, Removing, Ended, Phases
  <1>10. Older'
    <2> SUFFICES ASSUME NEW r \in Runs, NEW p \in Phases, NEW s \in summary'[r][p]
                 PROVE  s.invocation <= invocation
      BY <1>1 DEF KeptInv, Older
    <2>1. CASE s \in summary[r][p]
      BY <2>1 DEF KeptInv, Older
    <2>2. CASE s \notin summary[r][p]
      <3>1. s = new
        BY <1>1, <1>3, <2>2
      <3>2. new.invocation = invocation
        OBVIOUS
      <3> HIDE DEF new
      <3> QED
        BY <1>1, <3>1, <3>2
    <2> QED
      BY <2>1, <2>2
  <1> QED
    BY <1>8, <1>9, <1>10 DEF KeptInv

LEMMA WriteMetaKept ==
  ASSUME Typed, KeptInv, WriteMeta
  PROVE  KeptInv'
  <1>1. /\ script = "meta" /\ runNum \in Runs /\ invocation \in Nat
        /\ meta \in [Runs -> 0 .. MaxInvocations]
        /\ meta' = [meta EXCEPT ![runNum] = invocation]
        /\ UNCHANGED <<summary, silent, invocation>>
    BY DEF WriteMeta, Typed, TypeOK, begunVars
  <1>2. \A p \in Phases : Fresh(runNum, p)
    BY <1>1 DEF KeptInv, Progress, Phases, Removing
  <1>3. meta'[runNum] = invocation /\ \A r \in Runs \ {runNum} : meta'[r] = meta[r]
    BY <1>1
  <1>4. Beside'
    <2> SUFFICES ASSUME NEW r \in Runs, NEW p \in Phases
                 PROVE  \/ meta'[r] = 0
                        \/ <<meta'[r], r, p>> \in silent
                        \/ /\ summary[r][p] # {}
                           /\ \A s \in summary[r][p] : s.invocation >= meta'[r]
      BY <1>1 DEF Beside
    <2>1. CASE r = runNum
      BY <1>1, <1>2, <1>3, <2>1 DEF Fresh
    <2>2. CASE r # runNum
      BY <1>3, <2>2 DEF KeptInv, Beside
    <2> QED
      BY <2>1, <2>2
  <1>5. Older'
    BY <1>1, <1>3 DEF KeptInv, Older
  <1>6. \A r \in Runs : r < runNum => meta[r] = invocation
    BY <1>1 DEF KeptInv, Progress, Ended
  <1>7. Progress'
    <2>1. CASE runNum < TotalRuns
      <3>1. script' = "warm-up" /\ runNum' = runNum + 1
        BY <2>1 DEF WriteMeta
      <3>2. \A r \in Runs : r < runNum + 1 => r < runNum \/ r = runNum
        BY <1>1 DEF Runs
      <3> QED
        BY <1>1, <1>3, <1>6, <3>1, <3>2 DEF Progress, Injecting, Removing, Ended
    <2>2. CASE ~(runNum < TotalRuns)
      <3>1. script' = "export" /\ runNum' = runNum
        BY <2>2 DEF WriteMeta
      <3>2. \A r \in Runs : r < runNum \/ r = runNum
        BY <1>1, <2>2, CountsArePositive DEF Runs
      <3> QED
        BY <1>1, <1>3, <1>6, <3>1, <3>2 DEF Progress, Injecting, Removing, Ended
    <2> QED
      BY <2>1, <2>2
  <1> QED
    BY <1>4, <1>5, <1>7 DEF KeptInv

LEMMA HealthyKept ==
  ASSUME KeptInv, Healthy
  PROVE  KeptInv'
  <1>1. \/ script \in {"start_dotnet", "start_go"} /\ script' \in Before
        \/ script \in {"inject_dotnet", "inject_go"} /\ script' \in {"inject_go", "fault_delay"}
        \/ script \in {"remove_dotnet", "remove_go"} /\ script' \in {"remove_go", "meta"}
    BY Places DEF Healthy, Waits, Wait, Before
  <1>2. UNCHANGED <<resultVars, invocation, runNum>>
    BY DEF Healthy, begunVars
  <1> QED
    BY <1>1, <1>2, ResultsCarried DEF Before, Injecting, Removing, Ended

LEMMA NextKept == Typed /\ KeptInv /\ [Next]_vars => KeptInv'
  <1> SUFFICES ASSUME Typed, KeptInv, [Next]_vars PROVE KeptInv'
    OBVIOUS
  <1>1. CASE NotHealthy \/ ComposeFails \/ Abort
    BY <1>1, ResultsKept DEF NotHealthy, ComposeFails, Abort, begunVars
  <1>2. CASE WarmUp \/ InjectFault \/ RemoveFault \/ Export
    BY <1>2, ResultsCarried DEF WarmUp, InjectFault, RemoveFault, Export, Recreate, begunVars,
                                Before, Injecting, Removing, Ended
  <1>3. CASE \/ DotnetStarts \/ GoDials \/ GoDialFails
             \/ \E svc \in Services : Crash(svc)
             \/ KafkaStops \/ KafkaStarts
    <2>1. UNCHANGED <<resultVars, begunVars, script, runNum>>
      BY <1>3 DEF DotnetStarts, GoDials, GoDialFails, Crash, KafkaStops, KafkaStarts,
                  ServiceFrame, scriptVars
    <2> QED
      BY <2>1, ResultsKept DEF begunVars
  <1>4. CASE UNCHANGED vars
    BY <1>4, ResultsKept DEF vars, begunVars, scriptVars
  <1> QED
    BY <1>1, <1>2, <1>3, <1>4, StartKept, PhaseKept, WriteMetaKept, HealthyKept
       DEF Next, Command

\* No meta.json is newer than the summaries beside it, and a script that is
\* done leaves only results of its own.
THEOREM ResultsTogether == Spec => []ResultsBelongTogether
  <1>1. Typed /\ KeptInv => ResultsBelongTogether
    <2> SUFFICES ASSUME Typed, KeptInv, NEW r \in Runs, NEW p \in Phases,
                        meta[r] # 0, <<meta[r], r, p>> \notin silent
                 PROVE  /\ summary[r][p] # {}
                        /\ \A s \in summary[r][p] :
                             /\ s.invocation >= meta[r]
                             /\ script = "done" =>
                                  s.invocation = invocation /\ meta[r] = invocation
      BY DEF ResultsBelongTogether
    <2>1. /\ summary[r][p] # {}
          /\ \A s \in summary[r][p] : s.invocation >= meta[r] /\ s.invocation <= invocation
      BY DEF KeptInv, Beside, Older
    <2>2. /\ meta[r] \in Nat /\ invocation \in Nat
          /\ \A s \in summary[r][p] : s.invocation \in Nat
      BY DEF Typed, TypeOK
    <2>3. script = "done" => meta[r] = invocation
      BY DEF KeptInv, Progress
    <2> QED
      BY <2>1, <2>2, <2>3
  <1> QED
    BY InitKept, NextKept, AlwaysTyped, <1>1, PTL DEF Spec

-----------------------------------------------------------------------------
(* Progress.                                                               *)

\* The commands from each place to the end of the last run, that one included.
Distance == [ start_dotnet |-> 14, start_go |-> 13,
              \* "warm-up" has no name as a field
              steady_state |-> 11, spike |-> 10, inject |-> 9,
              inject_dotnet |-> 8, inject_go |-> 7, fault_delay |-> 6, remove |-> 5,
              remove_dotnet |-> 4, remove_go |-> 3, meta |-> 2, export |-> 1 ]

Stage == 11 * (TotalRuns - runNum) + (IF script = "warm-up" THEN 12 ELSE Distance[script])

CommandsLeft == IF script \in Ended THEN 0
                ELSE Stage * MaxTries - (IF script \in WaitNames THEN tries ELSE 0)

LEMMA Multiples ==
  ASSUME NEW m \in Nat \ {0}, NEW a \in Nat, NEW b \in Nat, a < b
  PROVE  a * m + m <= b * m
  <1>1. PICK k \in Nat : b = a + 1 + k
    <2>1. b - a - 1 \in Nat /\ b = a + 1 + (b - a - 1)
      OBVIOUS
    <2> QED
      BY <2>1
  <1>2. k * m \in Nat
    OBVIOUS
  <1>3. (a + 1 + k) * m = a * m + m + k * m
    OBVIOUS
  <1>4. a * m \in Nat
    OBVIOUS
  <1> QED
    BY <1>1, <1>2, <1>3, <1>4

LEMMA Product == ASSUME NEW m \in Nat, NEW a \in Nat PROVE a * m \in Nat
  OBVIOUS

LEMMA AtLeastOne ==
  ASSUME NEW m \in Nat \ {0}, NEW a \in Nat \ {0}
  PROVE  a * m \in Nat /\ a * m >= m
  <1>1. 0 * m = 0 /\ a * m \in Nat
    OBVIOUS
  <1> QED
    BY Multiples, <1>1

LEMMA Stages == Typed /\ script \notin Ended => Stage \in 1 .. 11 * TotalRuns + 3
  <1> SUFFICES ASSUME Typed, script \notin Ended PROVE Stage \in 1 .. 11 * TotalRuns + 3
    OBVIOUS
  <1>1. script \in WaitNames \cup Phases \cup {"warm-up", "inject", "remove", "meta", "export"}
    BY DEF Typed, TypeOK
  <1>2. script = "warm-up" \/ Distance[script] \in 1 .. 14
    BY <1>1, Places DEF Distance, Phases
  <1>3. runNum \in 1 .. TotalRuns /\ TotalRuns \in Nat
    BY CountsArePositive DEF Typed, TypeOK, Runs
  <1> QED
    BY <1>2, <1>3 DEF Stage

LEMMA CommandsLeftBounded ==
  ASSUME Typed, script \notin Ended
  PROVE  CommandsLeft \in 1 .. (11 * TotalRuns + 3) * MaxTries
  <1> DEFINE most == 11 * TotalRuns + 3
  <1>1. MaxTries \in Nat \ {0} /\ most \in Nat \ {0} /\ Stage \in 1 .. most
    BY CountsArePositive, Stages
  <1>2. tries \in 0 .. MaxTries /\ (script \in WaitNames => tries < MaxTries)
    BY DEF Typed, TypeOK, Polls
  <1>3. Stage * MaxTries \in Nat /\ Stage * MaxTries >= MaxTries
    BY <1>1, AtLeastOne
  <1>4. most * MaxTries \in Nat /\ Stage * MaxTries <= most * MaxTries
    <2>1. CASE Stage = most
      BY <2>1, <1>1, <1>3
    <2>2. CASE Stage < most
      BY <2>2, <1>1, <1>3, Multiples, AtLeastOne
    <2> QED
      BY <1>1, <2>1, <2>2
  <1>5. CommandsLeft = Stage * MaxTries - (IF script \in WaitNames THEN tries ELSE 0)
    BY DEF CommandsLeft
  <1> HIDE DEF most
  <1>6. CommandsLeft \in 1 .. most * MaxTries
    BY <1>1, <1>2, <1>3, <1>4, <1>5
  <1> QED
    BY <1>6 DEF most

LEMMA CommandsLeftIsInt == Typed => CommandsLeft \in Int
  <1>1. script \in Ended => CommandsLeft = 0
    BY DEF CommandsLeft
  <1> QED
    BY <1>1, CommandsLeftBounded

\* A command that takes the script to a later stage uses up at least one.
LEMMA StagePassed ==
  ASSUME Typed, Typed', script \notin Ended,
         script' \in Ended \/ (Stage' < Stage /\ (script' \in WaitNames => tries' = 0))
  PROVE  CommandsLeft' < CommandsLeft
  <1>1. CommandsLeft >= 1 /\ CommandsLeft \in Nat
    BY CommandsLeftBounded, CountsArePositive
  <1>2. CASE script' \in Ended
    BY <1>1, <1>2 DEF CommandsLeft
  <1>3. CASE script' \notin Ended
    <2>1. Stage \in Nat /\ MaxTries \in Nat \ {0}
      BY Stages, CountsArePositive
    <2>2. (Typed /\ script \notin Ended => Stage \in 1 .. 11 * TotalRuns + 3)'
      BY Stages, PTL
    <2>3. Stage' \in Nat
      BY <1>3, <2>2, CountsArePositive
    <2>4. Stage' * MaxTries + MaxTries <= Stage * MaxTries
      BY <1>3, <2>1, <2>3, Multiples
    <2>5. Stage' * MaxTries \in Nat /\ Stage * MaxTries \in Nat
      BY <2>1, <2>3, Product
    <2>6. CommandsLeft' = Stage' * MaxTries
      BY <1>3, <2>5 DEF CommandsLeft
    <2>7. \E t \in 0 .. MaxTries - 1 : CommandsLeft = Stage * MaxTries - t
      BY <2>1 DEF CommandsLeft, Typed, TypeOK, Polls
    <2> QED
      BY <2>1, <2>4, <2>5, <2>6, <2>7
  <1> QED
    BY <1>2, <1>3

\* So does one that goes on within the run, or that ends the script.
LEMMA WithinRun ==
  ASSUME Typed, Typed', script \notin Ended, UNCHANGED runNum,
         \/ script' \in Ended
         \/ /\ Distance[script'] < IF script = "warm-up" THEN 12 ELSE Distance[script]
            /\ script' # "warm-up"
            /\ script' \in WaitNames => tries' = 0
         \/ /\ script = "start_go" /\ script' = "warm-up"
  PROVE  CommandsLeft' < CommandsLeft
  <1>1. CASE script' \in Ended
    BY <1>1, StagePassed
  <1>2. CASE script' \notin Ended
    <2>1. /\ script \in WaitNames \cup Phases \cup {"warm-up", "inject", "remove", "meta", "export"}
          /\ script' \in WaitNames \cup Phases
                          \cup {"warm-up", "inject", "remove", "meta", "export"}
          /\ TotalRuns - runNum \in Int
      BY <1>2, CountsArePositive DEF Typed, TypeOK, Runs
    <2>2. Stage' < Stage
      BY <1>2, <2>1, Places DEF Stage, Distance, Ended, Phases
    <2>3. script' \in WaitNames => tries' = 0
      BY <1>2, Places
    <2> QED
      BY <2>2, <2>3, StagePassed
  <1> QED
    BY <1>1, <1>2

LEMMA CommandPasses ==
  ASSUME Typed, Typed', Command
  PROVE  CommandsLeft' < CommandsLeft
  <1>0. script \notin Ended
    BY Places DEF Command, Healthy, NotHealthy, WarmUp, RunK6, InjectFault, RemoveFault, Recreate,
                  WriteMeta, Export, Ended, Phases
  <1>1. CASE Healthy
    <2>1. /\ tries' = 0 /\ UNCHANGED runNum
          /\ \/ script = "start_go" /\ script' = "warm-up"
             \/ Distance[script'] < Distance[script] /\ script' # "warm-up"
          /\ script # "warm-up"
      BY <1>1, Places DEF Healthy, Waits, Wait, Distance
    <2> QED
      BY <1>0, <2>1, WithinRun
  <1>2. CASE NotHealthy
    <2>1. /\ script \in WaitNames
          /\ tries' = tries + 1 /\ tries \in Nat /\ UNCHANGED runNum
          /\ script' \in {"failed", script}
      BY <1>2 DEF NotHealthy, Typed, TypeOK
    <2>2. CASE script' = "failed"
      BY <1>0, <2>1, <2>2, WithinRun DEF Ended
    <2>3. CASE script' = script
      <3>1. Stage' = Stage
        BY <2>1, <2>3 DEF Stage
      <3>2. Stage \in Nat /\ MaxTries \in Nat
        BY <1>0, Stages, CountsArePositive
      <3>3. Stage * MaxTries \in Nat
        BY <3>2, Product
      <3>4. /\ CommandsLeft = Stage * MaxTries - tries
            /\ CommandsLeft' = Stage * MaxTries - (tries + 1)
        BY <1>0, <2>1, <2>3, <3>1 DEF CommandsLeft
      <3> QED
        BY <2>1, <3>3, <3>4
    <2> QED
      BY <2>1, <2>2, <2>3
  <1>3. CASE WarmUp
    BY <1>0, <1>3, WithinRun, Places DEF WarmUp, Distance
  <1>4. CASE RunK6
    <2>1. /\ Distance[script'] < Distance[script] /\ UNCHANGED runNum
          /\ script # "warm-up" /\ script' # "warm-up" /\ script' \notin WaitNames
      BY <1>4, Places DEF RunK6, AfterPhase, Distance, Phases
    <2> QED
      BY <1>0, <2>1, WithinRun
  <1>5. CASE InjectFault \/ RemoveFault
    BY <1>0, <1>5, WithinRun DEF InjectFault, RemoveFault, Recreate, Distance
  <1>6. CASE Export
    BY <1>0, <1>6, WithinRun DEF Export, Ended
  <1>7. CASE WriteMeta
    <2>1. CASE runNum < TotalRuns
      <3>1. script' = "warm-up" /\ runNum' = runNum + 1 /\ script = "meta"
        BY <1>7, <2>1 DEF WriteMeta
      <3>2. TotalRuns \in Nat /\ runNum \in Nat
        BY CountsArePositive DEF Typed, TypeOK, Runs
      <3>3. Stage = 11 * (TotalRuns - runNum) + 2
        BY <3>1 DEF Stage, Distance
      <3>4. Stage' = 11 * (TotalRuns - (runNum + 1)) + 12
        BY <3>1 DEF Stage
      <3>5. Stage' < Stage
        BY <3>2, <3>3, <3>4
      <3>6. script' \notin WaitNames
        BY <3>1, Places
      <3> QED
        BY <1>0, <3>5, <3>6, StagePassed
    <2>2. CASE ~(runNum < TotalRuns)
      <3>1. script' = "export" /\ UNCHANGED runNum /\ script = "meta"
        BY <1>7, <2>2 DEF WriteMeta
      <3> QED
        BY <1>0, <3>1, Places, WithinRun DEF Distance
    <2> QED
      BY <2>1, <2>2
  <1> QED
    BY <1>1, <1>2, <1>3, <1>4, <1>5, <1>6, <1>7 DEF Command

LEMMA OthersGiveNothingBack ==
  ASSUME Typed, Typed', Next, ~Command, script \notin Ended
  PROVE  CommandsLeft' <= CommandsLeft
  <1>1. CommandsLeft \in Nat
    BY CommandsLeftBounded
  <1>2. CASE RunK6Fails
    <2>1. /\ Distance[script'] < Distance[script] /\ UNCHANGED runNum
          /\ script # "warm-up" /\ script' # "warm-up" /\ script' \notin WaitNames
      BY <1>2, Places DEF RunK6Fails, AfterPhase, Distance, Phases
    <2>2. CommandsLeft' < CommandsLeft
      BY <2>1, WithinRun
    <2>3. (Typed => CommandsLeft \in Int)'
      BY CommandsLeftIsInt, PTL
    <2> QED
      BY <1>1, <2>2, <2>3
  <1>3. CASE ComposeFails \/ Abort
    BY <1>1, <1>3 DEF ComposeFails, Abort, Ended, CommandsLeft
  <1>4. CASE \/ DotnetStarts \/ GoDials \/ GoDialFails
             \/ \E svc \in Services : Crash(svc)
             \/ KafkaStops \/ KafkaStarts
    <2>1. UNCHANGED <<script, tries, runNum>>
      BY <1>4 DEF DotnetStarts, GoDials, GoDialFails, Crash, KafkaStops, KafkaStarts,
                  ServiceFrame, scriptVars
    <2> QED
      BY <1>1, <2>1 DEF CommandsLeft, Stage
  <1>5. ~Start
    BY DEF Start
  <1> QED
    BY <1>2, <1>3, <1>4, <1>5 DEF Next

\* An invocation is over after so many commands at most, whatever happens to
\* Kafka and to the services: each uses up at least one of those that are
\* left, and nothing else gives any back (the polls of wait_healthy are
\* counted in run-benchmark.sh, and its other loop is over the runs).
THEOREM InvocationIsBounded ==
  Spec => /\ [](script \notin Ended => CommandsLeft \in 1 .. (11 * TotalRuns + 3) * MaxTries)
          /\ [][/\ Command => CommandsLeft' < CommandsLeft
                /\ script \notin Ended => CommandsLeft' <= CommandsLeft]_vars
  <1>1. Typed => (script \notin Ended => CommandsLeft \in 1 .. (11 * TotalRuns + 3) * MaxTries)
    BY CommandsLeftBounded
  <1>2. Typed /\ Typed' /\ [Next]_vars =>
          [/\ Command => CommandsLeft' < CommandsLeft
           /\ script \notin Ended => CommandsLeft' <= CommandsLeft]_vars
    <2> SUFFICES ASSUME Typed, Typed', Next
                 PROVE  /\ Command => CommandsLeft' < CommandsLeft
                        /\ script \notin Ended => CommandsLeft' <= CommandsLeft
      OBVIOUS
    <2>1. script \notin Ended => CommandsLeft' <= CommandsLeft
      <3> SUFFICES ASSUME script \notin Ended, Command PROVE CommandsLeft' <= CommandsLeft
        BY OthersGiveNothingBack
      <3>1. CommandsLeft' < CommandsLeft /\ CommandsLeft \in Nat
        BY CommandPasses, CommandsLeftBounded
      <3>2. (Typed => CommandsLeft \in Int)'
        BY CommandsLeftIsInt, PTL
      <3> QED
        BY <3>1, <3>2
    <2> QED
      BY <2>1, CommandPasses
  <1> QED
    BY <1>1, <1>2, AlwaysTyped, PTL DEF Spec

\* The prover cannot evaluate ENABLED: what it means for GoDials, that its
\* guard holds, is the hypothesis of the theorem below.
DialEnabled == health["go"] = "starting" /\ kafkaUp => ENABLED <<GoDials>>_vars

\* While Kafka is there the Go service comes up again and again, unless its
\* container was lost: nothing but the dial takes it out of its attempts
\* once Kafka is there, and every crash leads back to them (WaitForKafka and
\* main's Fatal, restart: unless-stopped).
THEOREM GoComesBack == Spec /\ []DialEnabled => GoComesUp
  <1> DEFINE there == kafkaUp /\ health["go"] # "gone"
             dialling == health["go"] = "starting"
             up == health["go"] = "up"
  <1>1. Typed /\ there => dialling \/ up
    BY DEF Typed, TypeOK, Services
  <1>2. dialling /\ there /\ DialEnabled => ENABLED <<GoDials>>_vars
    BY DEF DialEnabled
  <1>3. Typed /\ <<GoDials>>_vars => up'
    BY DEF GoDials, Typed, TypeOK, Services
  <1> QED
    BY <1>1, <1>2, <1>3, AlwaysTyped, PTL DEF Spec, GoComesUp
=============================================================================
