----------------------------- MODULE AnalysisRun -----------------------------
(***************************************************************************)
(* The analysis pipeline, run-analysis.sh, as what it does to the files:   *)
(* which export every CSV is from, and from which CSVs every figure, table *)
(* and report was computed.  A script may also be run alone, as the README *)
(* of the analysis explains.  Runs follow each other, so the files of a    *)
(* run that failed, or that skipped the export, are the input of the next. *)
(*                                                                         *)
(* A CSV is the number of the run that exported it: 0 stands for one that  *)
(* was there before, Absent for none.  What an output file says is which   *)
(* version of which CSVs it was computed from; a file is the set of what   *)
(* it says, empty when it is not there.                                    *)
(***************************************************************************)
EXTENDS AnalysisFiles

CONSTANTS
  MaxRuns,   \* bound: runs of the pipeline or of one of its scripts
  MaxFaults  \* bound: failures of any kind

ASSUME BoundsAreNatural == MaxRuns \in Nat /\ MaxFaults \in Nat

Absent == -1

VARIABLES
  data,      \* CSV -> the run that exported it
  out,       \* output file -> what it was computed from
  step,      \* the script in progress, or how the run ended
  job, save, \* the job of that script and the file of that job to write next
  run,       \* number of the run
  exported,  \* the run began with an export
  alone,     \* the run is that of a single script
  failed,    \* the jobs that failed in this run
  faults     \* failures so far

position == <<step, job, save>>
vars == <<data, out, step, job, save, run, exported, alone, failed, faults>>

Ended == {"idle", "done", "aborted", "killed"}

-----------------------------------------------------------------------------
Present(csvs) == \A f \in csvs : data[f] # Absent

\* A list of tests is computed from the metrics that have both CSVs;
\* everything else from whatever is there.
Inputs(art) ==
  { f \in art.reads : IF art.tests THEN Present(PerService({f[1]}))
                                   ELSE data[f] # Absent }

Content(art) == [ f \in Inputs(art) |-> data[f] ]

\* "No statistical results": neither figure 8 nor table 2 is written then.
NoResults(art) == art.tests /\ Inputs(art) = {}

-----------------------------------------------------------------------------
\* Either there is neither data nor output, or both, as in the repository.
Init ==
  /\ \/ /\ data = [ f \in CSVs |-> Absent ]
        /\ out = [ file \in Files |-> {} ]
     \/ /\ data = [ f \in CSVs |-> 0 ]
        /\ out = [ file \in Files |-> {Content(file.art)} ]
  /\ step = "idle" /\ job = 1 /\ save = 1
  /\ run = 0 /\ exported = FALSE /\ alone = FALSE
  /\ failed = {} /\ faults = 0

Begin(first, single) ==
  /\ step \in Ended
  /\ run < MaxRuns
  /\ run' = run + 1
  /\ step' = first /\ job' = 1 /\ save' = 1
  /\ exported' = (first = "export") /\ alone' = single
  /\ failed' = {}
  /\ UNCHANGED <<data, out, faults>>

BeginPipeline == Begin("export", FALSE)
BeginSkipExport == Begin("tests", FALSE)
BeginScript == \E script \in {"export", "tests", "charts", "tables"} :
                 Begin(script, TRUE)

Following == [ export |-> "tests", tests |-> "charts", charts |-> "tables",
               tables |-> "notebooks", notebooks |-> "done" ]

NextScript ==
  /\ step' = IF alone THEN "done" ELSE Following[step]
  /\ job' = 1 /\ save' = 1

NextJob(jobs) ==
  IF job < jobs THEN step' = step /\ job' = job + 1 /\ save' = 1
                ELSE NextScript

\* The run ends here.
Stop(how) == step' = how /\ UNCHANGED <<job, save>>

Fault == faults < MaxFaults /\ faults' = faults + 1

-----------------------------------------------------------------------------
(* Step 1: export_prometheus.py.                                           *)

WriteCsv(f) == data' = [data EXCEPT ![f] = run]

\* The next query is answered and its rows replace the CSV.
ExportOne ==
  /\ step = "export"
  /\ WriteCsv(ExportOrder[job])
  /\ NextJob(26)
  /\ UNCHANGED <<out, run, exported, alone, failed, faults>>

(* The failed query is skipped and the next one made.  NoMixedExport *)
QueryFailsSkipped ==
  /\ step = "export"
  /\ Fault
  /\ NextJob(26)
  /\ UNCHANGED <<data, out, run, exported, alone, failed>>

\* It is not (an HTTP error, no connection, 30 s without an answer): the
\* exception ends the script, and the CSVs not yet reached stay as they were.
QueryFails ==
  /\ step = "export"
  /\ Fault
  /\ Stop("aborted")
  /\ UNCHANGED <<data, out, run, exported, alone, failed>>

-----------------------------------------------------------------------------
(* Steps 2 to 5: scripts that write output.                                *)

Current == Jobs[step][job]
Art == Current.saves[1].art

(* A file that is there already is kept.  StaleOnlyIfFailed *)
WriteFileOnce ==
  /\ step \in Scripts
  /\ Present(Current.needs)
  /\ ~NoResults(Art)
  /\ out' = [out EXCEPT ![Current.saves[save]] =
               IF @ = {} THEN {Content(Current.saves[save].art)} ELSE @]
  /\ IF save < Len(Current.saves)
       THEN save' = save + 1 /\ UNCHANGED <<step, job>>
       ELSE NextJob(Len(Jobs[step]))
  /\ UNCHANGED <<data, run, exported, alone, failed, faults>>

\* The job computes and writes its next file, over the one of that name.
WriteFile ==
  /\ step \in Scripts
  /\ Present(Current.needs)
  /\ ~NoResults(Art)
  /\ out' = [out EXCEPT ![Current.saves[save]] = {Content(Current.saves[save].art)}]
  /\ IF save < Len(Current.saves)
       THEN save' = save + 1 /\ UNCHANGED <<step, job>>
       ELSE NextJob(Len(Jobs[step]))
  /\ UNCHANGED <<data, run, exported, alone, failed, faults>>

\* It returns without writing when no metric has both CSVs.
WriteNothing ==
  /\ step \in Scripts
  /\ NoResults(Art)
  /\ NextJob(Len(Jobs[step]))
  /\ UNCHANGED <<data, out, run, exported, alone, failed, faults>>

\* A figure function raises, which main catches; or a notebook does, and
\* nbconvert fails, which the loop of run-analysis.sh only logs.
JobFails ==
  /\ failed' = failed \cup {<<step, job>>}
  /\ NextJob(Len(Jobs[step]))
  /\ UNCHANGED <<data, out, run, exported, alone>>

(* main does not catch what a figure raises.  FiguresLeadOn *)
FigureFailsUncaught ==
  /\ step = "charts"
  /\ Fault
  /\ Stop("aborted")
  /\ UNCHANGED <<data, out, run, exported, alone, failed>>

FigureFails == step = "charts" /\ Fault /\ JobFails

NotebookFails == step = "notebooks" /\ Fault /\ JobFails

\* A CSV that the notebook loads outside any try is not there.
NotebookLacksData ==
  /\ step = "notebooks"
  /\ ~Present(Current.needs)
  /\ JobFails
  /\ UNCHANGED faults

\* statistical_tests.py or generate_tables.py raises: with set -e the run
\* stops, possibly between the Markdown and the LaTeX form of a table.
TableFails ==
  /\ step \in {"tests", "tables"}
  /\ Fault
  /\ Stop("aborted")
  /\ UNCHANGED <<data, out, run, exported, alone, failed>>

\* The run is interrupted (Ctrl-C is not caught as an Exception).
Kill ==
  /\ step \notin Ended
  /\ Fault
  /\ Stop("killed")
  /\ UNCHANGED <<data, out, run, exported, alone, failed>>

-----------------------------------------------------------------------------
Work == \/ ExportOne \/ WriteFile \/ WriteNothing
        \/ NotebookLacksData

Next == \/ BeginPipeline \/ BeginSkipExport \/ BeginScript
        \/ Work
        \/ QueryFails \/ FigureFails \/ NotebookFails \/ TableFails
        \/ Kill

\* Every query, figure, table and notebook ends or fails: queries have a
\* timeout of 30 s, notebooks one of 300 s, the rest computes.  Nobody has
\* to begin a run, and nothing has to fail.
Spec == Init /\ [][Next]_vars /\ WF_vars(Work)

-----------------------------------------------------------------------------
TypeOK ==
  /\ data \in [CSVs -> Absent .. MaxRuns]
  /\ DOMAIN out = Files
  /\ step \in Ended \cup Scripts \cup {"export"}
  /\ job \in 1 .. 26 /\ save \in 1 .. 7
  /\ run \in 0 .. MaxRuns
  /\ exported \in BOOLEAN /\ alone \in BOOLEAN
  /\ failed \subseteq Scripts \X (1 .. 8)
  /\ faults \in 0 .. MaxFaults

\* Past its export a run computes from one export only: every CSV is from
\* this very run.  (export_all has no try: one failed query ends the script,
\* and set -e the run, before anything is computed from a mix of two
\* exports.)
NoMixedExport ==
  exported /\ step \in Scripts \cup {"done"} => \A f \in CSVs : data[f] = run

\* A file is left behind by a run of the whole pipeline only if every job
\* that could have written it failed: one that failed in generate_charts is
\* made up for by its notebook, one written twice is the same both times,
\* and a notebook that fails half-way spoils nothing.
StaleOnlyIfFailed ==
  step = "done" /\ ~alone =>
    \A file \in Files :
      \/ out[file] = {Content(file.art)}
      \/ NoResults(file.art)
      \/ WritersOf(file) \subseteq failed

\* A figure or a notebook that fails never costs the outputs after it: from
\* the charts a run of the whole pipeline gets to the tables, from the tables
\* to the notebooks unless a table fails, and from the notebooks to its end,
\* unless it is killed on the way.
FiguresLeadOn ==
  /\ step = "charts" /\ ~alone ~> step \in {"tables", "killed"}
  /\ step = "tables" /\ ~alone ~> step \in {"notebooks", "aborted", "killed"}
  /\ step = "notebooks" /\ ~alone ~> step \in {"done", "killed"}
=============================================================================
