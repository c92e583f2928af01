---------------------------- MODULE AnalysisFiles ----------------------------
(***************************************************************************)
(* Which files the analysis scripts read and write.  A CSV of              *)
(* analysis/data is a pair <<metric, service>>.  A figure, a table or a    *)
(* report is a record: its name, the CSVs it is computed from, and whether *)
(* it is a list of statistical tests, which only exist for the metrics     *)
(* that have both CSVs.  A job is the unit that succeeds or fails as a     *)
(* whole: a figure function, a table function or a notebook.               *)
(***************************************************************************)
EXTENDS Integers, Sequences

SERVICES == <<"dotnet", "go">>

\* The queries of export_all, in the order in which it makes them; each one
\* is made for the .NET service and then for the Go service.
Metrics == << "p50", "p75", "p90", "p95", "p99", "throughput", "error_rate",
              "cpu", "memory_heap", "consumer_lag",
              "orders_received", "orders_processed", "orders_failed" >>

ExportOrder == [ i \in 1 .. 26 |->
                   << Metrics[(i + 1) \div 2], SERVICES[2 - (i % 2)] >> ]

CSVs == { ExportOrder[i] : i \in 1 .. 26 }

PerService(metrics) == { <<m, s>> : m \in metrics, s \in {"dotnet", "go"} }

Drawing(name, metrics) ==
  [name |-> name, reads |-> PerService(metrics), tests |-> FALSE]

TestList(name, metrics) ==
  [name |-> name, reads |-> PerService(metrics), tests |-> TRUE]

-----------------------------------------------------------------------------
(* The figures of generate_charts.py.                                      *)

fig01 == Drawing("fig01_latency_percentiles", {"p50", "p95", "p99"})
fig02 == Drawing("fig02_latency_timeseries", {"p95", "p99"})
fig03 == Drawing("fig03_throughput_timeseries", {"throughput", "consumer_lag"})
fig04 == Drawing("fig04_resource_utilisation", {"cpu", "memory_heap"})
fig05 == Drawing("fig05_fault_recovery", {"p95"})
fig06 == Drawing("fig06_latency_cdf", {"p95"})
fig07 == Drawing("fig07_devex_radar", {})
fig08 == TestList("fig08_significance_heatmap",
                  {"p95", "p99", "throughput", "cpu", "memory_heap"})

(* The tables of generate_tables.py; statistical_tests.py writes the       *)
(* second one too.                                                         *)

table01 == Drawing("table01_descriptive_stats",
                   {"p95", "p99", "throughput", "cpu", "memory_heap"})
table02 == TestList("table02_statistical_tests",
                    {"p95", "p99", "throughput", "cpu", "memory_heap", "error_rate"})
table03 == Drawing("table03_fault_summary", {"p95"})
table04 == Drawing("table04_devex", {})
table05 == Drawing("table05_recommendations", {})

(* The reports: a notebook is executed and written as one HTML file.       *)

report01 == Drawing("01-data-exploration",
                    { Metrics[i] : i \in 1 .. 10 })
report02 == Drawing("02-latency-analysis", {"p95", "p99"})
report03 == Drawing("03-throughput-analysis", {"throughput", "consumer_lag", "p95"})
report04 == Drawing("04-resource-analysis", {"cpu", "memory_heap", "throughput"})
report05 == Drawing("05-fault-analysis", {"p95", "error_rate"})
report06 == Drawing("06-devex-analysis", {})

-----------------------------------------------------------------------------
File(art, ext) == [art |-> art, ext |-> ext]

SaveFigure(fig) == << File(fig, "png"), File(fig, "pdf") >>

SaveTable(table) ==
  IF table = table05 THEN << File(table, "md") >>
                     ELSE << File(table, "md"), File(table, "tex") >>

\* A job: the metrics whose CSVs it loads without catching FileNotFoundError
\* (for both services), and the files it writes, in order.
Job(needs, saves) == [needs |-> PerService(needs), saves |-> saves]

TestJobs == << Job({}, SaveTable(table02)) >>

ChartJobs ==
  [ i \in 1 .. 8 |->
      Job({}, SaveFigure(<< fig01, fig02, fig03, fig04,
                            fig05, fig06, fig07, fig08 >>[i])) ]

TableJobs ==
  [ i \in 1 .. 5 |->
      Job({}, SaveTable(<< table01, table02, table03, table04, table05 >>[i])) ]

Notebook01 == Job({}, << File(report01, "html") >>)
Notebook02 == Job({"p95", "p99"},
                  SaveFigure(fig01) \o SaveFigure(fig02) \o SaveFigure(fig06)
                    \o << File(report02, "html") >>)
Notebook03 == Job({"throughput"}, SaveFigure(fig03) \o << File(report03, "html") >>)
Notebook04 == Job({"cpu", "memory_heap"},
                  SaveFigure(fig04) \o << File(report04, "html") >>)
Notebook05 == Job({}, SaveFigure(fig05) \o << File(report05, "html") >>)
Notebook06 == Job({}, SaveFigure(fig07) \o SaveTable(table04)
                        \o << File(report06, "html") >>)

NotebookJobs == << Notebook01, Notebook02, Notebook03,
                   Notebook04, Notebook05, Notebook06 >>

\* The jobs of each script that writes output.
Jobs == [ tests |-> TestJobs, charts |-> ChartJobs,
          tables |-> TableJobs, notebooks |-> NotebookJobs ]

Scripts == DOMAIN Jobs

Files == UNION { UNION { { Jobs[s][j].saves[k] : k \in DOMAIN Jobs[s][j].saves } :
                           j \in DOMAIN Jobs[s] } : s \in Scripts }

\* The jobs that write a file.
WritersOf(file) ==
  { w \in Scripts \X (1 .. 8) :
      /\ w[2] \in DOMAIN Jobs[w[1]]
      /\ \E k \in DOMAIN Jobs[w[1]][w[2]].saves : Jobs[w[1]][w[2]].saves[k] = file }
=============================================================================
