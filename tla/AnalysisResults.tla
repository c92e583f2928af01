--------------------------- MODULE AnalysisResults ---------------------------
(***************************************************************************)
(* What the analysis tells its reader.  The same data are evaluated in     *)
(* several places that were written apart: a comparison of two samples in  *)
(* table 2 and in a notebook, the developer-experience metrics in table 4, *)
(* notebook 06 and the radar chart, the windows of a fault in table 3 and  *)
(* notebook 05.  A behaviour is one set of data and the places that have   *)
(* spoken about it, in any order (the notebooks can be opened at any       *)
(* time).                                                                  *)
(***************************************************************************)
EXTENDS Verdict, Devex, FaultWindows

CONSTANTS
  Samples,      \* pairs of samples, of the .NET and of the Go service
  Stats,        \* what the statistics libraries may return for two samples
  DevexFigures, \* figures: a function from DevexMetrics to the two values
  Series        \* pairs of a series and the window of its fault

ASSUME StatsAssumption == \A s \in Stats : s.low <= s.high /\ s.p \in Nat

ASSUME DevexAssumption == DevexFigures \subseteq [DevexMetrics -> [dotnet : Int, go : Int]]

\* The export sorts a series by its timestamps, which may repeat; a window has
\* a start and an end, or there is none.
ASSUME SeriesAssumption ==
  \A x \in Series :
    /\ Len(x[1]) \in Nat /\ DOMAIN x[1] = 1 .. Len(x[1])
    /\ \A i \in DOMAIN x[1] : x[1][i].t \in Int
    /\ \A i, j \in DOMAIN x[1] : i <= j => x[1][i].t <= x[1][j].t
    /\ \A w \in x[2] : w \in Int \X Int /\ w[1] <= w[2] /\ x[2] = {w}

VARIABLES
  asked, \* the data
  told   \* place -> what it says of them

vars == <<asked, told>>

Comparisons == [ kind : {"test"}, metric : DOMAIN TableTests,
                 samples : Samples, stats : Stats ]
DevexSheets ==
  [ kind : {"devex"}, file : DevexFiles \ {"none"}, values : DevexFigures ]
  \cup [ kind : {"devex"}, file : {"none"}, values : {Placeholder} ]
FaultSeries == [ kind : {"fault"}, series : Series ]

Init ==
  /\ asked \in Comparisons \cup DevexSheets \cup FaultSeries
  /\ told = << >>

Tell(place, what) ==
  /\ place \notin DOMAIN told
  /\ told' = [ p \in DOMAIN told \cup {place} |-> IF p = place THEN what ELSE told[p] ]
  /\ UNCHANGED asked

-----------------------------------------------------------------------------
(* Comparisons.                                                            *)

Result(lowerIsBetter) ==
  ComputeTestResult(asked.samples[1], asked.samples[2], asked.stats, lowerIsBetter)

Table02 ==
  /\ asked.kind = "test"
  /\ Tell("table02", Row(Result(TableTests[asked.metric])))

Notebook02 ==
  /\ asked.kind = "test" /\ asked.metric \in DOMAIN Notebook02Tests
  /\ Tell("notebook", Result(Notebook02Tests[asked.metric]))

Notebook03 ==
  /\ asked.kind = "test" /\ asked.metric \in DOMAIN Notebook03Tests
  /\ Tell("notebook", Result(Notebook03Tests[asked.metric]))

Notebook04 ==
  /\ asked.kind = "test" /\ asked.metric \in DOMAIN Notebook04Tests
  /\ Tell("notebook", Result(Notebook04Tests[asked.metric]))

-----------------------------------------------------------------------------
(* Developer experience.                                                   *)

Table04 ==
  /\ asked.kind = "devex"
  /\ Tell("table04", [ m \in DevexMetrics |-> TableWinner(asked.file, m, asked.values[m]) ])

Notebook06 ==
  /\ asked.kind = "devex"
  /\ LET normed == [ m \in DevexMetrics |-> Normalise(asked.file, m, asked.values[m]) ]
     IN  Tell("notebook", [ winners |-> [ m \in DevexMetrics |->
                                            NotebookWinner(asked.file, m, asked.values[m]) ],
                            normed |-> normed,
                            composite |-> CompositeWinner(asked.file, normed) ])

Fig07 ==
  /\ asked.kind = "devex"
  /\ Tell("fig07", [ m \in DevexMetrics |-> RadarNormalise(asked.file, m, asked.values[m]) ])

-----------------------------------------------------------------------------
(* Faults.                                                                 *)

Table03 ==
  /\ asked.kind = "fault"
  /\ LET n == Len(asked.series[1])
     IN  Tell("table03", IF n < 4 THEN << >>
                                  ELSE << QuarterBaseline(n), QuarterFault(n) >>)

Notebook05 ==
  /\ asked.kind = "fault"
  /\ LET s == asked.series[1]
         parts == Segment(s, asked.series[2])
     IN  Tell("notebook", [ parts |-> parts, recovery |-> Recovery(s, parts[1], parts[3]) ])

-----------------------------------------------------------------------------
Next == \/ Table02 \/ Notebook02 \/ Notebook03 \/ Notebook04
        \/ Table04 \/ Notebook06 \/ Fig07
        \/ Table03 \/ Notebook05

Spec == Init /\ [][Next]_vars

-----------------------------------------------------------------------------
Says(kind, place) == asked.kind = kind /\ place \in DOMAIN told

NoData == \E i \in {1, 2} : DropNaN(asked.samples[i]) = << >>

LowerBetter == asked.metric # "throughput"

\* Of two samples: the first has the better mean.
BetterMean(one, other) ==
  IF LowerBetter THEN LessMean(Mean(DropNaN(one)), Mean(DropNaN(other)))
                 ELSE LessMean(Mean(DropNaN(other)), Mean(DropNaN(one)))

\* A row of table 2 does not contradict itself, its data or the notebook:
\* the printed p-value reads significant just when there is a winner (0.0500
\* may be either, rounded), the winner never has the worse mean, and the
\* notebook names the same one, although it calls the test on its own.
VerdictSound ==
  Says("test", "table02") /\ ~NoData =>
    LET row == told["table02"]
    IN  /\ row.winner = "tie" => ~row.p.below /\ row.p.p >= 500
        /\ row.winner # "tie" => row.p.below \/ row.p.p <= 500
        /\ row.winner = "go" => BetterMean(asked.samples[2], asked.samples[1])
        /\ row.winner = "dotnet" => ~BetterMean(asked.samples[2], asked.samples[1])
        /\ "notebook" \in DOMAIN told => told["notebook"].winner = row.winner

\* A sample without a single value supports no claim: the table prints no
\* p-value below the level of significance, and the notebook no "consistent
\* directional difference".
MissingDataClaimsNothing ==
  asked.kind = "test" /\ NoData =>
    /\ "table02" \in DOMAIN told => ~ReadsSignificant(told["table02"].p)
    /\ "notebook" \in DOMAIN told => ~CIExcludesZero(told["notebook"])

\* analysis/README.md:112 and notebook 06:91: the winner has the lower value,
\* or the higher number of tests.
DocumentedWinner(m) ==
  Better(m # "test_count", asked.values[m].dotnet, asked.values[m].go)

\* Where a place can read the spelling of the metrics (table 4 the headings,
\* notebook 06 and the radar chart the keys, all of them their placeholders)
\* it names the documented winners, although the three decide in three ways:
\* by a list of headings, by a list of keys, by scores.  The scores of the
\* notebook are lower for the better service, as its text says; those of the
\* radar chart are higher, against its title.  A service that is nowhere worse
\* and somewhere better wins the weighted score.  A devex-*.json is never
\* readable for table 4 and notebook 06 at once: they then contradict each
\* other on each of the four metrics that are better low.
DevexAgrees ==
  /\ Says("devex", "table04") /\ asked.file # "keys" =>
       \A m \in DevexMetrics : told["table04"][m] = DocumentedWinner(m)
  /\ Says("devex", "fig07") /\ asked.file # "headings" =>
       \A m \in DevexMetrics :
         LET radar == told["fig07"][m]
         IN  /\ DocumentedWinner(m) = ".NET" <=> radar.dotnet > radar.go
             /\ DocumentedWinner(m) = "Go" <=> radar.go > radar.dotnet
  /\ Says("devex", "notebook") /\ asked.file # "headings" =>
       LET book == told["notebook"]
           Wins(svc, m) == book.winners[m] = svc
       IN  /\ \A m \in DevexMetrics :
                /\ book.winners[m] = DocumentedWinner(m)
                /\ Wins(".NET", m) <=> book.normed[m].dotnet < book.normed[m].go
                /\ Wins("Go", m) <=> book.normed[m].go < book.normed[m].dotnet
           /\ \A svc \in {".NET", "Go"} :
                (\A m \in DevexMetrics : Wins(svc, m) \/ Wins("TIE", m))
                  /\ (\E m \in DevexMetrics : Wins(svc, m))
                => book.composite = svc
  /\ Says("devex", "notebook") /\ "table04" \in DOMAIN told /\ asked.file # "none" =>
       \A m \in DevexMetrics \ {"test_count"} :
         asked.values[m].dotnet # asked.values[m].go =>
           {told["table04"][m], told["notebook"].winners[m]} = {".NET", "Go"}

\* Every sample of a series is in exactly one window of notebook 05, however
\* the series is cut and also when timestamps repeat; the two windows of
\* table 3 have samples and none in common.
WindowsSplitSeries ==
  /\ Says("fault", "notebook") =>
       LET parts == told["notebook"].parts
       IN  /\ UNION { parts[i] : i \in 1 .. 3 } = DOMAIN asked.series[1]
           /\ \A i, j \in 1 .. 3 : i # j => parts[i] \cap parts[j] = {}
  /\ Says("fault", "table03") /\ told["table03"] # << >> =>
       LET baseline == told["table03"][1]
           fault == told["table03"][2]
       IN  /\ baseline # {} /\ fault # {} /\ baseline \cap fault = {}
           /\ baseline \cup fault \subseteq DOMAIN asked.series[1]

\* The definition of notebook 05 (lines 137-138): a sample after the fault is
\* within 10 % of the baseline, on either side, and its time counts from the
\* end of the fault window, which by thirds is that of its last sample.
NotBelowBand(s, pre, i) == 9 * SumOver(s, pre) <= s[i].v * 10 * Size(s, pre)
NotAboveBand(s, pre, i) == s[i].v * 10 * Size(s, pre) <= 11 * SumOver(s, pre)

WithinTenPercent(s, pre, i) ==
  pre # {} /\ NotBelowBand(s, pre, i) /\ NotAboveBand(s, pre, i)

FaultEnd(s, window, during) ==
  IF window = {} THEN s[Last(during)].t ELSE (CHOOSE w \in window : TRUE)[2]

\* The time that notebook 05 prints, against that definition: it is never
\* longer than the defined one, and a series that returns by the definition
\* is never called one that did not recover.  While no sample after the fault
\* drops below the band it is short of the defined time by just the gap
\* between the end of the window and the first sample after it.
RecoveryNotOverstated ==
  Says("fault", "notebook") =>
    LET s == asked.series[1]
        parts == told["notebook"].parts
        r == told["notebook"].recovery
        returned == { i \in parts[3] : WithinTenPercent(s, parts[1], i) }
        Since(i) == s[i].t - FaultEnd(s, asked.series[2], parts[2])
    IN  /\ r.outcome # "insufficient data" =>
             \A i \in returned : r.outcome = "recovered" /\ r.seconds <= Since(i)
        /\ r.outcome = "recovered" /\ (\A i \in parts[3] : NotBelowBand(s, parts[1], i)) =>
             \E i \in returned : \E first \in parts[3] :
               /\ \A j \in parts[3] : first <= j
               /\ r.seconds = Since(i) - Since(first)
=============================================================================
