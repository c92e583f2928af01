---------------------------- MODULE AnalysisProofs ----------------------------
(***************************************************************************)
(* What is proved of the pure parts of the analysis, for series of every   *)
(* length, values of every size and every p-value; and from it of what the *)
(* places tell, for any data.  Totals and counts over a sample are left    *)
(* unexpanded: no proof depends on what they come to.                      *)
(***************************************************************************)
EXTENDS AnalysisResults, WellFoundedInduction, TLAPS

(* Windows.                                                                *)

\* The two windows of table 3 have samples and none in common.
THEOREM QuarterWindows ==
  ASSUME NEW n \in Nat, n >= 4
  PROVE  /\ QuarterBaseline(n) # {} /\ QuarterFault(n) # {}
         /\ QuarterBaseline(n) \cap QuarterFault(n) = {}
         /\ QuarterBaseline(n) \cup QuarterFault(n) \subseteq 1 .. n
  <1> DEFINE q == n \div 4
             h == (3 * n) \div 4
  <1>1. q \in Nat /\ h \in Nat /\ 1 <= q /\ q < h /\ h <= n
    OBVIOUS
  <1>2. QuarterBaseline(n) = 1 .. q /\ QuarterFault(n) = (q + 1) .. h
    BY DEF QuarterBaseline, QuarterFault, Slice
  <1> HIDE DEF q, h
  <1>3. 1 \in QuarterBaseline(n) /\ q + 1 \in QuarterFault(n)
    BY <1>1, <1>2
  <1>4. QuarterBaseline(n) \cap QuarterFault(n) = {}
    BY <1>1, <1>2
  <1>5. QuarterBaseline(n) \cup QuarterFault(n) \subseteq 1 .. n
    BY <1>1, <1>2
  <1> QED
    BY <1>3, <1>4, <1>5

\* The thirds of notebook 05 are a partition of the positions.
THEOREM ThirdsWindows ==
  ASSUME NEW n \in Nat
  PROVE  /\ ThirdsPre(n) \cup ThirdsDuring(n) \cup ThirdsPost(n) = 1 .. n
         /\ ThirdsPre(n) \cap ThirdsDuring(n) = {}
         /\ ThirdsPre(n) \cap ThirdsPost(n) = {}
         /\ ThirdsDuring(n) \cap ThirdsPost(n) = {}
  <1>1. /\ n \div 3 \in Nat /\ (2 * n) \div 3 \in Nat
        /\ n \div 3 <= (2 * n) \div 3 /\ (2 * n) \div 3 <= n
    OBVIOUS
  <1> QED
    BY <1>1 DEF ThirdsPre, ThirdsDuring, ThirdsPost, Slice

\* So are the windows that two timestamps cut, also when some repeat.
THEOREM TimestampWindows ==
  ASSUME NEW s, \A i \in DOMAIN s : s[i].t \in Int,
         NEW start \in Int, NEW end \in Int, start <= end
  PROVE  /\ Before(s, start) \cup Within(s, start, end) \cup After(s, end) = DOMAIN s
         /\ Before(s, start) \cap Within(s, start, end) = {}
         /\ Before(s, start) \cap After(s, end) = {}
         /\ Within(s, start, end) \cap After(s, end) = {}
  BY DEF Before, Within, After

-----------------------------------------------------------------------------
(* Developer experience.                                                   *)

LEMMA Headings ==
  /\ \A m \in DevexMetrics :
       /\ Heading[m] \in TableLowerBetter <=> m # "test_count"
       /\ m \in NotebookLowerBetter <=> m # "test_count"
       /\ m \notin TableLowerBetter
       /\ Heading[m] \notin NotebookLowerBetter /\ Heading[m] # "test_count"
  <1>1. /\ Heading["loc_src"] = "LOC (src)" /\ Heading["build_time_s"] = "Build Time (s)"
        /\ Heading["test_time_s"] = "Test Time (s)"
        /\ Heading["image_size_mb"] = "Docker Image (MB)" /\ Heading["test_count"] = "Test Count"
    BY DEF Heading
  <1>2. ASSUME NEW m \in DevexMetrics
        PROVE  \/ m = "loc_src" \/ m = "build_time_s" \/ m = "test_time_s"
               \/ m = "image_size_mb" \/ m = "test_count"
    BY DEF DevexMetrics
  <1> QED
    BY <1>1, <1>2 DEF TableLowerBetter, NotebookLowerBetter

\* A place that can read the spelling names the documented winner of a metric,
\* whatever its values; the scores of notebook 06 and of the radar chart order
\* the services likewise, the one from below, the other from above.
LEMMA DevexWinners ==
  ASSUME NEW file \in DevexFiles, NEW m \in DevexMetrics, NEW v \in [dotnet : Int, go : Int]
  PROVE  LET winner == Better(m # "test_count", v.dotnet, v.go)
             n == Normalise(file, m, v)
             radar == RadarNormalise(file, m, v)
         IN  /\ file # "keys" => TableWinner(file, m, v) = winner
             /\ file # "headings" =>
                  /\ NotebookWinner(file, m, v) = winner
                  /\ winner = ".NET" <=> n.dotnet < n.go
                  /\ winner = "Go" <=> n.go < n.dotnet
                  /\ winner = ".NET" <=> radar.dotnet > radar.go
                  /\ winner = "Go" <=> radar.go > radar.dotnet
  <1>1. v.dotnet \in Int /\ v.go \in Int
    OBVIOUS
  <1>2. file # "keys" =>
          TableWinner(file, m, v) = Better(m # "test_count", v.dotnet, v.go)
    BY Headings DEF TableWinner, Spelled, DevexFiles
  <1>3. ASSUME file # "headings"
        PROVE  /\ NotebookWinner(file, m, v) = Better(m # "test_count", v.dotnet, v.go)
               /\ Spelled(file, m, m) = m
    BY <1>3, Headings DEF NotebookWinner, Spelled, DevexFiles
  <1>4. CASE m = "test_count"
    BY <1>1, <1>2, <1>3, <1>4 DEF Better, Normalise, RadarNormalise, Scaled
  <1>5. CASE m # "test_count"
    BY <1>1, <1>2, <1>3, <1>5 DEF Better, Normalise, RadarNormalise, Scaled
  <1> QED
    BY <1>4, <1>5

\* There is no spelling of a shared devex-*.json that table 4 and notebook 06
\* both understand: on each of the four metrics that are better low they name
\* opposite winners, whenever its values differ.
THEOREM SharedFileDisagrees ==
  ASSUME NEW file \in DevexFiles \ {"none"}, NEW m \in DevexMetrics \ {"test_count"},
         NEW v \in [dotnet : Int, go : Int], v.dotnet # v.go
  PROVE  {TableWinner(file, m, v), NotebookWinner(file, m, v)} = {".NET", "Go"}
  <1>1. v.dotnet \in Int /\ v.go \in Int
    OBVIOUS
  <1>2. CASE file = "keys"
    <2>1. /\ TableWinner(file, m, v) = Better(m \in TableLowerBetter, v.dotnet, v.go)
          /\ NotebookWinner(file, m, v) = Better(m \in NotebookLowerBetter, v.dotnet, v.go)
      BY <1>2 DEF TableWinner, NotebookWinner, Spelled
    <2>2. m \notin TableLowerBetter /\ m \in NotebookLowerBetter
      BY Headings
    <2> QED
      BY <1>1, <2>1, <2>2 DEF Better
  <1>3. CASE file = "headings"
    <2>1. /\ TableWinner(file, m, v) =
               Better(Heading[m] \in TableLowerBetter, v.dotnet, v.go)
          /\ NotebookWinner(file, m, v) =
               Better(Heading[m] \in NotebookLowerBetter, v.dotnet, v.go)
      BY <1>3 DEF TableWinner, NotebookWinner, Spelled
    <2>2. Heading[m] \in TableLowerBetter /\ Heading[m] \notin NotebookLowerBetter
      BY Headings
    <2> QED
      BY <1>1, <2>1, <2>2 DEF Better
  <1> QED
    BY <1>2, <1>3 DEF DevexFiles

-----------------------------------------------------------------------------
(* The verdict of a comparison.                                            *)

LEMMA ValueOfFloat ==
  ASSUME NEW x
  PROVE  Value(Float(x)) = x
  BY DEF Value, Float

\* A printed p-value reads significant just when the row names a winner;
\* 0.0500 may be either.
THEOREM PrintedPMatchesWinner ==
  ASSUME NEW dotnet, NEW go, NEW stats, stats.p \in Nat, NEW lower \in BOOLEAN,
         DropNaN(dotnet) # <<>>, DropNaN(go) # <<>>
  PROVE  LET row == Row(ComputeTestResult(dotnet, go, stats, lower))
         IN  /\ row.winner = "tie" => ~row.p.below /\ row.p.p >= 500
             /\ row.winner # "tie" => row.p.below \/ row.p.p <= 500
  <1> DEFINE r == ComputeTestResult(dotnet, go, stats, lower)
  <1>1. /\ r.p_value = Float(stats.p)
        /\ r.winner = Winner(stats.p < 5000, Mean(DropNaN(dotnet)), Mean(DropNaN(go)), lower)
    BY DEF ComputeTestResult
  <1>2. r.winner = "tie" <=> stats.p >= 5000
    BY <1>1 DEF Winner
  <1>3. Row(r).winner = r.winner /\ Row(r).p = PrintedP(r)
    BY DEF Row
  <1> HIDE DEF r
  <1>4. AtMost(Float(10), r.p_value) <=> 10 <= stats.p
    BY <1>1 DEF AtMost, Float
  <1>5. CASE 10 <= stats.p
    <2> Value(r.p_value) = stats.p
      BY <1>1, ValueOfFloat
    <2>1. PrintedP(r) = [below |-> FALSE, p |-> (stats.p + 5) \div 10]
      BY <1>4, <1>5 DEF PrintedP
    <2>2. /\ stats.p >= 5000 => (stats.p + 5) \div 10 >= 500
          /\ stats.p < 5000 => (stats.p + 5) \div 10 <= 500
      OBVIOUS
    <2> QED
      BY <1>2, <1>3, <2>1, <2>2 DEF r
  <1>6. CASE ~(10 <= stats.p)
    <2>1. PrintedP(r).below
      BY <1>4, <1>6 DEF PrintedP
    <2> QED
      BY <1>2, <1>3, <1>6, <2>1 DEF r
  <1> QED
    BY <1>5, <1>6

-----------------------------------------------------------------------------
(* The places: what one has said is what its operators make of the data.   *)

Asked == asked \in Comparisons \cup DevexSheets \cup FaultSeries

ToldOfTest ==
  /\ "table02" \in DOMAIN told => told["table02"] = Row(Result(TableTests[asked.metric]))
  /\ "notebook" \in DOMAIN told => told["notebook"] = Result(TableTests[asked.metric])

ToldOfDevex ==
  /\ "table04" \in DOMAIN told =>
       told["table04"] = [ m \in DevexMetrics |-> TableWinner(asked.file, m, asked.values[m]) ]
  /\ "fig07" \in DOMAIN told =>
       told["fig07"] = [ m \in DevexMetrics |-> RadarNormalise(asked.file, m, asked.values[m]) ]
  /\ "notebook" \in DOMAIN told =>
       /\ told["notebook"].winners =
            [ m \in DevexMetrics |-> NotebookWinner(asked.file, m, asked.values[m]) ]
       /\ told["notebook"].normed =
            [ m \in DevexMetrics |-> Normalise(asked.file, m, asked.values[m]) ]
       /\ told["notebook"].composite = CompositeWinner(asked.file, told["notebook"].normed)

ToldOfFault ==
  /\ "table03" \in DOMAIN told =>
       LET n == Len(asked.series[1])
       IN  told["table03"] = IF n < 4 THEN << >> ELSE << QuarterBaseline(n), QuarterFault(n) >>
  /\ "notebook" \in DOMAIN told =>
       /\ told["notebook"].parts = Segment(asked.series[1], asked.series[2])
       /\ told["notebook"].recovery =
            Recovery(asked.series[1], told["notebook"].parts[1], told["notebook"].parts[3])

Told ==
  /\ Asked
  /\ asked.kind = "test" => ToldOfTest
  /\ asked.kind = "devex" => ToldOfDevex
  /\ asked.kind = "fault" => ToldOfFault

LEMMA TellSays ==
  ASSUME NEW place, NEW what, Tell(place, what)
  PROVE  /\ DOMAIN told' = DOMAIN told \cup {place} /\ told'[place] = what
         /\ \A q \in DOMAIN told : q # place /\ told'[q] = told[q]
         /\ asked' = asked
  BY DEF Tell

LEMMA SameDirections ==
  /\ \A m \in DOMAIN Notebook02Tests : m \in DOMAIN TableTests /\ Notebook02Tests[m] = TableTests[m]
  /\ \A m \in DOMAIN Notebook03Tests : m \in DOMAIN TableTests /\ Notebook03Tests[m] = TableTests[m]
  /\ \A m \in DOMAIN Notebook04Tests : m \in DOMAIN TableTests /\ Notebook04Tests[m] = TableTests[m]
  <1>1. /\ DOMAIN Notebook02Tests = {"p95", "p99"} /\ DOMAIN Notebook03Tests = {"throughput"}
        /\ DOMAIN Notebook04Tests = {"cpu", "memory_heap"}
    BY DEF Notebook02Tests, Notebook03Tests, Notebook04Tests
  <1>2. DOMAIN TableTests = {"p95", "p99", "throughput", "cpu", "memory_heap", "error_rate"}
    BY DEF TableTests
  <1>3. /\ TableTests["p95"] = TRUE /\ TableTests["p99"] = TRUE /\ TableTests["throughput"] = FALSE
        /\ TableTests["cpu"] = TRUE /\ TableTests["memory_heap"] = TRUE
    BY DEF TableTests
  <1>4. /\ Notebook02Tests["p95"] = TRUE /\ Notebook02Tests["p99"] = TRUE
        /\ Notebook03Tests["throughput"] = FALSE
        /\ Notebook04Tests["cpu"] = TRUE /\ Notebook04Tests["memory_heap"] = TRUE
    BY DEF Notebook02Tests, Notebook03Tests, Notebook04Tests
  <1> QED
    BY <1>1, <1>2, <1>3, <1>4

\* One place has said its share, and nobody else anything.
Adds(place) ==
  /\ asked' = asked /\ DOMAIN told' = DOMAIN told \cup {place}
  /\ \A q \in DOMAIN told : q # place /\ told'[q] = told[q]

LEMMA TestTold ==
  ASSUME Told, Table02 \/ Notebook02 \/ Notebook03 \/ Notebook04
  PROVE  Told'
  <1>1. asked.kind = "test" /\ asked' = asked
    BY DEF Table02, Notebook02, Notebook03, Notebook04, Tell
  <1>2. \A lower : Result(lower)' = Result(lower)
    BY <1>1 DEF Result
  <1>3. \/ /\ Adds("table02")
           /\ told'["table02"] = Row(Result(TableTests[asked.metric]))
        \/ /\ Adds("notebook")
           /\ told'["notebook"] = Result(TableTests[asked.metric])
    <2>1. CASE Table02
      <3>1. Tell("table02", Row(Result(TableTests[asked.metric])))
        BY <2>1 DEF Table02
      <3> QED
        BY <3>1, TellSays DEF Adds
    <2>2. CASE Notebook02 \/ Notebook03 \/ Notebook04
      <3>1. Tell("notebook", Result(TableTests[asked.metric]))
        BY <2>2, SameDirections DEF Notebook02, Notebook03, Notebook04
      <3> QED
        BY <3>1, TellSays DEF Adds
    <2> QED
      BY <2>1, <2>2
  <1>4. ToldOfTest'
    BY <1>1, <1>2, <1>3 DEF Told, ToldOfTest, Adds
  <1> QED
    BY <1>1, <1>4 DEF Told, Asked

LEMMA DevexTold ==
  ASSUME Told, Table04 \/ Notebook06 \/ Fig07
  PROVE  Told'
  <1>1. asked.kind = "devex" /\ asked' = asked
    BY DEF Table04, Notebook06, Fig07, Tell
  <1>2. \/ /\ Adds("table04")
           /\ told'["table04"] =
                [ m \in DevexMetrics |-> TableWinner(asked.file, m, asked.values[m]) ]
        \/ /\ Adds("fig07")
           /\ told'["fig07"] =
                [ m \in DevexMetrics |-> RadarNormalise(asked.file, m, asked.values[m]) ]
        \/ /\ Adds("notebook")
           /\ told'["notebook"].winners =
                [ m \in DevexMetrics |-> NotebookWinner(asked.file, m, asked.values[m]) ]
           /\ told'["notebook"].normed =
                [ m \in DevexMetrics |-> Normalise(asked.file, m, asked.values[m]) ]
           /\ told'["notebook"].composite = CompositeWinner(asked.file, told'["notebook"].normed)
    <2>1. CASE Table04
      BY <2>1 DEF Table04, Tell, Adds
    <2>2. CASE Notebook06
      BY <2>2 DEF Notebook06, Tell, Adds
    <2>3. CASE Fig07
      BY <2>3 DEF Fig07, Tell, Adds
    <2> QED
      BY <2>1, <2>2, <2>3
  <1>3. ToldOfDevex'
    BY <1>1, <1>2 DEF Told, ToldOfDevex, Adds
  <1> QED
    BY <1>1, <1>3 DEF Told, Asked

LEMMA FaultTold ==
  ASSUME Told, Table03 \/ Notebook05
  PROVE  Told'
  <1>1. asked.kind = "fault" /\ asked' = asked
    BY DEF Table03, Notebook05, Tell
  <1>2. \/ /\ Adds("table03")
           /\ LET n == Len(asked.series[1])
              IN  told'["table03"] = IF n < 4 THEN << >>
                                               ELSE << QuarterBaseline(n), QuarterFault(n) >>
        \/ /\ Adds("notebook")
           /\ told'["notebook"].parts = Segment(asked.series[1], asked.series[2])
           /\ told'["notebook"].recovery =
                Recovery(asked.series[1], told'["notebook"].parts[1], told'["notebook"].parts[3])
    <2>1. CASE Table03
      BY <2>1 DEF Table03, Tell, Adds
    <2>2. CASE Notebook05
      BY <2>2 DEF Notebook05, Tell, Adds
    <2> QED
      BY <2>1, <2>2
  <1>3. ToldOfFault'
    BY <1>1, <1>2 DEF Told, ToldOfFault, Adds
  <1> QED
    BY <1>1, <1>3 DEF Told, Asked

LEMMA StutterTold == Told /\ UNCHANGED vars => Told'
  BY DEF vars, Told, Asked, ToldOfTest, ToldOfDevex, ToldOfFault, Result

LEMMA AlwaysTold == Spec => []Told
  <1>1. Init => Told
    BY DEF Init, Told, Asked, ToldOfTest, ToldOfDevex, ToldOfFault
  <1>2. Told /\ [Next]_vars => Told'
    BY TestTold, DevexTold, FaultTold, StutterTold DEF Next
  <1> QED
    BY <1>1, <1>2, PTL DEF Spec

-----------------------------------------------------------------------------
(* Hence the properties of the runs, for any data.                         *)

LEMMA KindTells ==
  ASSUME Asked
  PROVE  /\ asked.kind = "test" => asked \in Comparisons
         /\ asked.kind = "devex" => asked \in DevexSheets
         /\ asked.kind = "fault" => asked \in FaultSeries
  BY DEF Asked, Comparisons, DevexSheets, FaultSeries

LEMMA TableDirections ==
  \A m \in DOMAIN TableTests :
    TableTests[m] \in BOOLEAN /\ (TableTests[m] <=> m # "throughput")
  <1>1. DOMAIN TableTests = {"p95", "p99", "throughput", "cpu", "memory_heap", "error_rate"}
    BY DEF TableTests
  <1>2. /\ TableTests["p95"] = TRUE /\ TableTests["p99"] = TRUE /\ TableTests["throughput"] = FALSE
        /\ TableTests["cpu"] = TRUE /\ TableTests["memory_heap"] = TRUE
        /\ TableTests["error_rate"] = TRUE
    BY DEF TableTests
  <1> QED
    BY <1>1, <1>2

\* Table 2 contradicts neither itself nor its data nor the notebooks.
THEOREM VerdictHolds == Spec => []VerdictSound
  <1>1. Told => VerdictSound
    <2> SUFFICES ASSUME Told, Says("test", "table02"), ~NoData PROVE VerdictSound
      BY DEF VerdictSound
    <2> DEFINE dotnet == asked.samples[1]
               go == asked.samples[2]
               lower == TableTests[asked.metric]
               r == Result(lower)
    <2>1. /\ asked.metric \in DOMAIN TableTests /\ asked.stats.p \in Nat
          /\ DropNaN(dotnet) # << >> /\ DropNaN(go) # << >>
      BY KindTells, StatsAssumption DEF Told, Says, Comparisons, NoData
    <2>2. lower \in BOOLEAN /\ (lower <=> LowerBetter)
      BY <2>1, TableDirections DEF LowerBetter
    <2>3. /\ told["table02"] = Row(r)
          /\ "notebook" \in DOMAIN told => told["notebook"] = r
      BY DEF Told, ToldOfTest, Says
    <2>4. r = ComputeTestResult(dotnet, go, asked.stats, lower)
      BY DEF Result
    <2>5. Row(r).winner = r.winner
      BY DEF Row
    <2>6. r.winner = Winner(asked.stats.p < 5000, Mean(DropNaN(dotnet)), Mean(DropNaN(go)), lower)
      BY <2>1, <2>4 DEF ComputeTestResult
    <2>7. /\ r.winner = "go" => BetterMean(go, dotnet)
          /\ r.winner = "dotnet" => ~BetterMean(go, dotnet)
      BY <2>2, <2>6 DEF Winner, BetterMean
    <2> HIDE DEF dotnet, go, lower, r
    <2>8. /\ Row(r).winner = "tie" => ~Row(r).p.below /\ Row(r).p.p >= 500
          /\ Row(r).winner # "tie" => Row(r).p.below \/ Row(r).p.p <= 500
      BY <2>1, <2>2, <2>4, PrintedPMatchesWinner
    <2> QED
      BY <2>3, <2>5, <2>7, <2>8 DEF VerdictSound, dotnet, go
  <1> QED
    BY AlwaysTold, <1>1, PTL

LEMMA Scores ==
  ASSUME NEW file, NEW m \in DevexMetrics, NEW v \in [dotnet : Int, go : Int]
  PROVE  /\ Normalise(file, m, v).dotnet \in Int /\ Normalise(file, m, v).go \in Int
         /\ Better(m # "test_count", v.dotnet, v.go) \in {".NET", "Go", "TIE"}
  BY DEF Normalise, Scaled, Better

LEMMA SheetFacts ==
  ASSUME Told, asked.kind = "devex"
  PROVE  /\ asked.file \in DevexFiles
         /\ \A m \in DevexMetrics : asked.values[m] \in [dotnet : Int, go : Int]
  <1>1. asked \in DevexSheets
    BY KindTells DEF Told
  <1>2. Placeholder \in [DevexMetrics -> [dotnet : Int, go : Int]]
    BY DEF Placeholder, DevexMetrics
  <1> QED
    BY <1>1, <1>2, DevexAssumption DEF DevexSheets, DevexFiles

\* Where they can read the spelling the three places name the documented
\* winner of every metric, and the score goes to a service that is nowhere
\* worse and somewhere better; a shared file sets table 4 and notebook 06
\* against each other.
THEOREM DevexHolds == Spec => []DevexAgrees
  <1>1. Told => DevexAgrees
    <2> SUFFICES ASSUME Told, asked.kind = "devex" PROVE DevexAgrees
      BY DEF DevexAgrees, Says
    <2> DEFINE file == asked.file
               v(m) == asked.values[m]
               book == told["notebook"]
               n(m) == book.normed[m]
    <2>1. file \in DevexFiles /\ \A m \in DevexMetrics : v(m) \in [dotnet : Int, go : Int]
      BY SheetFacts
    <2>2. ASSUME "table04" \in DOMAIN told, file # "keys", NEW m \in DevexMetrics
          PROVE  told["table04"][m] = DocumentedWinner(m)
      BY <2>1, <2>2, DevexWinners DEF Told, ToldOfDevex, DocumentedWinner
    <2>3. ASSUME "fig07" \in DOMAIN told, file # "headings", NEW m \in DevexMetrics
          PROVE  LET radar == told["fig07"][m]
                 IN  /\ DocumentedWinner(m) = ".NET" <=> radar.dotnet > radar.go
                     /\ DocumentedWinner(m) = "Go" <=> radar.go > radar.dotnet
      <3>1. told["fig07"][m] = RadarNormalise(file, m, v(m))
        BY <2>3 DEF Told, ToldOfDevex
      <3> HIDE DEF file, v
      <3> QED
        BY <2>1, <2>3, <3>1, DevexWinners DEF DocumentedWinner, v
    <2>4. ASSUME "notebook" \in DOMAIN told, file # "headings"
          PROVE  /\ \A m \in DevexMetrics :
                      /\ book.winners[m] = DocumentedWinner(m)
                      /\ book.winners[m] \in {".NET", "Go", "TIE"}
                      /\ n(m).dotnet \in Int /\ n(m).go \in Int
                      /\ book.winners[m] = ".NET" <=> n(m).dotnet < n(m).go
                      /\ book.winners[m] = "Go" <=> n(m).go < n(m).dotnet
                 /\ book.composite = CompositeWinner(file, book.normed)
      <3>1. /\ \A m \in DevexMetrics : /\ book.winners[m] = NotebookWinner(file, m, v(m))
                                       /\ n(m) = Normalise(file, m, v(m))
            /\ book.composite = CompositeWinner(file, book.normed)
        BY <2>4 DEF Told, ToldOfDevex
      <3>2. \A m \in DevexMetrics :
              DocumentedWinner(m) = Better(m # "test_count", v(m).dotnet, v(m).go)
        BY DEF DocumentedWinner
      <3> HIDE DEF file, v, book, n
      <3> QED
        BY <2>1, <2>4, <3>1, <3>2, Scores, DevexWinners
    <2>5. ASSUME file # "headings"
          PROVE  /\ \A svc : Composite(file, book.normed, svc) =
                      30 * n("loc_src")[svc] + 20 * n("build_time_s")[svc]
                      + 10 * n("test_count")[svc] + 10 * n("test_time_s")[svc]
                      + 30 * n("image_size_mb")[svc]
                 /\ DevexMetrics = { "loc_src", "build_time_s", "test_time_s",
                                     "image_size_mb", "test_count" }
      BY <2>5 DEF Composite, Weights, DevexMetrics
    <2> HIDE DEF file, v, book, n
    <2>6. ASSUME "notebook" \in DOMAIN told, file # "headings",
                 \A m \in DevexMetrics : n(m).dotnet <= n(m).go,
                 \E m \in DevexMetrics : n(m).dotnet < n(m).go
          PROVE  book.composite = ".NET"
      BY <2>4, <2>5, <2>6 DEF CompositeWinner
    <2>7. ASSUME "notebook" \in DOMAIN told, file # "headings",
                 \A m \in DevexMetrics : n(m).go <= n(m).dotnet
          PROVE  book.composite = "Go"
      BY <2>4, <2>5, <2>7 DEF CompositeWinner
    <2>8. ASSUME "notebook" \in DOMAIN told, file # "headings", NEW svc \in {".NET", "Go"},
                 \A m \in DevexMetrics : book.winners[m] = svc \/ book.winners[m] = "TIE",
                 \E m \in DevexMetrics : book.winners[m] = svc
          PROVE  book.composite = svc
      BY <2>4, <2>6, <2>7, <2>8
    <2>9. ASSUME "notebook" \in DOMAIN told, "table04" \in DOMAIN told, file # "none",
                 NEW m \in DevexMetrics \ {"test_count"}, v(m).dotnet # v(m).go
          PROVE  {told["table04"][m], book.winners[m]} = {".NET", "Go"}
      <3>1. /\ told["table04"][m] = TableWinner(file, m, v(m))
            /\ book.winners[m] = NotebookWinner(file, m, v(m))
        BY <2>9 DEF Told, ToldOfDevex, file, v, book
      <3> QED
        BY <2>1, <2>9, <3>1, SharedFileDisagrees
    <2> QED
      BY <2>2, <2>3, <2>4, <2>8, <2>9 DEF DevexAgrees, Says, file, v, book, n
  <1> QED
    BY AlwaysTold, <1>1, PTL

LEMMA SeriesFacts ==
  ASSUME Told, asked.kind = "fault", NEW s, s = asked.series[1], NEW w, w = asked.series[2]
  PROVE  /\ Len(s) \in Nat /\ DOMAIN s = 1 .. Len(s)
         /\ \A i \in DOMAIN s : s[i].t \in Int
         /\ \A i, j \in DOMAIN s : i <= j => s[i].t <= s[j].t
         /\ \/ /\ w = {}
               /\ Segment(s, w) = << ThirdsPre(Len(s)), ThirdsDuring(Len(s)), ThirdsPost(Len(s)) >>
            \/ \E start, end \in Int :
                 /\ start <= end /\ w = {<<start, end>>}
                 /\ Segment(s, w) = << Before(s, start), Within(s, start, end), After(s, end) >>
  <1>1. asked.series \in Series
    BY KindTells DEF Told, FaultSeries
  <1>2. /\ Len(s) \in Nat /\ DOMAIN s = 1 .. Len(s)
        /\ \A i \in DOMAIN s : s[i].t \in Int
        /\ \A i, j \in DOMAIN s : i <= j => s[i].t <= s[j].t
        /\ w = {} \/ \E start, end \in Int : w = {<<start, end>>} /\ start <= end
    <2>1. \A v \in w : v \in Int \X Int /\ v[1] <= v[2] /\ w = {v}
      BY <1>1, SeriesAssumption
    <2>2. \A v \in w : v[1] \in Int /\ v[2] \in Int /\ v[1] <= v[2] /\ w = {<<v[1], v[2]>>}
      BY <2>1
    <2> QED
      BY <1>1, <2>2, SeriesAssumption
  <1>3. CASE w = {}
    BY <1>2, <1>3 DEF Segment
  <1>4. ASSUME NEW start \in Int, NEW end \in Int, w = {<<start, end>>}, start <= end
        PROVE  Segment(s, w) = << Before(s, start), Within(s, start, end), After(s, end) >>
    <2> DEFINE p == CHOOSE x \in w : TRUE
    <2>1. w # {} /\ p = <<start, end>>
      BY <1>4
    <2>2. Segment(s, w) = << Before(s, p[1]), Within(s, p[1], p[2]), After(s, p[2]) >>
      BY <2>1 DEF Segment
    <2> HIDE DEF p
    <2>3. p[1] = start /\ p[2] = end
      BY <2>1
    <2> QED
      BY <2>2, <2>3
  <1> QED
    BY <1>2, <1>3, <1>4

LEMMA SegmentSplits ==
  ASSUME Told, asked.kind = "fault", NEW s, s = asked.series[1], NEW w, w = asked.series[2],
         NEW parts, parts = Segment(s, w)
  PROVE  /\ parts[1] \cup parts[2] \cup parts[3] = DOMAIN s
         /\ parts[1] \cap parts[2] = {} /\ parts[1] \cap parts[3] = {}
         /\ parts[2] \cap parts[3] = {}
  <1>1. CASE parts = << ThirdsPre(Len(s)), ThirdsDuring(Len(s)), ThirdsPost(Len(s)) >>
    BY <1>1, SeriesFacts, ThirdsWindows
  <1>2. ASSUME NEW start \in Int, NEW end \in Int, start <= end,
               parts = << Before(s, start), Within(s, start, end), After(s, end) >>
        PROVE  /\ parts[1] \cup parts[2] \cup parts[3] = DOMAIN s
               /\ parts[1] \cap parts[2] = {} /\ parts[1] \cap parts[3] = {}
               /\ parts[2] \cap parts[3] = {}
    <2>1. \A i \in DOMAIN s : s[i].t \in Int
      BY SeriesFacts
    <2>2. /\ Before(s, start) \cup Within(s, start, end) \cup After(s, end) = DOMAIN s
          /\ Before(s, start) \cap Within(s, start, end) = {}
          /\ Before(s, start) \cap After(s, end) = {}
          /\ Within(s, start, end) \cap After(s, end) = {}
      BY <1>2, <2>1, TimestampWindows
    <2> QED
      BY <1>2, <2>2
  <1> QED
    BY <1>1, <1>2, SeriesFacts

\* Every sample is in exactly one window.
THEOREM WindowsHold == Spec => []WindowsSplitSeries
  <1>1. Told => WindowsSplitSeries
    <2> SUFFICES ASSUME Told, asked.kind = "fault" PROVE WindowsSplitSeries
      BY DEF WindowsSplitSeries, Says
    <2> DEFINE s == asked.series[1]
               parts == told["notebook"].parts
    <2>1. ASSUME "notebook" \in DOMAIN told
          PROVE  /\ UNION { parts[i] : i \in 1 .. 3 } = DOMAIN s
                 /\ \A i, j \in 1 .. 3 : i # j => parts[i] \cap parts[j] = {}
      <3>1. parts = Segment(s, asked.series[2])
        BY <2>1 DEF Told, ToldOfFault
      <3> HIDE DEF parts
      <3>2. /\ parts[1] \cup parts[2] \cup parts[3] = DOMAIN s
            /\ parts[1] \cap parts[2] = {} /\ parts[1] \cap parts[3] = {}
            /\ parts[2] \cap parts[3] = {}
        BY <3>1, SegmentSplits
      <3>3. \A i \in 1 .. 3 : i = 1 \/ i = 2 \/ i = 3
        OBVIOUS
      <3>4. UNION { parts[i] : i \in 1 .. 3 } = parts[1] \cup parts[2] \cup parts[3]
        BY <3>3
      <3> QED
        BY <3>2, <3>3, <3>4
    <2>2. ASSUME "table03" \in DOMAIN told, told["table03"] # << >>
          PROVE  /\ told["table03"][1] # {} /\ told["table03"][2] # {}
                 /\ told["table03"][1] \cap told["table03"][2] = {}
                 /\ told["table03"][1] \cup told["table03"][2] \subseteq DOMAIN s
      <3>1. Len(s) \in Nat /\ DOMAIN s = 1 .. Len(s)
        BY SeriesFacts
      <3>2. Len(s) >= 4 /\ told["table03"] = << QuarterBaseline(Len(s)), QuarterFault(Len(s)) >>
        BY <2>2, <3>1 DEF Told, ToldOfFault
      <3> QED
        BY <3>1, <3>2, QuarterWindows
    <2> QED
      BY <2>1, <2>2 DEF WindowsSplitSeries, Says
  <1> QED
    BY AlwaysTold, <1>1, PTL

Below == { pair \in Nat \X Nat : pair[1] < pair[2] }

LEMMA FirstIsLeast ==
  ASSUME NEW window \in SUBSET Nat, window # {}
  PROVE  First(window) \in window /\ \A j \in window : First(window) <= j
  <1>1. IsWellFoundedOn(Below, Nat)
    BY NatLessThanWellFounded, Zenon DEF OpToRel, Below
  <1>2. PICK i \in window : \A j \in window : ~(<<j, i>> \in Below)
    BY <1>1, WFMin
  <1>3. ASSUME NEW j \in window PROVE i <= j
    <2>1. i \in Nat /\ j \in Nat /\ <<j, i>> \notin Below
      BY <1>2
    <2>2. j < i => <<j, i>> \in Below
      BY <2>1 DEF Below
    <2> QED
      BY <2>1, <2>2
  <1> QED
    BY <1>3 DEF First

\* The fault ends before every sample of the window after it.
LEMMA FaultEndFacts ==
  ASSUME Told, asked.kind = "fault", NEW s, s = asked.series[1], NEW w, w = asked.series[2],
         NEW parts, parts = Segment(s, w), parts[1] # {}
  PROVE  /\ FaultEnd(s, w, parts[2]) \in Int
         /\ \A i \in parts[3] : FaultEnd(s, w, parts[2]) <= s[i].t
  <1>1. /\ Len(s) \in Nat /\ DOMAIN s = 1 .. Len(s)
        /\ \A i \in DOMAIN s : s[i].t \in Int
        /\ \A i, j \in DOMAIN s : i <= j => s[i].t <= s[j].t
    BY SeriesFacts
  <1>2. CASE /\ w = {}
             /\ parts = << ThirdsPre(Len(s)), ThirdsDuring(Len(s)), ThirdsPost(Len(s)) >>
    <2> DEFINE n == Len(s)
               end == (2 * n) \div 3
    <2> n \in Nat
      BY <1>1
    <2> HIDE DEF n
    <2>0. /\ parts[1] = ThirdsPre(n) /\ parts[2] = ThirdsDuring(n) /\ parts[3] = ThirdsPost(n)
          /\ DOMAIN s = 1 .. n
      BY <1>1, <1>2 DEF n
    <2>1. n \div 3 >= 1
      <3>1. ThirdsPre(n) # {}
        BY <2>0
      <3> QED
        BY <3>1 DEF ThirdsPre, Slice
    <2>2. /\ parts[2] = (n \div 3) + 1 .. end /\ parts[3] = end + 1 .. n
          /\ n \div 3 \in Nat /\ end \in Nat /\ n \div 3 < end /\ end <= n
      BY <2>0, <2>1 DEF ThirdsDuring, ThirdsPost, Slice
    <2> HIDE DEF end
    <2>3. Last(parts[2]) = end
      <3>1. end \in parts[2] /\ (\A j \in parts[2] : j <= end)
        BY <2>2
      <3>2. Last(parts[2]) \in parts[2] /\ (\A j \in parts[2] : j <= Last(parts[2]))
        BY <3>1 DEF Last
      <3> QED
        BY <2>2, <3>1, <3>2
    <2>4. FaultEnd(s, w, parts[2]) = s[end].t
      BY <1>2, <2>3 DEF FaultEnd
    <2>5. end \in DOMAIN s /\ \A i \in parts[3] : i \in DOMAIN s /\ end <= i
      BY <2>0, <2>2
    <2> QED
      BY <1>1, <2>4, <2>5
  <1>3. ASSUME NEW start \in Int, NEW end \in Int, w = {<<start, end>>},
               parts = << Before(s, start), Within(s, start, end), After(s, end) >>
        PROVE  /\ FaultEnd(s, w, parts[2]) \in Int
               /\ \A i \in parts[3] : FaultEnd(s, w, parts[2]) <= s[i].t
    <2>1. FaultEnd(s, w, parts[2]) = end
      <3> DEFINE p == CHOOSE x \in w : TRUE
      <3>1. p = <<start, end>> /\ w # {}
        BY <1>3
      <3>2. FaultEnd(s, w, parts[2]) = p[2]
        BY <3>1 DEF FaultEnd
      <3> HIDE DEF p
      <3> QED
        BY <3>1, <3>2
    <2>2. \A i \in parts[3] : i \in DOMAIN s /\ end < s[i].t
      <3>1. parts[3] = After(s, end)
        BY <1>3
      <3> QED
        BY <3>1 DEF After
    <2> QED
      BY <1>1, <2>1, <2>2
  <1> QED
    BY <1>2, <1>3, SeriesFacts

\* The printed recovery time never exceeds the defined one, and is short of
\* it by the gap after the fault alone while no sample drops below the band,
\* for any ordered series and any window.
THEOREM RecoveryHolds == Spec => []RecoveryNotOverstated
  <1>1. Told => RecoveryNotOverstated
    <2> SUFFICES ASSUME Told, Says("fault", "notebook") PROVE RecoveryNotOverstated
      BY DEF RecoveryNotOverstated
    <2> DEFINE s == asked.series[1]
               w == asked.series[2]
               parts == told["notebook"].parts
               r == told["notebook"].recovery
               back == { i \in parts[3] : Recovered(s, parts[1], i) }
               returned == { i \in parts[3] : WithinTenPercent(s, parts[1], i) }
               end == FaultEnd(s, w, parts[2])
    <2>1. /\ parts = Segment(s, w) /\ asked.kind = "fault"
          /\ r = Recovery(s, parts[1], parts[3])
      BY DEF Told, ToldOfFault, Says
    <2>2. /\ Len(s) \in Nat /\ DOMAIN s = 1 .. Len(s)
          /\ \A i \in DOMAIN s : s[i].t \in Int
          /\ \A i, j \in DOMAIN s : i <= j => s[i].t <= s[j].t
      BY <2>1, SeriesFacts
    <2> HIDE DEF parts, r
    <2>3. parts[3] \subseteq DOMAIN s
      <3>1. parts = Segment(s, w) /\ asked.kind = "fault"
        BY <2>1
      <3>2. /\ parts[1] \cup parts[2] \cup parts[3] = DOMAIN s
            /\ parts[1] \cap parts[2] = {} /\ parts[1] \cap parts[3] = {}
            /\ parts[2] \cap parts[3] = {}
        BY <3>1, SegmentSplits
      <3> QED
        BY <3>2
    <2>4. ASSUME parts[1] # {}
          PROVE  end \in Int /\ \A i \in parts[3] : end <= s[i].t
      BY <2>1, <2>4, FaultEndFacts
    <2>5. /\ \A i \in parts[3] : Recovered(s, parts[1], i) <=>
                                 parts[1] # {} /\ NotAboveBand(s, parts[1], i)
          /\ returned \subseteq back
          /\ (\A i \in parts[3] : NotBelowBand(s, parts[1], i)) => back \subseteq returned
      BY DEF Recovered, NotAboveBand, WithinTenPercent
    <2>6. back # {} => parts[1] # {}
      BY <2>5
    <2> HIDE DEF s, w, end
    <2>7. /\ r.outcome = "recovered" =>
               back # {} /\ r.seconds = s[First(back)].t - s[First(parts[3])].t
          /\ r.outcome # "insufficient data" /\ back # {} => r.outcome = "recovered"
      BY <2>1 DEF Recovery
    <2> HIDE DEF returned
    <2>8. ASSUME back # {}
          PROVE  /\ First(back) \in back /\ \A j \in back : First(back) <= j
                 /\ First(parts[3]) \in parts[3] /\ \A j \in parts[3] : First(parts[3]) <= j
      <3>1. back \in SUBSET Nat /\ parts[3] \in SUBSET Nat /\ parts[3] # {}
        BY <2>2, <2>3, <2>8
      <3> QED
        BY <2>8, <3>1, FirstIsLeast
    <2>9. back \subseteq parts[3]
      OBVIOUS
    <2> HIDE DEF back
    <2>10. ASSUME r.outcome # "insufficient data", NEW i \in returned
           PROVE  r.outcome = "recovered" /\ r.seconds <= s[i].t - end
      <3>1. i \in back /\ back # {} /\ r.outcome = "recovered"
        BY <2>5, <2>7, <2>10
      <3>2. /\ end \in Int /\ end <= s[First(parts[3])].t
            /\ First(parts[3]) \in DOMAIN s /\ First(back) \in DOMAIN s /\ i \in DOMAIN s
            /\ First(back) <= i
        BY <2>3, <2>4, <2>6, <2>8, <2>9, <3>1
      <3>3. s[First(back)].t <= s[i].t
        BY <2>2, <3>2
      <3> QED
        BY <2>2, <2>7, <3>1, <3>2, <3>3
    <2>11. ASSUME r.outcome = "recovered", \A i \in parts[3] : NotBelowBand(s, parts[1], i)
           PROVE  \E i \in returned : \E first \in parts[3] :
                    /\ \A j \in parts[3] : first <= j
                    /\ r.seconds = (s[i].t - end) - (s[first].t - end)
      <3>1. First(back) \in returned /\ First(parts[3]) \in parts[3] /\ end \in Int
        BY <2>4, <2>5, <2>6, <2>7, <2>8, <2>11 DEF s
      <3>2. s[First(back)].t \in Int /\ s[First(parts[3])].t \in Int
        BY <2>2, <2>3, <2>7, <2>8, <2>9, <2>11
      <3>3. r.seconds = (s[First(back)].t - end) - (s[First(parts[3])].t - end)
        BY <2>7, <2>11, <3>1, <3>2
      <3> QED
        BY <2>7, <2>8, <2>11, <3>1, <3>3
    <2> QED
      BY <2>10, <2>11 DEF RecoveryNotOverstated, s, w, parts, r, returned, end
  <1> QED
    BY AlwaysTold, <1>1, PTL

=============================================================================
