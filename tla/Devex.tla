-------------------------------- MODULE Devex --------------------------------
(***************************************************************************)
(* The developer-experience metrics: what table 4, notebook 06 and the     *)
(* radar chart make of the two values of every metric.  All three read the *)
(* latest devex-*.json if there is one, whatever its spelling: the keys    *)
(* that notebook and radar know, or the headings that table 4 knows.       *)
(* Without one each falls back on the same placeholder values in its own   *)
(* spelling.                                                               *)
(* A score is counted in halves: the values of two services, scaled to the *)
(* interval between them, are 0 and 1, or one half each.                   *)
(***************************************************************************)
EXTENDS Integers

DevexMetrics == {"loc_src", "build_time_s", "test_time_s", "image_size_mb", "test_count"}

\* The latest devex-*.json: none, or one in either spelling.
DevexFiles == {"none", "keys", "headings"}

\* The values each place has at hand, in tenths.
Placeholder == [ loc_src |-> [dotnet |-> 8000, go |-> 6000],
                 build_time_s |-> [dotnet |-> 80, go |-> 30],
                 test_time_s |-> [dotnet |-> 50, go |-> 20],
                 image_size_mb |-> [dotnet |-> 1200, go |-> 150],
                 test_count |-> [dotnet |-> 200, go |-> 100] ]

\* The heading of a metric in table 4.
Heading == [ loc_src |-> "LOC (src)", build_time_s |-> "Build Time (s)",
             test_time_s |-> "Test Time (s)", image_size_mb |-> "Docker Image (MB)",
             test_count |-> "Test Count" ]

\* How a place finds a metric spelled that would itself write it as own.
Spelled(file, metric, own) ==
  CASE file = "keys" -> metric
    [] file = "headings" -> Heading[metric]
    [] file = "none" -> own

\* Whoever is better, .NET on the left; neither when they are equal.
Better(lower, dotnet, go) ==
  IF dotnet = go THEN "TIE"
  ELSE IF lower = (dotnet < go) THEN ".NET" ELSE "Go"

-----------------------------------------------------------------------------
(* Table 4 decides by the heading, notebook 06 by the key.                 *)

TableLowerBetter == {"LOC (src)", "Build Time (s)", "Test Time (s)", "Docker Image (MB)"}
TableWinner(file, metric, v) ==
  Better(Spelled(file, metric, Heading[metric]) \in TableLowerBetter, v.dotnet, v.go)

NotebookLowerBetter == {"loc_src", "build_time_s", "test_time_s", "image_size_mb"}
NotebookWinner(file, metric, v) ==
  Better(Spelled(file, metric, metric) \in NotebookLowerBetter, v.dotnet, v.go)

-----------------------------------------------------------------------------
(* Scores: notebook 06 scales so that lower is better, the radar chart so  *)
(* that higher is better, although its title and the text of notebook 06   *)
(* say that lower is.  Both turn the number of tests round, which they     *)
(* know by its key.                                                        *)

Scaled(v, other) == IF v = other THEN 1 ELSE IF v < other THEN 0 ELSE 2

\* The number of tests scaled like the others.  DevexAgrees
NormaliseAlike(file, metric, v) ==
  [dotnet |-> Scaled(v.dotnet, v.go), go |-> Scaled(v.go, v.dotnet)]

Normalise(file, metric, v) ==
  LET d == Scaled(v.dotnet, v.go)
      g == Scaled(v.go, v.dotnet)
  IN  IF Spelled(file, metric, metric) = "test_count"
      THEN [dotnet |-> 2 - d, go |-> 2 - g] ELSE [dotnet |-> d, go |-> g]

RadarNormalise(file, metric, v) ==
  LET d == Scaled(v.dotnet, v.go)
      g == Scaled(v.go, v.dotnet)
  IN  IF Spelled(file, metric, metric) = "test_count"
      THEN [dotnet |-> d, go |-> g] ELSE [dotnet |-> 2 - d, go |-> 2 - g]

\* The weights, in hundredths.
Weights == [ loc_src |-> 30, build_time_s |-> 20, test_count |-> 10,
             test_time_s |-> 10, image_size_mb |-> 30 ]

\* normed is a function on DevexMetrics to scores; the weights are by key and
\* pass over a metric that is spelled otherwise.
Composite(file, normed, svc) ==
  IF file = "headings" THEN 0
  ELSE Weights.loc_src * normed["loc_src"][svc]
       + Weights.build_time_s * normed["build_time_s"][svc]
       + Weights.test_count * normed["test_count"][svc]
       + Weights.test_time_s * normed["test_time_s"][svc]
       + Weights.image_size_mb * normed["image_size_mb"][svc]

CompositeWinner(file, normed) ==
  IF Composite(file, normed, "dotnet") < Composite(file, normed, "go")
  THEN ".NET" ELSE "Go"
=============================================================================
