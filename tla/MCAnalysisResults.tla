-------------------------- MODULE MCAnalysisResults --------------------------
(* Instance of the analysis results for TLC: see the .cfg files.           *)
EXTENDS AnalysisResults

Sequences(S, n) == UNION { [1 .. k -> S] : k \in 0 .. n }

\* Up to two values per sample, one of them possibly missing.
MCSamples ==
  LET samples == Sequences({NaN, Float(0), Float(1), Float(3)}, 2)
  IN  samples \X samples

\* Around the level of significance and the last printed decimal; intervals
\* below, around and above zero; effects around the thresholds.
MCStats ==
  LET Stat(p, delta, low, high) == [p |-> p, delta |-> delta, low |-> low, high |-> high]
  IN  { Stat(0, 1000, 1, 2), Stat(9, 474, -2, -1), Stat(10, 473, 0, 1),
        Stat(4994, 330, -1, 0), Stat(4995, 329, 1, 1), Stat(4999, 147, -1, 1),
        Stat(5000, 146, 0, 0), Stat(100000, 0, -2, 2) }

\* Every combination of which service has the higher value of each metric.
MCDevexFigures ==
  [ DevexMetrics -> { [dotnet |-> d, go |-> g] :
                        d \in {5, 9}, g \in {5, 9} } \ {[dotnet |-> 9, go |-> 9]} ]

\* Series of up to four samples at the baseline, at its threshold, above it or
\* zero, at times that may repeat; and longer ones for the positions.
MCSeries ==
  LET Ordered(s) == \A i \in 2 .. Len(s) : s[i - 1].t <= s[i].t
      short == { s \in Sequences([t : 0 .. 2, v : {0, 10, 11, 12}], 4) : Ordered(s) }
      long == { [ i \in 1 .. n |-> [t |-> i, v |-> 10] ] : n \in 5 .. 12 }
      windows == { {} } \cup { {w} : w \in { <<a, b>> \in (0 .. 2) \X (0 .. 2) : a <= b } }
  IN  (short \cup long) \X windows
=============================================================================
