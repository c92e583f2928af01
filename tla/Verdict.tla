------------------------------- MODULE Verdict -------------------------------
(***************************************************************************)
(* One comparison of the two services: what _compute_test_result makes of  *)
(* two samples, and what table 2 and the notebooks 02 to 04 print of it.   *)
(*                                                                         *)
(* A float is the set of its value, the empty set for NaN: a comparison    *)
(* asks for values on both sides, so one with NaN is false, as in Python.  *)
(* Probabilities and effect sizes are counted in units of 0.00001 and      *)
(* 0.001.  A mean is a pair <<sum, count>>, so that it is exact.           *)
(***************************************************************************)
EXTENDS Integers, Sequences

NaN == {}
Float(v) == {v}

Less(a, b) == \E x \in a, y \in b : x < y
AtMost(a, b) == \E x \in a, y \in b : x <= y
LessMean(a, b) == \E x \in a, y \in b : x[1] * y[2] < y[1] * x[2]

\* A sample is a sequence of floats.
DropNaN(sample) == LET here(x) == x # NaN IN SelectSeq(sample, here)

Value(x) == CHOOSE v \in x : TRUE

Total(sample) ==
  LET sum[n \in 0 .. Len(sample)] ==
        IF n = 0 THEN 0 ELSE sum[n - 1] + Value(sample[n])
  IN  sum[Len(sample)]

Mean(sample) == IF sample = <<>> THEN NaN ELSE Float(<<Total(sample), Len(sample)>>)

-----------------------------------------------------------------------------
EffectLabel(delta) ==
  CASE Less(delta, Float(147)) -> "negligible"
    [] ~Less(delta, Float(147)) /\ Less(delta, Float(330)) -> "small"
    [] ~Less(delta, Float(330)) /\ Less(delta, Float(474)) -> "medium"
    [] OTHER -> "large"

Winner(significant, dotnet, go, lowerIsBetter) ==
  IF ~significant THEN "tie"
  ELSE IF (lowerIsBetter /\ LessMean(go, dotnet)) \/ (~lowerIsBetter /\ LessMean(dotnet, go))
       THEN "go" ELSE "dotnet"

\* What scipy, numpy and pingouin return for two samples that are not empty
\* is the argument stats: a p-value, a confidence interval, an effect size.
ComputeTestResult(dotnet, go, stats, lowerIsBetter) ==
  LET d == DropNaN(dotnet)
      g == DropNaN(go)
  IN  IF d = <<>> \/ g = <<>>
      THEN [ dotnet_mean |-> NaN, go_mean |-> NaN, p_value |-> NaN,
             ci_low |-> NaN, ci_high |-> NaN, significant |-> FALSE,
             effect_label |-> "n/a", winner |-> "n/a" ]
      ELSE [ dotnet_mean |-> Mean(d), go_mean |-> Mean(g),
             p_value |-> Float(stats.p),
             ci_low |-> Float(stats.low), ci_high |-> Float(stats.high),
             significant |-> stats.p < 5000,
             effect_label |-> EffectLabel(Float(stats.delta)),
             winner |-> Winner(stats.p < 5000, Mean(d), Mean(g), lowerIsBetter) ]

-----------------------------------------------------------------------------
(* What is printed of a result.                                            *)

\* The p-value of a table row, with four decimals (in units of 0.0001, the
\* halfway cases rounded either way by the binary representation: up here).
PrintedP(r) ==
  IF AtMost(Float(10), r.p_value) THEN [below |-> FALSE, p |-> (Value(r.p_value) + 5) \div 10]
                                  ELSE [below |-> TRUE, p |-> 1]

\* "0.0500" and above are not significant, "<0.0001" is.
ReadsSignificant(printed) == printed.below \/ printed.p < 500

Row(r) == [ p |-> PrintedP(r), effect |-> r.effect_label, winner |-> r.winner ]

\* Notebook 03 asks whether the interval excludes zero.
CIExcludesZero(r) ==
  ~(AtMost(r.ci_low, Float(0)) /\ AtMost(Float(0), r.ci_high))

-----------------------------------------------------------------------------
(* The comparisons that are made, and whether the lower mean wins.         *)

TableTests == [ p95 |-> TRUE, p99 |-> TRUE, throughput |-> FALSE,
                cpu |-> TRUE, memory_heap |-> TRUE, error_rate |-> TRUE ]

Notebook02Tests == [ p95 |-> TRUE, p99 |-> TRUE ]
\* The default, lower is better, for a metric of which more is better.
\* VerdictSound
Notebook03TestsDefault == [ throughput |-> TRUE ]
Notebook03Tests == [ throughput |-> FALSE ]
Notebook04Tests == [ cpu |-> TRUE, memory_heap |-> TRUE ]
=============================================================================
