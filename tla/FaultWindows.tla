----------------------------- MODULE FaultWindows -----------------------------
(***************************************************************************)
(* The windows into which a series under a fault is cut: by quarters in    *)
(* table 3, by thirds or by two timestamps in notebook 05.  A series is    *)
(* the sequence of its samples [t |-> time, v |-> value] in the order of   *)
(* time; a timestamp may occur more than once, because the export merges   *)
(* all series that answer a query.  A window is a set of positions.        *)
(***************************************************************************)
EXTENDS Integers, Sequences

\* s.iloc[a : b] of a series of n samples, for 0 <= a <= b <= n.
Slice(a, b) == (a + 1) .. b

-----------------------------------------------------------------------------
(* Table 3, for four samples and more.                                     *)

QuarterBaseline(n) == Slice(0, n \div 4)
QuarterFault(n) == Slice(n \div 4, (3 * n) \div 4)

-----------------------------------------------------------------------------
(* _segment of notebook 05, without and with timestamps.                   *)

ThirdsPre(n) == Slice(0, n \div 3)
ThirdsDuring(n) == Slice(n \div 3, (2 * n) \div 3)
ThirdsPost(n) == Slice((2 * n) \div 3, n)

Before(s, start) == { i \in DOMAIN s : s[i].t < start }
Within(s, start, end) == { i \in DOMAIN s : start <= s[i].t /\ s[i].t <= end }
\* The last sample under the fault counted twice.  WindowsSplitSeries
AfterAndEnd(s, end) == { i \in DOMAIN s : end <= s[i].t }
After(s, end) == { i \in DOMAIN s : end < s[i].t }

\* The window is given by the environment, or it is not: {} or {<<start, end>>}.
Segment(s, window) ==
  IF window = {}
  THEN << ThirdsPre(Len(s)), ThirdsDuring(Len(s)), ThirdsPost(Len(s)) >>
  ELSE LET w == CHOOSE x \in window : TRUE
       IN  << Before(s, w[1]), Within(s, w[1], w[2]), After(s, w[2]) >>

-----------------------------------------------------------------------------
(* Time to recover: the first sample after the window that is at most 10 % *)
(* above the mean before it, counted from the first sample after it.       *)

SumOver(s, window) ==
  LET sum[n \in 0 .. Len(s)] ==
        IF n = 0 THEN 0 ELSE sum[n - 1] + (IF n \in window THEN s[n].v ELSE 0)
  IN  sum[Len(s)]

Size(s, window) ==
  LET count[n \in 0 .. Len(s)] ==
        IF n = 0 THEN 0 ELSE count[n - 1] + (IF n \in window THEN 1 ELSE 0)
  IN  count[Len(s)]

First(window) == CHOOSE i \in window : \A j \in window : i <= j
Last(window) == CHOOSE i \in window : \A j \in window : j <= i

\* post <= baseline * 1.10; false when there is no baseline (a mean of NaN).
Recovered(s, pre, i) ==
  /\ pre # {}
  /\ s[i].v * 10 * Size(s, pre) <= 11 * SumOver(s, pre)

\* The last sample at the baseline instead of the first.  RecoveryNotOverstated
RecoveryLast(s, pre, post) ==
  LET back == { i \in post : Recovered(s, pre, i) }
  IN  IF post = {} \/ (pre # {} /\ SumOver(s, pre) = 0)
        THEN [outcome |-> "insufficient data", seconds |-> 0]
      ELSE IF back = {}
        THEN [outcome |-> "did not recover", seconds |-> 0]
      ELSE [outcome |-> "recovered", seconds |-> s[Last(back)].t - s[First(post)].t]

Recovery(s, pre, post) ==
  LET back == { i \in post : Recovered(s, pre, i) }
  IN  IF post = {} \/ (pre # {} /\ SumOver(s, pre) = 0)
        THEN [outcome |-> "insufficient data", seconds |-> 0]
      ELSE IF back = {}
        THEN [outcome |-> "did not recover", seconds |-> 0]
      ELSE [outcome |-> "recovered", seconds |-> s[First(back)].t - s[First(post)].t]
=============================================================================
