----------------------------- MODULE Adjustment -----------------------------
(***************************************************************************)
(* The arithmetic of a scaling decision: how an adjustment of a scaling    *)
(* rule ("+2", "-50%") turns the current number of instances of an app     *)
(* into the requested one, and how a request is limited to the instance    *)
(* limits in force.                                                        *)
(***************************************************************************)
EXTENDS Integers

\* "invalid" is an adjustment that neither strconv.ParseFloat nor
\* strconv.ParseInt accepts.
AdjustmentUnit == {"step", "percent", "invalid"}

\* Go's conversion of the number x / d (d > 0) to int: towards zero.
Truncate(x, d) == IF x >= 0 THEN x \div d ELSE -((-x) \div d)

\* mutant: the conversion rounds down.
ScaleByPercent_NoHalf(cur, p) == {Truncate(cur * (100 + p), 100)}

\* cur * (1 + p/100) + 0.5 as an int, in hundredths.  The code computes it in
\* floating point: a value that should be a whole number may come out next to it,
\* on the side of zero (5 instances at -90% give 0, not 1).
ScaleByPercent(cur, p) ==
  LET x == cur * (100 + p) + 50
  IN  {Truncate(x, 100), Truncate(IF x > 0 THEN x - 1 ELSE x + 1, 100)}

\* mutant: a small percentage is not felt.
AtLeastOne_Never(cur, p, n) == n

\* A percentage too small to be felt still moves the app by one instance.
AtLeastOne(cur, p, n) ==
  IF n # cur     THEN n
  ELSE IF p > 0  THEN cur + 1
  ELSE IF p < 0  THEN cur - 1
  ELSE cur

\* The results the code may come to.
ComputeNewInstances(cur, adj) ==
  IF adj.unit = "step"
  THEN {cur + adj.value}
  ELSE {AtLeastOne(cur, adj.value, n) : n \in ScaleByPercent(cur, adj.value)}

\* The number of instances closest to n within the limits lo..hi.
Limit(n, lo, hi) == IF n < lo THEN lo ELSE IF n > hi THEN hi ELSE n
=============================================================================
