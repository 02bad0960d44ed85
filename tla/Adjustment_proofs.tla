-------------------------- MODULE Adjustment_proofs --------------------------
(***************************************************************************)
(* Facts about the arithmetic of Adjustment, for numbers of any size.      *)
(***************************************************************************)
EXTENDS Adjustment, TLAPS

\* Truncation returns a whole number.
LEMMA TruncateInt ==
  ASSUME NEW x \in Int
  PROVE  Truncate(x, 100) \in Int
BY DEF Truncate

\* So does the computation of a percentage.
LEMMA ScaleByPercentInt ==
  ASSUME NEW cur \in Int, NEW p \in Int
  PROVE  ScaleByPercent(cur, p) \subseteq Int
<1> DEFINE x == cur * (100 + p) + 50
<1>1. x \in Int
  OBVIOUS
<1> HIDE DEF x
<1>2. Truncate(x, 100) \in Int /\ Truncate(x - 1, 100) \in Int
      /\ Truncate(x + 1, 100) \in Int
  BY <1>1, TruncateInt
<1>3. ScaleByPercent(cur, p)
        = {Truncate(x, 100), Truncate(IF x > 0 THEN x - 1 ELSE x + 1, 100)}
  BY DEF ScaleByPercent, x
<1> QED
  BY <1>2, <1>3

\* Whatever the adjustment, ComputeNewInstances returns a number of instances
\* to limit.
LEMMA ComputeNewInstancesInt ==
  ASSUME NEW cur \in Int, NEW adj, adj.unit \in AdjustmentUnit, adj.value \in Int,
         NEW n \in ComputeNewInstances(cur, adj)
  PROVE  n \in Int
<1>1. CASE adj.unit = "step"
  BY <1>1 DEF ComputeNewInstances
<1>2. CASE adj.unit # "step"
  <2>1. PICK m \in ScaleByPercent(cur, adj.value) : n = AtLeastOne(cur, adj.value, m)
    BY <1>2 DEF ComputeNewInstances
  <2>2. m \in Int
    BY ScaleByPercentInt
  <2> QED
    BY <2>1, <2>2 DEF AtLeastOne
<1> QED
  BY <1>1, <1>2

\* A limited number is a natural number within the limits.
LEMMA LimitWithin ==
  ASSUME NEW n \in Int, NEW lo \in Nat, NEW hi \in Nat, lo <= hi
  PROVE  Limit(n, lo, hi) \in lo .. hi
BY DEF Limit

\* A percentage above 0 is never rounded below the number it starts from, one
\* below 0 never above.
LEMMA RoundingKeepsSide ==
  ASSUME NEW cur \in Nat, NEW p \in Int, NEW m \in ScaleByPercent(cur, p)
  PROVE  (p > 0 => m >= cur) /\ (p < 0 => m <= cur)
<1> DEFINE q == cur * p
           x == cur * (100 + p) + 50
<1>1. q \in Int /\ x = 100 * cur + q + 50 /\ x \in Int
  OBVIOUS
<1>2. (p > 0 => q >= 0) /\ (p < 0 => q <= 0)
  OBVIOUS
<1>3. m \in {Truncate(x, 100), Truncate(IF x > 0 THEN x - 1 ELSE x + 1, 100)}
  BY DEF ScaleByPercent
<1> HIDE DEF q, x
<1> QED
  BY <1>1, <1>2, <1>3 DEF Truncate

\* A request to scale out by any percentage asks for more instances, and a
\* request to scale in by any percentage for fewer, in spite of the rounding of
\* ComputeNewInstances: no rule of a policy is without effect because the app is
\* too small for it.
THEOREM PercentageMoves ==
  ASSUME NEW cur \in Nat, NEW p \in Int,
         NEW n \in ComputeNewInstances(cur, [unit |-> "percent", value |-> p])
  PROVE  (p > 0 => n > cur) /\ (p < 0 => n < cur)
<1>1. PICK m \in ScaleByPercent(cur, p) : n = AtLeastOne(cur, p, m)
  BY DEF ComputeNewInstances
<1>2. m \in Int /\ (p > 0 => m >= cur) /\ (p < 0 => m <= cur)
  BY ScaleByPercentInt, RoundingKeepsSide
<1> QED
  BY <1>1, <1>2 DEF AtLeastOne
=============================================================================
