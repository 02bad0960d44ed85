-------------------------- MODULE SmallParts_proofs --------------------------
(***************************************************************************)
(* Proofs about six of the small parts: ScalingRule, for rules, sizes and  *)
(* limits of any magnitude; Validation, for policies with any number of    *)
(* schedules; CFClient, for any number of callers and any times;           *)
(* Credentials, for any number of servers and requests; Programs, for any  *)
(* configuration files; and TSDCache, for any capacity and any data.       *)
(***************************************************************************)
EXTENDS ScalingRule, Validation, CFClient, Credentials, Programs, TSDCache,
        Adjustment_proofs, FiniteSetTheorems, WellFoundedInduction

\* Induction, for a set of numbers.
LEMMA AllNaturals ==
  ASSUME NEW S, 0 \in S, \A n \in Nat : n \in S => n + 1 \in S
  PROVE  Nat \subseteq S
<1> DEFINE Less == {nn \in Nat \X Nat : nn[1] < nn[2]}
           Others == Nat \ S
<1> SUFFICES ASSUME Others # {} PROVE FALSE
  OBVIOUS
<1>1. IsWellFoundedOn(Less, Nat)
  BY NatLessThanWellFounded DEF OpToRel
<1>2. PICK x \in Others : \A y \in Others : <<y, x>> \notin Less
  <2>1. Others \subseteq Nat
    OBVIOUS
  <2> HIDE DEF Less, Others
  <2> QED  BY <1>1, <2>1, WFMin
<1>3. x \in Nat /\ x # 0 /\ x \notin S
  BY <1>2
<1>4. x - 1 \in Nat /\ x - 1 < x /\ (x - 1) + 1 = x
  BY <1>3
<1>5. <<x - 1, x>> \in Less
  BY <1>3, <1>4
<1>6. x - 1 \in S
  BY <1>2, <1>4, <1>5
<1> QED
  BY <1>3, <1>4, <1>6

-----------------------------------------------------------------------------
(* The scaling rule. *)

TypeOK == size \in Nat /\ rule \in Adjustments

\* The number of instances stays a natural number and the rule the one it was.
LEMMA TypeCorrect == Spec => []TypeOK
<1>1. Init => TypeOK
  BY RuleAssumption DEF Init, TypeOK
<1>2. TypeOK /\ [Next]_vars => TypeOK'
  <2> SUFFICES ASSUME TypeOK, [Next]_vars PROVE TypeOK'
    OBVIOUS
  <2>1. ASSUME NEW n \in ComputeNewInstances(size, rule),
               size' = Limit(n, InstanceMin, InstanceMax), rule' = rule
        PROVE  TypeOK'
    <3>1. n \in Int
      BY RuleAssumption, ComputeNewInstancesInt DEF TypeOK, AdjustmentUnit
    <3>2. size' \in InstanceMin .. InstanceMax
      BY <2>1, <3>1, RuleAssumption, LimitWithin
    <3> QED
      BY <2>1, <3>2, RuleAssumption DEF TypeOK
  <2> QED
    BY <2>1 DEF Next, Fire, vars, TypeOK
<1> QED
  BY <1>1, <1>2, PTL DEF Spec

\* A firing rule never moves an app that is within its limits against the
\* direction of the rule, whatever the percentage and the size of the app.
THEOREM RuleMovesItsWay == Spec => MovesItsWay
<1>1. TypeOK /\ [Next]_vars =>
        (InstanceMin <= size /\ size <= InstanceMax
           => /\ rule.value >= 0 => size' >= size
              /\ rule.value <= 0 => size' <= size)
  <2> SUFFICES ASSUME TypeOK, NEW n \in ComputeNewInstances(size, rule),
                      size' = Limit(n, InstanceMin, InstanceMax),
                      InstanceMin <= size, size <= InstanceMax
               PROVE  /\ rule.value >= 0 => size' >= size
                      /\ rule.value <= 0 => size' <= size
    BY DEF Next, Fire, vars, TypeOK
  <2>1. /\ rule.unit \in {"step", "percent"} /\ rule.value \in Int
        /\ size \in Nat /\ InstanceMin \in Nat /\ InstanceMax \in Nat
    BY RuleAssumption DEF TypeOK
  <2>2. n \in Int
    BY <2>1, ComputeNewInstancesInt DEF AdjustmentUnit
  <2>3. (rule.value >= 0 => n >= size) /\ (rule.value <= 0 => n <= size)
    <3>1. CASE rule.unit = "step"
      BY <2>1, <3>1 DEF ComputeNewInstances
    <3>2. CASE rule.unit = "percent"
      <4>1. PICK m \in ScaleByPercent(size, rule.value) :
                   n = AtLeastOne(size, rule.value, m)
        BY <3>2 DEF ComputeNewInstances
      <4>2. m \in Int
        BY <2>1, ScaleByPercentInt
      <4>3. (rule.value > 0 => m >= size) /\ (rule.value < 0 => m <= size)
        BY <2>1, RoundingKeepsSide
      <4>4. rule.value = 0 => m = size
        BY <2>1 DEF ScaleByPercent, Truncate
      <4> QED
        BY <2>1, <4>1, <4>2, <4>3, <4>4 DEF AtLeastOne
    <3> QED
      BY <2>1, <3>1, <3>2
  <2> QED
    BY <2>1, <2>2, <2>3 DEF Limit
<1> QED
  BY <1>1, TypeCorrect, PTL DEF MovesItsWay, Spec

\* The computed number of instances is the one nearest to the exact percentage; only
\* where that is the size of the app it is one more or less, by the sign of the
\* percentage: for apps of any size and any percentage, however the floating-point
\* number falls on either side.
THEOREM RoundingIsNearest == Spec => []NearestToExact
<1>1. TypeOK => NearestToExact
  <2> DEFINE exact == size * (100 + rule.value)
             Nearest(m) == Abs(100 * m - exact) <= 50
             OneOn == IF rule.value > 0 THEN size + 1 ELSE size - 1
  <2> SUFFICES ASSUME TypeOK, rule.unit = "percent", rule.value >= -100,
                      NEW n \in ComputeNewInstances(size, rule)
               PROVE  /\ Nearest(n) \/ (Nearest(size) /\ n = OneOn)
                      /\ n = size <=> rule.value = 0
    BY DEF NearestToExact
  <2>1. rule.value \in Int /\ size \in Nat /\ exact \in Int /\ exact >= 0
    BY RuleAssumption DEF TypeOK
  <2>2. PICK m \in ScaleByPercent(size, rule.value) : n = AtLeastOne(size, rule.value, m)
    BY DEF ComputeNewInstances
  <2>3. m \in Int /\ 100 * m - exact \in -50 .. 50
    <3>1. exact + 50 > 0
            /\ m \in {Truncate(exact + 50, 100),
                      Truncate(IF exact + 50 > 0 THEN exact + 50 - 1 ELSE exact + 50 + 1, 100)}
      BY <2>1, <2>2 DEF ScaleByPercent
    <3> HIDE DEF exact
    <3> QED
      BY <2>1, <3>1 DEF Truncate
  <2>4. Nearest(m)
    <3> HIDE DEF exact
    <3> QED
      BY <2>1, <2>3 DEF Abs
  <2> HIDE DEF Nearest
  <2>5. CASE m # size
    <3>1. n = m
      BY <2>2, <2>5 DEF AtLeastOne
    <3>2. rule.value # 0
      BY <2>1, <2>2, <2>5 DEF ScaleByPercent, Truncate
    <3> QED
      BY <2>4, <2>5, <3>1, <3>2
  <2>6. CASE m = size /\ rule.value # 0
    <3>1. n = OneOn
      BY <2>1, <2>2, <2>6 DEF AtLeastOne
    <3> QED
      BY <2>1, <2>4, <2>6, <3>1
  <2>7. CASE m = size /\ rule.value = 0
    BY <2>2, <2>4, <2>7 DEF AtLeastOne
  <2> QED
    BY <2>5, <2>6, <2>7
<1> QED
  BY <1>1, TypeCorrect, PTL
-----------------------------------------------------------------------------
(* The validation of schedules *)

\* A date that may be left out.
OpenDate == Int \cup {None}

\* The dates of a schedule, open on either side, and in order.
Period(r) ==
  /\ r.startDate \in OpenDate /\ r.endDate \in OpenDate
  /\ Given(r.startDate) /\ Given(r.endDate) => r.startDate <= r.endDate

Within(r, d) ==
  /\ Given(r.startDate) => r.startDate <= d
  /\ Given(r.endDate) => d <= r.endDate

\* Two schedules whose dates do not overlap have no day in common: the cases of
\* isOverlapping leave none out, whichever of the dates are missing.
THEOREM DatesApart ==
  ASSUME NEW r, NEW s, Period(r), Period(s), ~DatesOverlap(r, s), NEW d \in Int
  PROVE  ~(Within(r, d) /\ Within(s, d))
BY NoneAssumption
   DEF DatesOverlap, DatesOverlapOneWay, Given, Period, OpenDate, Within

\* Two schedules whose dates overlap have a day in common: it refuses no others.
THEOREM DatesMeet ==
  ASSUME NEW r, NEW s, Period(r), Period(s), DatesOverlap(r, s)
  PROVE  \E d \in Int : Within(r, d) /\ Within(s, d)
<1> SUFFICES ASSUME \A d \in Int : ~(Within(r, d) /\ Within(s, d))
             PROVE  FALSE
  OBVIOUS
<1>1. \A d \in {0, r.startDate, s.startDate, r.endDate, s.endDate} \cap Int :
        ~(Within(r, d) /\ Within(s, d))
  OBVIOUS
<1> QED
  BY <1>1, NoneAssumption
     DEF DatesOverlap, DatesOverlapOneWay, Given, Period, OpenDate, Within

-----------------------------------------------------------------------------

\* A schedule as RecurringTimeValid accepts it.
Recurs(r) ==
  /\ Period(r)
  /\ r.startTime \in Int /\ r.endTime \in Int
  /\ (r.week = {}) # (r.month = {})

\* Of two schedules of a kind, for days of the week or for days of the month, that the
\* scheduler finds not to overlap, the one that starts earlier in the day first, no day
\* and time belongs to both.
THEOREM SchedulesApart ==
  ASSUME NEW r, NEW s, Recurs(r), Recurs(s), SameKind(r, s), r.startTime <= s.startTime,
         ~(DatesOverlap(r, s) /\ (\/ TimesOverlap(r, s, r.week, s.week)
                                 \/ TimesOverlap(r, s, r.month, s.month))),
         NEW d \in Int, NEW t \in Int
  PROVE  ~(Apply(r, d, t) /\ Apply(s, d, t))
<1> SUFFICES ASSUME Apply(r, d, t), Apply(s, d, t)
             PROVE  FALSE
  OBVIOUS
<1>1. DatesOverlap(r, s)
  BY DatesApart DEF Recurs, Apply, AppliesOn, Within
<1>2. r.endTime >= s.startTime
  BY DEF Recurs, Apply
<1>3. HasSameElement(r.week, s.week) \/ HasSameElement(r.month, s.month)
  BY DEF Recurs, SameKind, Apply, AppliesOn, HasSameElement
<1> QED
  BY <1>1, <1>2, <1>3 DEF TimesOverlap

-----------------------------------------------------------------------------

\* The dates that can be written are between those that the API takes for the first and
\* for the last day of all.
Written(r) ==
  /\ Given(r.startDate) => 0 < r.startDate /\ r.startDate < LastDay
  /\ Given(r.endDate) => 0 < r.endDate /\ r.endDate < LastDay

LEMMA LastDayIsDate == LastDay \in Int /\ LastDay > 0
BY SMT DEF LastDay

\* The API and the scheduler agree on which dates overlap, with algorithms of their own.
THEOREM DatesAgree ==
  ASSUME NEW r, NEW s, Period(r), Period(s), Written(r), Written(s)
  PROVE  DatesOverlap(r, s) <=>
           /\ NormalizeStartDate(s) <= NormalizeEndDate(r)
           /\ NormalizeEndDate(s) >= NormalizeStartDate(r)
BY NoneAssumption, LastDayIsDate, SMT
   DEF DatesOverlap, DatesOverlapOneWay, Given, Period, OpenDate, Written,
       NormalizeStartDate, NormalizeEndDate
-----------------------------------------------------------------------------
(* The sort. *)

\* p is an order in which the starts of n schedules are sorted.
IsOrder(p, n, starts) == p \in [1 .. n -> 1 .. n] /\ Sorts(p, starts)

\* Of n keys, one is the largest.
LEMMA LargestKey ==
  ASSUME NEW n \in Nat, NEW key \in [1 .. n + 1 -> Int]
  PROVE  \E m \in 1 .. n + 1 : \A i \in 1 .. n + 1 : key[i] <= key[m]
<1> DEFINE IsLargest(k) == \E m \in 1 .. k + 1 : \A i \in 1 .. k + 1 : key[i] <= key[m]
           Largest == {k \in Nat : k <= n => IsLargest(k)}
<1>1. 0 \in Largest
  <2>1. IsLargest(0)
    BY 1 \in 1 .. 0 + 1, \A i \in 1 .. 0 + 1 : i = 1
  <2> QED  BY <2>1
<1>2. ASSUME NEW k \in Nat, k \in Largest
      PROVE  k + 1 \in Largest
  <2> SUFFICES ASSUME k + 1 <= n
               PROVE  IsLargest(k + 1)
    OBVIOUS
  <2>1. PICK m \in 1 .. k + 1 : \A i \in 1 .. k + 1 : key[i] <= key[m]
    BY <1>2
  <2>2. /\ m \in 1 .. (k + 1) + 1 /\ (k + 1) + 1 \in 1 .. (k + 1) + 1
        /\ 1 .. (k + 1) + 1 \subseteq 1 .. n + 1
    OBVIOUS
  <2>3. key[m] \in Int /\ key[(k + 1) + 1] \in Int /\ \A i \in 1 .. k + 1 : key[i] \in Int
    BY <2>2
  <2>4. \A i \in 1 .. (k + 1) + 1 : i \in 1 .. k + 1 \/ i = (k + 1) + 1
    OBVIOUS
  <2>5. CASE key[(k + 1) + 1] <= key[m]
    BY <2>1, <2>2, <2>4, <2>5
  <2>6. CASE key[m] <= key[(k + 1) + 1]
    <3>1. \A i \in 1 .. k + 1 : key[i] <= key[(k + 1) + 1]
      BY <2>1, <2>3, <2>6
    <3>2. key[(k + 1) + 1] <= key[(k + 1) + 1]
      BY <2>3
    <3> QED  BY <3>1, <3>2, <2>2, <2>4
  <2> QED
    BY <2>3, <2>5, <2>6
<1>3. Nat \subseteq Largest
  <2> HIDE DEF Largest
  <2> QED  BY <1>1, <1>2, AllNaturals
<1>4. n \in Largest
  BY <1>3
<1> QED
  BY <1>4

\* Any keys can be sorted.
LEMMA SortExists ==
  ASSUME NEW n \in Nat, NEW key \in [1 .. n -> Int]
  PROVE  \E p : IsOrder(p, n, key)
<1> DEFINE Sortable == {k \in Nat : \A f \in [1 .. k -> Int] : \E p : IsOrder(p, k, f)}
<1>1. 0 \in Sortable
  <2> SUFFICES ASSUME NEW f \in [1 .. 0 -> Int]
               PROVE  \E p : IsOrder(p, 0, f)
    OBVIOUS
  <2>1. 1 .. 0 = {}
    OBVIOUS
  <2> DEFINE p == [i \in 1 .. 0 |-> i]
  <2>2. IsOrder(p, 0, f)
    BY <2>1 DEF IsOrder, Sorts
  <2> QED  BY <2>2
<1>2. ASSUME NEW k \in Nat, k \in Sortable
      PROVE  k + 1 \in Sortable
  <2> SUFFICES ASSUME NEW f \in [1 .. k + 1 -> Int]
               PROVE  \E p : IsOrder(p, k + 1, f)
    OBVIOUS
  <2>1. PICK m \in 1 .. k + 1 : \A i \in 1 .. k + 1 : f[i] <= f[m]
    BY LargestKey
  <2> DEFINE Place(i) == IF i = m THEN k + 1 ELSE i
             g == [i \in 1 .. k |-> f[Place(i)]]
  <2>2. \A i \in 1 .. k : Place(i) \in 1 .. k + 1 /\ Place(i) # m
    BY <2>1
  <2>3. g \in [1 .. k -> Int]
    BY <2>2
  <2>4. PICK p : IsOrder(p, k, g)
    BY <1>2, <2>3
  <2> DEFINE q == [i \in 1 .. k + 1 |-> IF i = k + 1 THEN m ELSE Place(p[i])]
  <2>5. \A i \in 1 .. k : p[i] \in 1 .. k /\ q[i] = Place(p[i]) /\ q[i] \in 1 .. k + 1
    <3> SUFFICES ASSUME NEW i \in 1 .. k
                 PROVE  p[i] \in 1 .. k /\ q[i] = Place(p[i]) /\ q[i] \in 1 .. k + 1
      OBVIOUS
    <3>1. p[i] \in 1 .. k
      BY <2>4 DEF IsOrder, Sorts
    <3>2. i \in 1 .. k + 1 /\ i # k + 1
      OBVIOUS
    <3>3. q[i] = Place(p[i])
      BY <3>2
    <3> QED  BY <2>2, <3>1, <3>3
  <2>6. q[k + 1] = m /\ \A i \in 1 .. k + 1 : i \in 1 .. k \/ i = k + 1
    OBVIOUS
  <2>7. q \in [1 .. k + 1 -> 1 .. k + 1]
    BY <2>1, <2>5, <2>6
  <2>8. ASSUME NEW w \in 1 .. k + 1
        PROVE  \E v \in 1 .. k + 1 : q[v] = w
    <3>1. CASE w = m
      BY <2>6, <3>1, k + 1 \in 1 .. k + 1
    <3>2. CASE w # m
      <4>1. PICK u \in 1 .. k : Place(u) = w
        <5>1. CASE w = k + 1
          BY <5>1, <3>2, <2>1, m \in 1 .. k
        <5>2. CASE w # k + 1
          BY <5>2, <3>2, w \in 1 .. k
        <5> QED  BY <5>1, <5>2
      <4>2. PICK v \in 1 .. k : p[v] = u
        BY <2>4 DEF IsOrder, Sorts
      <4>3. v \in 1 .. k + 1 /\ q[v] = w
        BY <4>1, <4>2, <2>5
      <4> QED  BY <4>3
    <3> QED  BY <3>1, <3>2
  <2>9. ASSUME NEW i \in 1 .. k + 1, NEW j \in 1 .. k + 1, i < j
        PROVE  f[q[i]] <= f[q[j]]
    <3>1. i \in 1 .. k
      BY <2>9
    <3>2. CASE j = k + 1
      BY <3>1, <3>2, <2>1, <2>5, <2>6
    <3>3. CASE j # k + 1
      <4>1. j \in 1 .. k
        BY <3>3
      <4>2. g[p[i]] <= g[p[j]]
        BY <3>1, <4>1, <2>4, <2>9 DEF IsOrder, Sorts
      <4>3. g[p[i]] = f[q[i]] /\ g[p[j]] = f[q[j]]
        BY <3>1, <4>1, <2>5
      <4> QED  BY <4>2, <4>3
    <3> QED  BY <3>2, <3>3
  <2> HIDE DEF q
  <2>10. IsOrder(q, k + 1, f)
    BY <2>7, <2>8, <2>9 DEF IsOrder, Sorts
  <2> QED  BY <2>10
<1>3. Nat \subseteq Sortable
  <2> HIDE DEF Sortable
  <2> QED  BY <1>1, <1>2, AllNaturals
<1>4. n \in Sortable
  BY <1>3
<1> QED
  BY <1>4


\* What Sorted returns: all the schedules, each once, by when they start.
LEMMA SortedIsInOrder ==
  ASSUME NEW ss, Len(ss) \in Nat, NEW starts \in [1 .. Len(ss) -> Int]
  PROVE  \E p \in [1 .. Len(ss) -> 1 .. Len(ss)] :
           /\ \A w \in 1 .. Len(ss) : \E v \in 1 .. Len(ss) : p[v] = w
           /\ \A i, j \in 1 .. Len(ss) : i < j => starts[p[i]] <= starts[p[j]]
           /\ \A i, j \in 1 .. Len(ss) : i # j => p[i] # p[j]
           /\ \A i \in 1 .. Len(ss) : Sorted(ss, starts)[i] = ss[p[i]]
<1> DEFINE n == Len(ss)
           order == CHOOSE p \in [DOMAIN starts -> DOMAIN starts] : Sorts(p, starts)
<1>1. DOMAIN starts = 1 .. n
  OBVIOUS
<1>2. \E p \in [DOMAIN starts -> DOMAIN starts] : Sorts(p, starts)
  BY SortExists, <1>1 DEF IsOrder
<1>3. order \in [1 .. n -> 1 .. n] /\ Sorts(order, starts)
  BY <1>1, <1>2
<1> HIDE DEF order
<1>4. order \in Injection(1 .. n, 1 .. n)
  <2>1. order \in Surjection(1 .. n, 1 .. n)
    BY <1>1, <1>3 DEF Sorts, Surjection
  <2>2. IsFiniteSet(1 .. n)
    BY FS_Interval
  <2> QED  BY <2>1, <2>2, FS_SurjSameCardinalityImpliesInj
<1>5. \A i, j \in 1 .. n : i # j => order[i] # order[j]
  BY <1>4 DEF Injection, IsInjective
<1>6. \A i \in 1 .. n : Sorted(ss, starts)[i] = ss[order[i]]
  BY DEF Sorted, order
<1>7. /\ \A w \in 1 .. n : \E v \in 1 .. n : order[v] = w
      /\ \A i, j \in 1 .. n : i < j => starts[order[i]] <= starts[order[j]]
  BY <1>1, <1>3 DEF Sorts
<1> QED
  BY <1>3, <1>5, <1>6, <1>7

\* The times of schedules that are valid.
Timed(ss) == \A i \in 1 .. Len(ss) : /\ ss[i].start \in Int /\ ss[i].end \in Int
                                     /\ ss[i].start < ss[i].end

Apart(s, t) == s.end < t.start \/ t.end < s.start

\* It is enough to compare each schedule with the next one.
LEMMA SpecificApart ==
  ASSUME NEW ss, Len(ss) \in Nat, Timed(ss)
  PROVE  ~SpecificOverlap(ss) <=> \A i, j \in 1 .. Len(ss) : i # j => Apart(ss[i], ss[j])
<1> DEFINE n == Len(ss)
           starts == [i \in 1 .. n |-> ss[i].start]
<1>1. starts \in [1 .. n -> Int]
  BY DEF Timed
<1>2. PICK p \in [1 .. n -> 1 .. n] :
         /\ \A w \in 1 .. n : \E v \in 1 .. n : p[v] = w
         /\ \A i, j \in 1 .. n : i < j => starts[p[i]] <= starts[p[j]]
         /\ \A i, j \in 1 .. n : i # j => p[i] # p[j]
         /\ \A i \in 1 .. n : Sorted(ss, starts)[i] = ss[p[i]]
  BY <1>1, SortedIsInOrder
<1>p. /\ \A i \in 1 .. n : p[i] \in 1 .. n
      /\ \A i, j \in 1 .. n : i # j => p[i] # p[j]
  <2> HIDE DEF starts
  <2> QED  BY <1>2
<1> DEFINE at(i) == ss[p[i]]
<1>3. \A i \in 1 .. n : /\ at(i).start \in Int /\ at(i).end \in Int
                        /\ at(i).start < at(i).end
  BY DEF Timed
<1>4. \A i, j \in 1 .. n : i < j => at(i).start <= at(j).start
  BY <1>2
<1>5. SpecificOverlap(ss) <=>
        \E i \in 1 .. n - 1 : at(i).start = at(i + 1).start \/ at(i).end >= at(i + 1).start
  <2>1. \A i \in 1 .. n - 1 : i \in 1 .. n /\ i + 1 \in 1 .. n
    OBVIOUS
  <2> HIDE DEF starts
  <2>2. SpecificOverlap(ss) <=>
          \E i \in 1 .. n - 1 :
            \/ Sorted(ss, starts)[i].start = Sorted(ss, starts)[i + 1].start
            \/ Sorted(ss, starts)[i].end >= Sorted(ss, starts)[i + 1].start
    BY DEF SpecificOverlap, starts
  <2>3. \A i \in 1 .. n : Sorted(ss, starts)[i] = at(i)
    BY <1>2
  <2> HIDE DEF at
  <2> QED  BY <2>1, <2>2, <2>3
<1>6. ASSUME ~SpecificOverlap(ss), NEW i \in 1 .. n, NEW j \in 1 .. n, i # j
      PROVE  Apart(ss[i], ss[j])
  <2>1. ASSUME NEW a \in 1 .. n, NEW b \in 1 .. n, a < b
        PROVE  at(a).end < at(b).start
    <3>1. a \in 1 .. n - 1 /\ a + 1 \in 1 .. n /\ (a + 1 = b \/ a + 1 < b)
      BY <2>1
    <3>2. at(a).end < at(a + 1).start
      BY <1>3, <1>5, <1>6, <3>1
    <3> HIDE DEF at
    <3>3. at(a + 1).start <= at(b).start
      BY <1>3, <1>4, <3>1
    <3> QED  BY <1>3, <3>1, <3>2, <3>3
  <2>2. PICK a \in 1 .. n : p[a] = i
    BY <1>2
  <2>3. PICK b \in 1 .. n : p[b] = j
    BY <1>2
  <2>4. a < b \/ b < a
    BY <1>6, <2>2, <2>3
  <2> QED  BY <2>1, <2>2, <2>3, <2>4 DEF Apart
<1>7. ASSUME \A i, j \in 1 .. n : i # j => Apart(ss[i], ss[j]),
             NEW a \in 1 .. n - 1
      PROVE  ~(at(a).start = at(a + 1).start \/ at(a).end >= at(a + 1).start)
  <2>1. a \in 1 .. n /\ a + 1 \in 1 .. n /\ a < a + 1
    OBVIOUS
  <2>2. Apart(at(a), at(a + 1))
    BY <1>p, <1>7, <2>1
  <2>3. at(a).start <= at(a + 1).start
    BY <1>4, <2>1
  <2> HIDE DEF at
  <2> QED  BY <1>3, <2>1, <2>2, <2>3 DEF Apart
<1> HIDE DEF at
<1> QED
  BY <1>5, <1>6, <1>7

-----------------------------------------------------------------------------

\* Two recurring schedules meet, whichever starts first.
Meet(r, s) ==
  /\ DatesOverlap(r, s)
  /\ r.startTime <= s.endTime /\ s.startTime <= r.endTime
  /\ HasSameElement(r.week, s.week) \/ HasSameElement(r.month, s.month)

LEMMA MeetIsSymmetric ==
  ASSUME NEW r, NEW s
  PROVE  Meet(r, s) <=> Meet(s, r)
<1>1. DatesOverlap(r, s) <=> DatesOverlap(s, r)
  BY DEF DatesOverlap
<1>2. /\ r.week \cap s.week = s.week \cap r.week
      /\ r.month \cap s.month = s.month \cap r.month
  OBVIOUS
<1> QED
  BY <1>1, <1>2, Zenon DEF Meet, HasSameElement

TimedDaily(rs) ==
  \A i \in 1 .. Len(rs) : /\ rs[i].startTime \in Int /\ rs[i].endTime \in Int
                          /\ rs[i].startTime < rs[i].endTime

\* Of all pairs the one that starts earlier may be taken first.
LEMMA RecurringApart ==
  ASSUME NEW rs, Len(rs) \in Nat, TimedDaily(rs)
  PROVE  ~RecurringOverlap(rs) <=>
           \A i, j \in 1 .. Len(rs) : i # j => ~Meet(rs[i], rs[j])
<1> DEFINE n == Len(rs)
           starts == [i \in 1 .. n |-> rs[i].startTime]
<1>1. starts \in [1 .. n -> Int]
  BY DEF TimedDaily
<1>2. PICK p \in [1 .. n -> 1 .. n] :
         /\ \A w \in 1 .. n : \E v \in 1 .. n : p[v] = w
         /\ \A i, j \in 1 .. n : i < j => starts[p[i]] <= starts[p[j]]
         /\ \A i, j \in 1 .. n : i # j => p[i] # p[j]
         /\ \A i \in 1 .. n : Sorted(rs, starts)[i] = rs[p[i]]
  BY <1>1, SortedIsInOrder
<1>p. /\ \A i \in 1 .. n : p[i] \in 1 .. n
      /\ \A i, j \in 1 .. n : i # j => p[i] # p[j]
  <2> HIDE DEF starts
  <2> QED  BY <1>2
<1> DEFINE at(i) == rs[p[i]]
           Clash(r, s) == /\ DatesOverlap(r, s)
                          /\ \/ TimesOverlap(r, s, r.week, s.week)
                             \/ TimesOverlap(r, s, r.month, s.month)
<1>3. \A i \in 1 .. n : /\ at(i).startTime \in Int /\ at(i).endTime \in Int
                        /\ at(i).startTime < at(i).endTime
  BY DEF TimedDaily
<1>4. \A i, j \in 1 .. n : i < j => at(i).startTime <= at(j).startTime
  BY <1>2
<1>5. RecurringOverlap(rs) <=> \E i, j \in 1 .. n : i < j /\ Clash(at(i), at(j))
  <2> HIDE DEF starts
  <2>1. RecurringOverlap(rs) <=>
          \E i, j \in 1 .. n : i < j /\ Clash(Sorted(rs, starts)[i], Sorted(rs, starts)[j])
    BY DEF RecurringOverlap, starts
  <2> HIDE DEF Clash
  <2> QED  BY <1>2, <2>1
<1>6. ASSUME NEW a \in 1 .. n, NEW b \in 1 .. n, a < b
      PROVE  Clash(at(a), at(b)) <=> Meet(at(a), at(b))
  <2>1. at(a).startTime <= at(b).startTime
    BY <1>4, <1>6
  <2> HIDE DEF at
  <2>2. /\ at(a).startTime <= at(b).endTime
        /\ (at(a).startTime = at(b).startTime \/ at(a).endTime >= at(b).startTime)
             <=> at(b).startTime <= at(a).endTime
    BY <1>3, <2>1
  <2> QED  BY <2>2, Zenon DEF Meet, TimesOverlap
<1> HIDE DEF Clash
<1>7. ASSUME ~RecurringOverlap(rs), NEW i \in 1 .. n, NEW j \in 1 .. n, i # j
      PROVE  ~Meet(rs[i], rs[j])
  <2>1. PICK a \in 1 .. n : p[a] = i
    BY <1>2
  <2>2. PICK b \in 1 .. n : p[b] = j
    BY <1>2
  <2>3. a < b \/ b < a
    BY <1>7, <2>1, <2>2
  <2>4. \A c, d \in 1 .. n : c < d => ~Meet(at(c), at(d))
    BY <1>5, <1>6, <1>7
  <2>5. at(a) = rs[i] /\ at(b) = rs[j]
    BY <2>1, <2>2
  <2> HIDE DEF at
  <2> QED  BY <2>3, <2>4, <2>5, MeetIsSymmetric
<1>8. ASSUME \A i, j \in 1 .. n : i # j => ~Meet(rs[i], rs[j]),
             NEW a \in 1 .. n, NEW b \in 1 .. n, a < b
      PROVE  ~Clash(at(a), at(b))
  <2>1. p[a] \in 1 .. n /\ p[b] \in 1 .. n /\ p[a] # p[b]
    BY <1>p, <1>8
  <2>2. ~Meet(at(a), at(b))
    BY <2>1, <1>8
  <2> HIDE DEF at
  <2> QED  BY <2>2, <1>6, <1>8
<1> HIDE DEF at
<1> QED
  BY <1>5, <1>7, <1>8

\* Two schedules of a kind that apply at the same time meet.
LEMMA TogetherTheyMeet ==
  ASSUME NEW r, NEW s, Recurs(r), Recurs(s), SameKind(r, s),
         NEW d \in Int, NEW t \in Int, Apply(r, d, t), Apply(s, d, t)
  PROVE  Meet(r, s)
<1>1. r.startTime <= s.endTime /\ s.startTime <= r.endTime
  BY DEF Recurs, Apply
<1>2. CASE r.startTime <= s.startTime
  BY <1>1, <1>2, SchedulesApart DEF Meet, TimesOverlap
<1>3. CASE s.startTime <= r.startTime
  <2>1. Meet(s, r)
    BY <1>1, <1>3, SchedulesApart DEF Meet, TimesOverlap, SameKind
  <2> QED  BY <2>1, MeetIsSymmetric
<1> QED
  BY <1>2, <1>3 DEF Recurs

\* What the schedules are that are checked.
LEMMA PolicyParts ==
  ASSUME ValidationInit
  PROVE  LET ss == schedules.specific
             rs == schedules.recurring
             c  == schedules.counts
         IN  /\ c.min \in Number /\ c.max \in Number /\ c.initial \in Number
             /\ Len(ss) \in Nat /\ DOMAIN ss = 1 .. Len(ss)
             /\ \A i \in DOMAIN ss : ss[i].start \in Number /\ ss[i].end \in Number
             /\ Len(rs) \in Nat /\ DOMAIN rs = 1 .. Len(rs)
             /\ \A i \in DOMAIN rs :
                  /\ rs[i].startDate \in Number /\ rs[i].endDate \in Number
                  /\ rs[i].startTime \in Number /\ rs[i].endTime \in Number
                  /\ rs[i].startDate # None => rs[i].startDate < LastDay
                  /\ rs[i].endDate # None => rs[i].endDate < LastDay
<1> DEFINE One == [start : Number, end : Number]
           Daily == [startDate : Number, endDate : Number, startTime : Number,
                     endTime : Number, week : SUBSET Int, month : SUBSET Int]
           ss == schedules.specific
           rs == schedules.recurring
<1>1. schedules \in PolicySchedules
  BY SpecifiedAssumption DEF ValidationInit
<1>2. /\ schedules.counts \in [min : Number, max : Number, initial : Number]
      /\ ss \in Seq(One) /\ rs \in Seq(Daily)
  BY <1>1 DEF PolicySchedules
<1>3. /\ Len(ss) \in Nat /\ DOMAIN ss = 1 .. Len(ss)
      /\ \A i \in DOMAIN ss : ss[i] \in One
  <2> HIDE DEF ss, One
  <2> QED  BY <1>2
<1>4. /\ Len(rs) \in Nat /\ DOMAIN rs = 1 .. Len(rs)
      /\ \A i \in DOMAIN rs : rs[i] \in Daily
  <2> HIDE DEF rs, Daily
  <2> QED  BY <1>2
<1>5. \A i \in DOMAIN rs : /\ rs[i].startDate # None => rs[i].startDate < LastDay
                           /\ rs[i].endDate # None => rs[i].endDate < LastDay
  BY SpecifiedAssumption DEF ValidationInit
<1> QED
  BY <1>2, <1>3, <1>4, <1>5

LEMMA ValidIsTimed ==
  ASSUME ValidationInit,
         \A i \in DOMAIN schedules.specific : DateTimesValid(schedules.specific[i])
  PROVE  Timed(schedules.specific)
BY PolicyParts, NoneAssumption DEF DateTimesValid, Timed, Given, Number

LEMMA ValidRecurs ==
  ASSUME ValidationInit,
         \A i \in DOMAIN schedules.recurring : RecurringTimeValid(schedules.recurring[i])
  PROVE  /\ TimedDaily(schedules.recurring)
         /\ \A i \in DOMAIN schedules.recurring : Recurs(schedules.recurring[i])
<1>1. TimedDaily(schedules.recurring)
  BY PolicyParts, NoneAssumption DEF RecurringTimeValid, TimesValid, TimedDaily, Given, Number
<1>2. ASSUME NEW i \in DOMAIN schedules.recurring
      PROVE  Recurs(schedules.recurring[i])
  BY PolicyParts, NoneAssumption
     DEF RecurringTimeValid, DaysValid, DatesValid, TimesValid, Recurs, Period, OpenDate,
         Given, Number
<1> QED
  BY <1>1, <1>2

\* The schedules that the scheduler accepts do not overlap, however many they are: that
\* isOverlapping looks only at neighbours in the order of their starts, and that it
\* takes the dates of a pair in both directions, misses none.
THEOREM AcceptedSchedulesAreApart == ValidationInit => AcceptedNeverOverlap
<1> SUFFICES ASSUME ValidationInit, SchedulerAccepts(schedules)
             PROVE  LET ss == schedules.specific
                        rs == schedules.recurring
                    IN  /\ \A i, j \in DOMAIN ss :
                             i # j => ss[i].end < ss[j].start \/ ss[j].end < ss[i].start
                        /\ \A i, j \in DOMAIN rs : i < j /\ SameKind(rs[i], rs[j]) =>
                             ~\E d \in Dates, t \in Times : Apply(rs[i], d, t) /\ Apply(rs[j], d, t)
  BY DEF AcceptedNeverOverlap
<1> DEFINE ss == schedules.specific
           rs == schedules.recurring
<1>1. /\ \A i \in DOMAIN ss : DateTimesValid(ss[i])
      /\ \A i \in DOMAIN rs : RecurringTimeValid(rs[i])
      /\ ~SpecificOverlap(ss) /\ ~RecurringOverlap(rs)
  BY DEF SchedulerAccepts
<1>2. ASSUME NEW i \in DOMAIN ss, NEW j \in DOMAIN ss, i # j
      PROVE  ss[i].end < ss[j].start \/ ss[j].end < ss[i].start
  <2>1. Timed(ss) /\ Len(ss) \in Nat /\ DOMAIN ss = 1 .. Len(ss)
    BY <1>1, ValidIsTimed, PolicyParts
  <2> HIDE DEF ss
  <2>2. Apart(ss[i], ss[j])
    BY <1>1, <1>2, <2>1, SpecificApart
  <2> QED  BY <2>2 DEF Apart
<1>3. ASSUME NEW i \in DOMAIN rs, NEW j \in DOMAIN rs, i < j, SameKind(rs[i], rs[j]),
             NEW d \in Dates, NEW t \in Times, Apply(rs[i], d, t), Apply(rs[j], d, t)
      PROVE  FALSE
  <2>1. /\ TimedDaily(rs) /\ Recurs(rs[i]) /\ Recurs(rs[j])
        /\ Len(rs) \in Nat /\ DOMAIN rs = 1 .. Len(rs)
    BY <1>1, ValidRecurs, PolicyParts
  <2> HIDE DEF rs
  <2>2. ~Meet(rs[i], rs[j])
    BY <1>1, <1>3, <2>1, RecurringApart
  <2>3. Meet(rs[i], rs[j])
    BY <1>3, <2>1, CalendarAssumption, TogetherTheyMeet
  <2> QED  BY <2>2, <2>3
<1> QED
  BY <1>2, <1>3

-----------------------------------------------------------------------------
(* The two validations. *)

LEMMA CountsAgree ==
  ASSUME ValidationInit, ApiCountsValid(schedules.counts)
  PROVE  CountsValid(schedules.counts)
BY PolicyParts, NoneAssumption DEF ApiCountsValid, CountsSchema, CountsValid, Given, Number

LEMMA SpecificValidAgree ==
  ASSUME ValidationInit, Future, NEW i \in DOMAIN schedules.specific
  PROVE  ApiSpecificValid(schedules.specific[i]) <=> DateTimesValid(schedules.specific[i])
BY PolicyParts, NoneAssumption, CalendarAssumption
   DEF ApiSpecificValid, SpecificDateSchema, DateTimesValid, Future, Given, Number

LEMMA RecurringValidAgree ==
  ASSUME ValidationInit, Future, NEW i \in DOMAIN schedules.recurring
  PROVE  ApiRecurringValid(schedules.recurring[i])
           <=> RecurringTimeValid(schedules.recurring[i])
<1> DEFINE r == schedules.recurring[i]
<1>1. ApiRecurringValid(r) <=>
        /\ Given(r.startTime) /\ Given(r.endTime) /\ DaysValid(r) /\ r.startTime < r.endTime
        /\ Given(r.startDate) /\ Given(r.endDate) => r.startDate <= r.endDate
  BY DEF ApiRecurringValid, RecurringSchema, DaysValid, DaysWithin
<1>2. DatesValid(r) <=> (Given(r.startDate) /\ Given(r.endDate) => r.startDate <= r.endDate)
  BY DEF DatesValid, Future
<1>3. TimesValid(r) <=> Given(r.startTime) /\ Given(r.endTime) /\ r.startTime < r.endTime
  BY PolicyParts, NoneAssumption DEF TimesValid, Given, Number
<1>4. RecurringTimeValid(r) <=> DaysValid(r) /\ DatesValid(r) /\ TimesValid(r)
  BY DEF RecurringTimeValid
<1> HIDE DEF r
<1>5. ApiRecurringValid(r) <=> RecurringTimeValid(r)
  BY <1>1, <1>2, <1>3, <1>4
<1> QED
  BY <1>5 DEF r

\* But for schedules that only touch.
LEMMA SpecificOverlapAgree ==
  ASSUME ValidationInit, ~Touch, Timed(schedules.specific)
  PROVE  ApiSpecificOverlap(schedules.specific) <=> SpecificOverlap(schedules.specific)
<1> DEFINE ss == schedules.specific
<1>1. Len(ss) \in Nat /\ DOMAIN ss = 1 .. Len(ss)
  BY PolicyParts
<1>2. \A i, j \in 1 .. Len(ss) : i # j => ss[i].end # ss[j].start
  BY <1>1, NoneAssumption DEF Touch, Timed, Given
<1> HIDE DEF ss
<1>3. \A i, j \in 1 .. Len(ss) : i # j => (RangesOverlap(ss[i], ss[j]) <=> ~Apart(ss[i], ss[j]))
  <2> SUFFICES ASSUME NEW i \in 1 .. Len(ss), NEW j \in 1 .. Len(ss), i # j
               PROVE  RangesOverlap(ss[i], ss[j]) <=> ~Apart(ss[i], ss[j])
    OBVIOUS
  <2>1. /\ ss[i].start \in Int /\ ss[i].end \in Int
        /\ ss[j].start \in Int /\ ss[j].end \in Int
    BY DEF Timed, ss
  <2>2. ss[i].end # ss[j].start /\ ss[j].end # ss[i].start
    BY <1>2
  <2> QED  BY <2>1, <2>2 DEF RangesOverlap, Apart
<1>4. \A i, j \in 1 .. Len(ss) : Apart(ss[i], ss[j]) <=> Apart(ss[j], ss[i])
  BY DEF Apart
<1>5. ApiSpecificOverlap(ss) <=> \E i, j \in 1 .. Len(ss) : i < j /\ ~Apart(ss[i], ss[j])
  BY <1>1, <1>3 DEF ApiSpecificOverlap
<1>6. (\E i, j \in 1 .. Len(ss) : i < j /\ ~Apart(ss[i], ss[j]))
        <=> \E i, j \in 1 .. Len(ss) : i # j /\ ~Apart(ss[i], ss[j])
  BY <1>1, <1>4
<1>7. ~SpecificOverlap(ss) <=> \A i, j \in 1 .. Len(ss) : i # j => Apart(ss[i], ss[j])
  BY <1>1, SpecificApart DEF ss
<1> QED
  BY <1>5, <1>6, <1>7 DEF ss

LEMMA RecurringOverlapAgree ==
  ASSUME ValidationInit, TimedDaily(schedules.recurring),
         \A i \in DOMAIN schedules.recurring :
           Recurs(schedules.recurring[i]) /\ DatesValid(schedules.recurring[i])
  PROVE  ApiRecurringOverlap(schedules.recurring) <=> RecurringOverlap(schedules.recurring)
<1> DEFINE rs == schedules.recurring
           Pair(r, s) == /\ r.week \cap s.week # {} \/ r.month \cap s.month # {}
                         /\ s.startTime <= r.endTime /\ s.endTime >= r.startTime
                         /\ NormalizeStartDate(s) <= NormalizeEndDate(r)
                         /\ NormalizeEndDate(s) >= NormalizeStartDate(r)
<1>1. Len(rs) \in Nat /\ DOMAIN rs = 1 .. Len(rs)
  BY PolicyParts
<1>2. \A i \in 1 .. Len(rs) : Written(rs[i])
  BY <1>1, PolicyParts, NoneAssumption, CalendarAssumption, LastDayIsDate
     DEF DatesValid, Written, Given, Number
<1>3. ASSUME NEW i \in 1 .. Len(rs), NEW j \in 1 .. Len(rs)
      PROVE  Pair(rs[i], rs[j]) <=> Meet(rs[i], rs[j])
  <2>1. Period(rs[i]) /\ Period(rs[j]) /\ Written(rs[i]) /\ Written(rs[j])
    BY <1>1, <1>2 DEF Recurs
  <2>2. /\ rs[i].startTime \in Int /\ rs[i].endTime \in Int
        /\ rs[j].startTime \in Int /\ rs[j].endTime \in Int
    BY DEF TimedDaily
  <2> HIDE DEF rs
  <2>3. DatesOverlap(rs[i], rs[j]) <=>
          /\ NormalizeStartDate(rs[j]) <= NormalizeEndDate(rs[i])
          /\ NormalizeEndDate(rs[j]) >= NormalizeStartDate(rs[i])
    BY <2>1, DatesAgree
  <2>4. rs[j].endTime >= rs[i].startTime <=> rs[i].startTime <= rs[j].endTime
    BY <2>2
  <2> QED  BY <2>3, <2>4, Zenon DEF Meet, HasSameElement
<1>4. ApiRecurringOverlap(rs) <=> \E i, j \in 1 .. Len(rs) : i < j /\ Pair(rs[i], rs[j])
  <2> HIDE DEF rs
  <2> QED  BY DEF ApiRecurringOverlap
<1>5. ~RecurringOverlap(rs) <=> \A i, j \in 1 .. Len(rs) : i # j => ~Meet(rs[i], rs[j])
  BY <1>1, RecurringApart
<1>6. \A i, j \in 1 .. Len(rs) : Meet(rs[i], rs[j]) <=> Meet(rs[j], rs[i])
  BY MeetIsSymmetric
<1> HIDE DEF Pair
<1>7. ApiRecurringOverlap(rs) <=> \E i, j \in 1 .. Len(rs) : i < j /\ Meet(rs[i], rs[j])
  BY <1>3, <1>4
<1> HIDE DEF rs
<1>8. (\E i, j \in 1 .. Len(rs) : i < j /\ Meet(rs[i], rs[j]))
        <=> \E i, j \in 1 .. Len(rs) : i # j /\ Meet(rs[i], rs[j])
  BY <1>1, <1>6
<1> QED
  BY <1>5, <1>7, <1>8 DEF rs

\* On every policy of the future whose counts the API accepts, and whose dates do not
\* only touch, the scheduler decides as the API has decided, with other algorithms.
THEOREM TheValidatorsAgree == ValidationInit => ValidatorsAgree
<1> SUFFICES ASSUME ValidationInit, Future, ApiCountsValid(schedules.counts), ~Touch
             PROVE  ApiAccepts(schedules) <=> SchedulerAccepts(schedules)
  BY DEF ValidatorsAgree
<1> DEFINE ss == schedules.specific
           rs == schedules.recurring
           SpecificValid == \A i \in DOMAIN ss : DateTimesValid(ss[i])
           RecurringValid == \A i \in DOMAIN rs : RecurringTimeValid(rs[i])
<1>1. CountsValid(schedules.counts)
  BY CountsAgree
<1>2. (\A i \in DOMAIN ss : ApiSpecificValid(ss[i])) <=> SpecificValid
  BY SpecificValidAgree
<1>3. (\A i \in DOMAIN rs : ApiRecurringValid(rs[i])) <=> RecurringValid
  BY RecurringValidAgree
<1>4. SpecificValid => (ApiSpecificOverlap(ss) <=> SpecificOverlap(ss))
  BY ValidIsTimed, SpecificOverlapAgree
<1>5. RecurringValid => (ApiRecurringOverlap(rs) <=> RecurringOverlap(rs))
  BY ValidRecurs, RecurringOverlapAgree DEF RecurringTimeValid
<1>6. ApiAccepts(schedules) <=>
        /\ \A i \in DOMAIN ss : ApiSpecificValid(ss[i])
        /\ \A i \in DOMAIN rs : ApiRecurringValid(rs[i])
        /\ ~ApiSpecificOverlap(ss) /\ ~ApiRecurringOverlap(rs)
  BY DEF ApiAccepts
<1>7. SchedulerAccepts(schedules) <=>
        SpecificValid /\ RecurringValid /\ ~SpecificOverlap(ss) /\ ~RecurringOverlap(rs)
  BY <1>1 DEF SchedulerAccepts
<1> HIDE DEF SpecificValid, RecurringValid, ss, rs
<1> QED
  BY <1>2, <1>3, <1>4, <1>5, <1>6, <1>7

-----------------------------------------------------------------------------
(* The Cloud Foundry client *)

AnswersAreYoung ==
  \A c \in Callers : caller[c].answer # 0 => caller[c].answer >= ExpiresIn - MaxDelay

\* The token expires no earlier than its age lets expect, but for the delay.
ExpiryIsKnown == left + age >= ExpiresIn - MaxDelay

Places == {"idle", "refresh", "endpoints", "login", "unlock", "read"}

HandedOn(c) == caller[c].at \in {"unlock", "read"}

\* What is inductive: between the unlocking of the mutex and the return no time passes,
\* but others may replace the token.
ClientInvariant ==
  /\ left \in Nat /\ age \in Nat
  /\ caller \in [Callers -> [at : Places, answer : Nat]]
  /\ AnswersAreYoung /\ ExpiryIsKnown
  /\ \A c \in Callers : HandedOn(c) => left > 0 \/ c \in refused

Moves(c, at, answer) == caller' = [caller EXCEPT ![c] = [at |-> at, answer |-> answer]]

\* A step of a caller c that gets no token changes nothing but where c is, for an
\* answer that c has or gives up.
LEMMA QuietStep ==
  ASSUME ClientInvariant, NEW c \in Callers, NEW at \in Places, NEW answer \in Nat,
         Moves(c, at, answer), left' = left, age' = age, refused \ {c} \subseteq refused',
         answer # 0 => answer >= ExpiresIn - MaxDelay,
         at \in {"unlock", "read"} => left > 0 \/ c \in refused'
  PROVE  ClientInvariant'
<1>1. caller' \in [Callers -> [at : Places, answer : Nat]]
  BY DEF ClientInvariant, Moves
<1>2. \A d \in Callers : d # c => caller'[d] = caller[d]
  BY DEF ClientInvariant, Moves
<1>3. caller'[c].at = at /\ caller'[c].answer = answer
  BY DEF ClientInvariant, Moves
<1>4. AnswersAreYoung'
  BY <1>2, <1>3, ClientAssumption DEF ClientInvariant, AnswersAreYoung
<1>5. \A d \in Callers : HandedOn(d)' => left' > 0 \/ d \in refused'
  BY <1>2, <1>3 DEF ClientInvariant, HandedOn
<1> QED
  BY <1>1, <1>4, <1>5 DEF ClientInvariant, ExpiryIsKnown

\* A caller that changes its place keeps its answer.
LEMMA StepOf ==
  ASSUME ClientInvariant, NEW c \in Callers, NEW from, NEW to \in Places, Step(c, from, to)
  PROVE  /\ Moves(c, to, caller[c].answer)
         /\ caller[c].at = from /\ caller[c].answer \in Nat
         /\ caller[c].answer # 0 => caller[c].answer >= ExpiresIn - MaxDelay
<1>1. caller[c] \in [at : Places, answer : Nat]
  BY DEF ClientInvariant
<1>2. [caller[c] EXCEPT !.at = to] = [at |-> to, answer |-> caller[c].answer]
  BY <1>1
<1>3. caller' = [caller EXCEPT ![c] = [caller[c] EXCEPT !.at = to]] /\ caller[c].at = from
  BY DEF Step
<1> QED
  BY <1>1, <1>2, <1>3 DEF ClientInvariant, AnswersAreYoung, Moves

\* A token that is not about to expire lives for longer than any answer takes.
LEMMA NotToBeExpired == ClientInvariant /\ ~IsTokenToBeExpired => left > 0
BY ClientAssumption DEF ClientInvariant, IsTokenToBeExpired, ExpiryIsKnown

LEMMA GetTokensInvariant ==
  ASSUME ClientInvariant, NEW c \in Callers, GetTokensWithRefresh(c)
  PROVE  ClientInvariant'
<1>1. CASE IsTokenToBeExpired
  <2>1. Step(c, "idle", "refresh") /\ UNCHANGED <<left, age, refused>>
    BY <1>1 DEF GetTokensWithRefresh
  <2> QED
    BY <2>1, StepOf, QuietStep DEF Places
<1>2. CASE ~IsTokenToBeExpired
  <2>1. Step(c, "idle", "unlock") /\ UNCHANGED <<left, age, refused>>
    BY <1>2 DEF GetTokensWithRefresh
  <2> QED
    BY <1>2, <2>1, NotToBeExpired, StepOf, QuietStep DEF Places
<1> QED
  BY <1>1, <1>2

LEMMA GrantedInvariant ==
  ASSUME ClientInvariant, NEW c \in Callers, Granted(c)
  PROVE  ClientInvariant'
<1>1. left' \in Nat /\ left' >= ExpiresIn - MaxDelay /\ left' > 0 /\ age' = 0 /\ age' \in Nat
  BY DEF Granted, ClientInvariant, AnswersAreYoung
<1>2. caller' = [caller EXCEPT ![c] = [at |-> "unlock", answer |-> 0]]
  BY DEF Granted, WithoutAnswer
<1>3. caller' \in [Callers -> [at : Places, answer : Nat]]
  BY <1>2 DEF ClientInvariant, Places
<1>4. \A d \in Callers : d # c => caller'[d] = caller[d]
  BY <1>2 DEF ClientInvariant
<1>5. caller'[c].answer = 0
  BY <1>2 DEF ClientInvariant
<1>6. AnswersAreYoung'
  BY <1>4, <1>5, ClientAssumption DEF ClientInvariant, AnswersAreYoung
<1>7. left' + age' >= ExpiresIn - MaxDelay
  <2>1. left' \in Nat /\ left' >= ExpiresIn - MaxDelay
    BY <1>1
  <2>2. age' = 0
    BY <1>1
  <2>3. left' + 0 >= ExpiresIn - MaxDelay
    BY <2>1
  <2> QED
    BY <2>2, <2>3
<1> QED
  BY <1>1, <1>3, <1>6, <1>7 DEF ClientInvariant, ExpiryIsKnown

LEMMA AgingInvariant ==
  ASSUME ClientInvariant, TokenAges
  PROVE  ClientInvariant'
<1>1. \A c \in Callers : /\ caller'[c].at = caller[c].at
                         /\ caller'[c].answer =
                              IF caller[c].answer = 0 THEN 0 ELSE caller[c].answer - 1
  BY DEF TokenAges, ClientInvariant
<1>2. caller' \in [Callers -> [at : Places, answer : Nat]]
  <2> SUFFICES ASSUME NEW c \in Callers
               PROVE  [caller[c] EXCEPT !.answer = IF @ = 0 THEN 0 ELSE @ - 1]
                        \in [at : Places, answer : Nat]
    BY DEF TokenAges
  <2>1. caller[c].answer \in Nat
    BY DEF ClientInvariant
  <2> QED
    BY <2>1 DEF ClientInvariant
<1>3. AnswersAreYoung'
  BY <1>1, ClientAssumption DEF TokenAges, ClientInvariant, AnswersAreYoung
<1>4. \A c \in Callers : ~HandedOn(c)'
  BY <1>1 DEF TokenAges, HandedOn
<1>5. left' \in Nat /\ age' \in Nat
  <2>1. left \in Nat /\ age \in Nat
    BY DEF ClientInvariant
  <2>2. left' = IF left = 0 THEN 0 ELSE left - 1
    BY DEF TokenAges
  <2>3. age' = IF age > ExpiresIn THEN age ELSE age + 1
    BY DEF TokenAges
  <2>4. left' \in Nat
    BY <2>1, <2>2
  <2>5. age' \in Nat
    BY <2>1, <2>3, ClientAssumption
  <2> QED
    BY <2>4, <2>5
<1>6. left' + age' >= ExpiresIn - MaxDelay
  BY ClientAssumption DEF TokenAges, ClientInvariant, ExpiryIsKnown
<1> QED
  BY <1>2, <1>3, <1>4, <1>5, <1>6 DEF ClientInvariant, ExpiryIsKnown

LEMMA NextInvariant ==
  ASSUME ClientInvariant, [ClientNext]_clientVars
  PROVE  ClientInvariant'
<1>1. ASSUME NEW c \in Callers, RequestTokenGrant(c) PROVE ClientInvariant'
  <2>1. Moves(c, caller[c].at, ExpiresIn)
    <3>1. caller[c] \in [at : Places, answer : Nat]
      BY DEF ClientInvariant
    <3>2. [caller[c] EXCEPT !.answer = ExpiresIn] = [at |-> caller[c].at, answer |-> ExpiresIn]
      BY <3>1
    <3> QED
      BY <1>1, <3>2 DEF RequestTokenGrant, Moves
  <2>2. caller[c].at \in Places /\ caller[c].at \notin {"unlock", "read"}
    BY <1>1 DEF RequestTokenGrant, ClientInvariant
  <2> QED
    BY <1>1, <2>1, <2>2, QuietStep, ClientAssumption DEF RequestTokenGrant
<1>2. ASSUME NEW c \in Callers, RefreshFails(c) PROVE ClientInvariant'
  <2>1. Moves(c, "endpoints", 0)
    BY <1>2 DEF RefreshFails, WithoutAnswer, Moves
  <2> QED
    BY <1>2, <2>1, QuietStep DEF RefreshFails, Places
<1>3. ASSUME NEW c \in Callers, LoginFails(c) PROVE ClientInvariant'
  <2>1. Moves(c, "unlock", 0)
    BY <1>3 DEF LoginFails, WithoutAnswer, Moves
  <2> QED
    BY <1>3, <2>1, QuietStep DEF LoginFails, Places
<1>4. ASSUME NEW c \in Callers, RetrieveEndpoints(c) PROVE ClientInvariant'
  BY <1>4, StepOf, QuietStep DEF RetrieveEndpoints, Places
<1>5. ASSUME NEW c \in Callers, Unlock(c) PROVE ClientInvariant'
  <2>1. left > 0 \/ c \in refused
    BY <1>5 DEF Unlock, Step, ClientInvariant, HandedOn
  <2> QED
    BY <1>5, <2>1, StepOf, QuietStep DEF Unlock, Places
<1>6. ASSUME NEW c \in Callers, Return(c) PROVE ClientInvariant'
  BY <1>6, StepOf, QuietStep DEF Return, Places
<1>7. CASE UNCHANGED clientVars
  BY <1>7 DEF clientVars, ClientInvariant, AnswersAreYoung, ExpiryIsKnown, HandedOn
<1> QED
  BY <1>1, <1>2, <1>3, <1>4, <1>5, <1>6, <1>7,
     GetTokensInvariant, GrantedInvariant, AgingInvariant DEF ClientNext

\* Nobody is given an expired token unless the refresh and the login have both failed,
\* for any number of callers: it is enough that UAA answers faster than
\* TimeToRefreshBeforeTokenExpire.
THEOREM TokensStayAlive == ClientSpec => []TokensAreAlive
<1>1. ClientInit => ClientInvariant
  BY ClientAssumption
     DEF ClientInit, WithoutAnswer, Places, ClientInvariant, AnswersAreYoung, ExpiryIsKnown, HandedOn
<1>2. ClientInvariant /\ [ClientNext]_clientVars => ClientInvariant'
  BY NextInvariant
<1>3. ClientInvariant => TokensAreAlive
  BY DEF ClientInvariant, HandedOn, TokensAreAlive
<1> QED
  BY <1>1, <1>2, <1>3, PTL DEF ClientSpec

-----------------------------------------------------------------------------
(* Credentials, for any number of servers, forwarders and requests.        *)

Requests == [at : {"silent", "sent", "miss", "accepted", "refused"}, to : {Silent.to} \cup Verifiers,
             creds : Nat, found : Nat, current : BOOLEAN]

\* A request with the credentials of the table has not been told of others.
Uptodate(c) ==
  client[c].current = TRUE =>
    /\ client[c].creds = creds /\ creds # 0
    /\ client[c].at = "miss" => client[c].found = creds
    /\ client[c].at # "refused"

CredsInvariant ==
  /\ creds \in Nat /\ made \in Nat /\ client \in [Clients -> Requests]
  /\ \A c \in Clients : Uptodate(c)

\* What happens to one request leaves the others as they are.
LEMMA OneRequest ==
  ASSUME CredsInvariant, NEW c \in Clients, NEW r \in Requests,
         client' = [client EXCEPT ![c] = r], UNCHANGED <<creds, made>>,
         r.current = TRUE => /\ r.creds = creds /\ creds # 0
                             /\ r.at = "miss" => r.found = creds
                             /\ r.at # "refused"
  PROVE  CredsInvariant'
BY DEF CredsInvariant, Uptodate

LEMMA StoreKeeps ==
  ASSUME CredsInvariant, NEW x \in Nat, Store(x), made' \in Nat
  PROVE  CredsInvariant'
<1>1. ASSUME NEW c \in Clients
      PROVE  /\ client'[c] \in Requests /\ client'[c].current = FALSE
  BY DEF Store, CredsInvariant, Requests
<1>2. client' \in [Clients -> Requests] /\ creds' \in Nat
  BY <1>1 DEF Store
<1> QED
  BY <1>1, <1>2 DEF CredsInvariant, Uptodate

LEMMA CredsStep == CredsInvariant /\ [CredsNext]_credsVars => CredsInvariant'
<1> SUFFICES ASSUME CredsInvariant, [CredsNext]_credsVars
             PROVE  CredsInvariant'
  OBVIOUS
<1>1. CASE UNCHANGED credsVars
  BY <1>1 DEF credsVars, CredsInvariant, Uptodate
<1>2. ASSUME NEW s \in ApiServers, CreateOrUpdate(s) \/ DeleteCredentials(s) \/ Forget(s)
      PROVE  CredsInvariant'
  <2>1. CASE CreateOrUpdate(s)
    <3>1. Store(made + 1) /\ made' = made + 1 /\ made + 1 \in Nat
      BY <2>1 DEF CreateOrUpdate, CredsInvariant
    <3> QED  BY <3>1, StoreKeeps
  <2>2. CASE DeleteCredentials(s)
    <3>1. Store(0) /\ made' = made /\ made \in Nat
      BY <2>2 DEF DeleteCredentials, CredsInvariant
    <3> QED  BY <3>1, StoreKeeps
  <2>3. CASE Forget(s)
    BY <2>3 DEF Forget, CredsInvariant, Uptodate
  <2> QED  BY <1>2, <2>1, <2>2, <2>3
<1>3. ASSUME NEW c \in Clients, NEW v \in Verifiers, NEW x \in 1 .. made, Send(c, v, x)
      PROVE  CredsInvariant'
  <2> DEFINE r == [at |-> "sent", to |-> v, creds |-> x, found |-> 0, current |-> creds = x]
  <2>1. x \in Nat /\ x # 0
    BY DEF CredsInvariant
  <2>2. r \in Requests
    BY <2>1 DEF Requests
  <2>3. client' = [client EXCEPT ![c] = r] /\ UNCHANGED <<creds, made>>
    BY <1>3 DEF Send
  <2>4. r.current = TRUE => r.creds = creds /\ creds # 0
    BY <2>1
  <2>5. r.at = "sent"
    OBVIOUS
  <2> HIDE DEF r
  <2> QED  BY <2>2, <2>3, <2>4, <2>5, OneRequest
<1>4. ASSUME NEW c \in Clients, Known(c) \/ Miss(c) \/ MissFails(c) \/ Fill(c)
      PROVE  CredsInvariant'
  <2>1. client[c] \in Requests /\ Uptodate(c) /\ creds \in Nat
    BY DEF CredsInvariant
  <2>2. CASE Known(c)
    <3> DEFINE r == [client[c] EXCEPT !.at = "accepted"]
    <3>1. r \in Requests /\ client' = [client EXCEPT ![c] = r] /\ UNCHANGED <<creds, made>>
      BY <2>1, <2>2 DEF Known, Requests, CredsInvariant
    <3>2. r.current = TRUE => r.creds = creds /\ creds # 0
      BY <2>1 DEF Uptodate, Requests
    <3>3. r.at = "accepted"
      BY <2>1 DEF Requests
    <3> HIDE DEF r
    <3> QED  BY <3>1, <3>2, <3>3, OneRequest
  <2>3. CASE Miss(c)
    <3> DEFINE r == [client[c] EXCEPT !.at = IF creds = 0 THEN "refused" ELSE "miss",
                                      !.found = creds]
    <3>1. r \in Requests /\ client' = [client EXCEPT ![c] = r] /\ UNCHANGED <<creds, made>>
      BY <2>1, <2>3 DEF Miss, Requests, CredsInvariant
    <3>2. r.current = TRUE => r.creds = creds /\ creds # 0 /\ r.at = "miss" /\ r.found = creds
      BY <2>1 DEF Uptodate, Requests
    <3> HIDE DEF r
    <3> QED  BY <3>1, <3>2, OneRequest
  <2>4. CASE MissFails(c)
    <3>1. Silent \in Requests /\ Silent.current = FALSE
      BY DEF Requests, Silent
    <3>2. client' = [client EXCEPT ![c] = Silent] /\ UNCHANGED <<creds, made>>
      BY <2>4 DEF MissFails
    <3> QED  BY <3>1, <3>2, OneRequest
  <2>5. CASE Fill(c)
    <3> DEFINE r == [client[c] EXCEPT !.at = IF client[c].found = client[c].creds
                                             THEN "accepted" ELSE "refused"]
    <3>1. r \in Requests /\ client' = [client EXCEPT ![c] = r] /\ UNCHANGED <<creds, made>>
      BY <2>1, <2>5 DEF Fill, Requests, CredsInvariant
    <3>2. r.current = TRUE => r.creds = creds /\ creds # 0 /\ r.at = "accepted"
      BY <2>1, <2>5 DEF Uptodate, Requests, Fill
    <3> HIDE DEF r
    <3> QED  BY <3>1, <3>2, OneRequest
  <2> QED  BY <1>4, <2>2, <2>3, <2>4, <2>5
<1>5. CASE Expire
  BY <1>5 DEF Expire, CredsInvariant, Uptodate
<1> QED
  BY <1>1, <1>2, <1>3, <1>4, <1>5 DEF CredsNext

\* Credentials that have been current since they were sent are not refused, whatever the
\* caches have and whoever replaces and forgets meanwhile.
THEOREM CurrentCredentialsAreAccepted ==
  CredsInit /\ [][CredsNext]_credsVars => []CurrentAreAccepted
<1>1. CredsInit => CredsInvariant
  BY DEF CredsInit, CredsInvariant, Uptodate, Silent, Requests
<1>2. CredsInvariant => CurrentAreAccepted
  BY DEF CredsInvariant, CurrentAreAccepted, Uptodate, Requests
<1> QED
  BY <1>1, <1>2, CredsStep, PTL

-----------------------------------------------------------------------------
(* Programs: for any set of configuration files.                           *)

\* What a program that gets past Validate panics at is an interval that
\* Validate compares with zero only or does not look at, or a gateway's
\* missing certificates.
LEMMA CollectorPanics ==
  ASSUME NEW c \in [DOMAIN MetricsCollectorDefaults -> Int], NEW moment,
         MetricsCollectorValidate(c), MetricsCollectorPanics(c, moment)
  PROVE  \E x \in NegativeAccepted.metricscollector : c[x] < 0
BY DEF MetricsCollectorDefaults, MetricsCollectorValidate, MetricsCollectorPanics, NonZero,
       Positive, NodeInRange, NoTicker, NegativeAccepted

LEMMA ServerPanics ==
  ASSUME NEW c \in [DOMAIN MetricsServerDefaults -> Int], NEW moment,
         MetricsServerValidate(c), MetricsServerPanics(c, moment)
  PROVE  \E x \in NegativeAccepted.metricsserver : c[x] < 0
BY DEF MetricsServerDefaults, MetricsServerValidate, MetricsServerPanics, NonZero, Positive,
       NodeInRange, NoTicker, NoLength, MetricsServerTickers, NegativeAccepted

LEMMA GatewayPanics ==
  ASSUME NEW c \in [DOMAIN MetricsGatewayDefaults -> Int], NEW moment,
         MetricsGatewayValidate(c), MetricsGatewayPanics(c, moment)
  PROVE  \E x \in NegativeAccepted.metricsgateway : c[x] < 0
BY DEF MetricsGatewayDefaults, MetricsGatewayValidate, GatewayNumbersValid, MetricsGatewayPanics,
       NonZero, Positive, NoTicker, NoLength, NegativeAccepted

LEMMA EventGeneratorDoesNotPanic ==
  ASSUME NEW c \in [DOMAIN EventGeneratorDefaults -> Int], NEW moment,
         EventGeneratorValidate(c)
  PROVE  ~EventGeneratorPanics(c, moment)
BY DEF EventGeneratorDefaults, EventGeneratorValidate, EventGeneratorPanics, NonZero, Positive,
       NodeInRange, NoTicker, NoLength, EventGeneratorTickers, EventGeneratorLengths

LEMMA ScalingEngineDoesNotPanic ==
  ASSUME NEW c \in [DOMAIN ScalingEngineDefaults -> Int], NEW moment, ScalingEngineValidate(c)
  PROVE  ~ScalingEnginePanics(c, moment)
BY DEF ScalingEngineDefaults, ScalingEngineValidate, ScalingEnginePanics, Positive

LEMMA OperatorPanicsAtTheLock ==
  ASSUME NEW c \in [DOMAIN OperatorDefaults -> Int], NEW moment,
         OperatorValidate(c), OperatorPanics(c, moment)
  PROVE  c.lock_retry_interval <= 0
BY DEF OperatorDefaults, OperatorValidate, OperatorPanics, RunnerInterval, NoTicker

\* The values that are set before the file is read do no harm.
LEMMA DefaultsArePositive ==
  /\ \A p \in DOMAIN NegativeAccepted :
       \A x \in NegativeAccepted[p] : x \in DOMAIN Defaults[p] /\ Defaults[p][x] > 0
  /\ \A p \in DOMAIN Unchecked :
       \A x \in Unchecked[p] : x \in DOMAIN Defaults[p] /\ Defaults[p][x] > 0
<1>1. NegativeAccepted.metricscollector = {"refresh_interval", "collect_interval", "save_interval"}
      /\ NegativeAccepted.metricsserver = {"refresh_interval", "collect_interval", "save_interval"}
      /\ NegativeAccepted.metricsgateway = {"app_refresh_interval", "keep_alive_interval"}
      /\ DOMAIN NegativeAccepted = {"metricscollector", "metricsserver", "metricsgateway"}
  BY DEF NegativeAccepted
<1>2. Unchecked.metricsforwarder = {"policy_poller_interval"}
      /\ Unchecked.operator = {"lock_retry_interval"}
      /\ DOMAIN Unchecked = {"metricsforwarder", "operator"}
  BY DEF Unchecked
<1>3. /\ Defaults["metricscollector"] = MetricsCollectorDefaults
      /\ Defaults["metricsserver"] = MetricsServerDefaults
      /\ Defaults["metricsgateway"] = MetricsGatewayDefaults
      /\ Defaults["metricsforwarder"] = MetricsForwarderDefaults
      /\ Defaults["operator"] = OperatorDefaults
  BY DEF Defaults
<1>4. \A x \in NegativeAccepted.metricscollector :
        x \in DOMAIN MetricsCollectorDefaults /\ MetricsCollectorDefaults[x] > 0
  BY <1>1 DEF MetricsCollectorDefaults
<1>5. \A x \in NegativeAccepted.metricsserver :
        x \in DOMAIN MetricsServerDefaults /\ MetricsServerDefaults[x] > 0
  BY <1>1 DEF MetricsServerDefaults
<1>6. \A x \in NegativeAccepted.metricsgateway :
        x \in DOMAIN MetricsGatewayDefaults /\ MetricsGatewayDefaults[x] > 0
  BY <1>1 DEF MetricsGatewayDefaults
<1>7. \A x \in Unchecked.metricsforwarder :
        x \in DOMAIN MetricsForwarderDefaults /\ MetricsForwarderDefaults[x] > 0
  BY <1>2 DEF MetricsForwarderDefaults
<1>8. \A x \in Unchecked.operator : x \in DOMAIN OperatorDefaults /\ OperatorDefaults[x] > 0
  BY <1>2 DEF OperatorDefaults
<1> QED
  BY <1>1, <1>2, <1>3, <1>4, <1>5, <1>6, <1>7, <1>8

\* The values of a configuration are integers.
LEMMA DefaultsAreIntegers ==
  ASSUME NEW p \in ProgramNames PROVE \A x \in DOMAIN Defaults[p] : Defaults[p][x] \in Int
<1>1. \A x \in DOMAIN ApiDefaults : ApiDefaults[x] \in Int
  BY DEF ApiDefaults
<1>2. \A x \in DOMAIN EventGeneratorDefaults : EventGeneratorDefaults[x] \in Int
  BY DEF EventGeneratorDefaults
<1>3. \A x \in DOMAIN MetricsCollectorDefaults : MetricsCollectorDefaults[x] \in Int
  BY DEF MetricsCollectorDefaults
<1>4. \A x \in DOMAIN MetricsServerDefaults : MetricsServerDefaults[x] \in Int
  BY DEF MetricsServerDefaults
<1>5. \A x \in DOMAIN MetricsGatewayDefaults : MetricsGatewayDefaults[x] \in Int
  BY DEF MetricsGatewayDefaults
<1>6. \A x \in DOMAIN MetricsForwarderDefaults : MetricsForwarderDefaults[x] \in Int
  BY DEF MetricsForwarderDefaults
<1>7. \A x \in DOMAIN OperatorDefaults : OperatorDefaults[x] \in Int
  BY DEF OperatorDefaults
<1>8. \A x \in DOMAIN ScalingEngineDefaults : ScalingEngineDefaults[x] \in Int
  BY DEF ScalingEngineDefaults
<1> QED
  BY <1>1, <1>2, <1>3, <1>4, <1>5, <1>6, <1>7, <1>8 DEF ProgramNames, Defaults

LEMMA LoadedIsIntegers ==
  ASSUME NEW p \in ProgramNames, NEW given, IsGiven(p, given)
  PROVE  Loaded(p, given) \in [DOMAIN Defaults[p] -> Int]
BY DefaultsAreIntegers DEF IsGiven, Loaded

\* A value that is not positive was given by the file.
LEMMA NotPositiveIsGiven ==
  ASSUME NEW p \in ProgramNames, NEW given, NEW x \in DOMAIN Defaults[p],
         Defaults[p][x] > 0, Loaded(p, given)[x] <= 0
  PROVE  x \in DOMAIN given /\ Loaded(p, given)[x] = given[x]
BY DefaultsAreIntegers DEF Loaded

LEMMA PanicIsOverlooked ==
  ASSUME NEW p \in ProgramNames, NEW given, IsGiven(p, given), NEW c, c = Loaded(p, given),
         NEW moment, Panics(p, c, moment), Validate(p, c) \/ moment = "validate"
  PROVE  Overlooked(p, given, c)
<1>1. c \in [DOMAIN Defaults[p] -> Int]
  BY LoadedIsIntegers
<1>2. \A q \in DOMAIN NegativeAccepted :
        p = q /\ (\E x \in NegativeAccepted[q] : c[x] < 0) => Overlooked(p, given, c)
  <2> SUFFICES ASSUME p \in DOMAIN NegativeAccepted, NEW x \in NegativeAccepted[p], c[x] < 0
               PROVE  Overlooked(p, given, c)
    OBVIOUS
  <2>1. x \in DOMAIN Defaults[p] /\ Defaults[p][x] > 0
    BY DefaultsArePositive
  <2>2. c[x] \in Int
    BY <1>1, <2>1
  <2>3. x \in DOMAIN given /\ c[x] = given[x]
    BY <2>1, <2>2, NotPositiveIsGiven
  <2> QED
    BY <2>3 DEF Overlooked
<1>3. \A q \in DOMAIN Unchecked :
        p = q /\ (\E x \in Unchecked[q] : c[x] <= 0) => Overlooked(p, given, c)
  <2> SUFFICES ASSUME p \in DOMAIN Unchecked, NEW x \in Unchecked[p], c[x] <= 0
               PROVE  Overlooked(p, given, c)
    OBVIOUS
  <2>1. x \in DOMAIN Defaults[p] /\ Defaults[p][x] > 0
    BY DefaultsArePositive
  <2>2. x \in DOMAIN given /\ c[x] = given[x]
    BY <2>1, NotPositiveIsGiven
  <2> QED
    BY <2>2 DEF Overlooked
<1>4. \/ p = "eventgenerator" /\ EventGeneratorPanics(c, moment)
      \/ p = "metricscollector" /\ MetricsCollectorPanics(c, moment)
      \/ p = "metricsserver" /\ MetricsServerPanics(c, moment)
      \/ p = "metricsgateway" /\ MetricsGatewayPanics(c, moment)
      \/ p = "metricsforwarder" /\ MetricsForwarderPanics(c, moment)
      \/ p = "operator" /\ OperatorPanics(c, moment)
      \/ p = "scalingengine" /\ ScalingEnginePanics(c, moment)
  BY DEF Panics
<1>5. CASE p = "eventgenerator" /\ EventGeneratorPanics(c, moment)
  <2>1. EventGeneratorValidate(c)
    BY <1>5 DEF Validate, EventGeneratorPanics
  <2> QED
    BY <1>1, <1>5, <2>1, EventGeneratorDoesNotPanic DEF Defaults
<1>6. CASE p = "metricscollector" /\ MetricsCollectorPanics(c, moment)
  <2>1. MetricsCollectorValidate(c)
    BY <1>6 DEF Validate, MetricsCollectorPanics
  <2>2. c \in [DOMAIN MetricsCollectorDefaults -> Int]
    BY <1>1, <1>6 DEF Defaults
  <2> QED
    BY <1>2, <1>6, <2>1, <2>2, CollectorPanics DEF NegativeAccepted
<1>7. CASE p = "metricsserver" /\ MetricsServerPanics(c, moment)
  <2>1. MetricsServerValidate(c)
    BY <1>7 DEF Validate, MetricsServerPanics
  <2>2. c \in [DOMAIN MetricsServerDefaults -> Int]
    BY <1>1, <1>7 DEF Defaults
  <2> QED
    BY <1>2, <1>7, <2>1, <2>2, ServerPanics DEF NegativeAccepted
<1>8. CASE p = "metricsgateway" /\ MetricsGatewayPanics(c, moment)
  <2>1. CASE moment = "validate"
    BY <1>8, <2>1 DEF MetricsGatewayPanics, Overlooked, Certificates
  <2>2. CASE Validate(p, c)
    <3>1. MetricsGatewayValidate(c)
      BY <1>8, <2>2 DEF Validate
    <3>2. c \in [DOMAIN MetricsGatewayDefaults -> Int]
      BY <1>1, <1>8 DEF Defaults
    <3> QED
      BY <1>2, <1>8, <3>1, <3>2, GatewayPanics DEF NegativeAccepted
  <2> QED
    BY <2>1, <2>2
<1>9. CASE p = "metricsforwarder" /\ MetricsForwarderPanics(c, moment)
  BY <1>3, <1>9 DEF MetricsForwarderPanics, NoTicker, Unchecked
<1>10. CASE p = "operator" /\ OperatorPanics(c, moment)
  <2>1. OperatorValidate(c)
    BY <1>10 DEF Validate, OperatorPanics, RunnerInterval
  <2>2. c \in [DOMAIN OperatorDefaults -> Int]
    BY <1>1, <1>10 DEF Defaults
  <2> QED
    BY <1>3, <1>10, <2>1, <2>2, OperatorPanicsAtTheLock DEF Unchecked
<1>11. CASE p = "scalingengine" /\ ScalingEnginePanics(c, moment)
  <2>1. ScalingEngineValidate(c)
    BY <1>11 DEF Validate, ScalingEnginePanics
  <2> QED
    BY <1>1, <1>11, <2>1, ScalingEngineDoesNotPanic DEF Defaults
<1> QED
  BY <1>4, <1>5, <1>6, <1>7, <1>8, <1>9, <1>10, <1>11

\* Each member uses only what its main function sets up.
LEMMA UsesAreSetUp ==
  ASSUME NEW p \in ProgramNames
  PROVE  /\ Len(Mains[p].setup) \in Nat
         /\ DOMAIN Mains[p].members = 1 .. Len(Mains[p].members)
         /\ Len(Mains[p].members) \in Nat
         /\ \A m \in DOMAIN Mains[p].members :
              Mains[p].uses[Mains[p].members[m]]
                \subseteq {Mains[p].setup[i] : i \in 1 .. Len(Mains[p].setup)}
<1>1. CASE p = "api"
  BY <1>1 DEF Mains, ApiMain
<1>2. CASE p = "eventgenerator"
  BY <1>2 DEF Mains, EventGeneratorMain
<1>3. CASE p = "metricscollector"
  BY <1>3 DEF Mains, MetricsCollectorMain
<1>4. CASE p = "metricsserver"
  BY <1>4 DEF Mains, MetricsServerMain
<1>5. CASE p = "metricsgateway"
  BY <1>5 DEF Mains, MetricsGatewayMain
<1>6. CASE p = "metricsforwarder"
  BY <1>6 DEF Mains, MetricsForwarderMain
<1>7. CASE p = "operator"
  <2> DEFINE Steps == {OperatorMain.setup[i] : i \in 1 .. 8}
  <2>1. Mains[p] = OperatorMain
    BY <1>7 DEF Mains
  <2>2. /\ Len(OperatorMain.setup) = 8 /\ Len(OperatorMain.members) = 8
        /\ DOMAIN OperatorMain.members = 1 .. 8
    BY DEF OperatorMain
  <2>3. {"instance_metrics_db", "app_metrics_db", "scaling_engine_db", "policy_db", "lock_db"}
          \subseteq Steps
    <3>1. /\ OperatorMain.setup[1] = "instance_metrics_db"
          /\ OperatorMain.setup[2] = "app_metrics_db"
          /\ OperatorMain.setup[3] = "scaling_engine_db"
          /\ OperatorMain.setup[5] = "policy_db"
          /\ OperatorMain.setup[8] = "lock_db"
      BY DEF OperatorMain
    <3> QED
      BY <3>1
  <2>4. ASSUME NEW m \in 1 .. 8
        PROVE  OperatorMain.uses[OperatorMain.members[m]]
                 \subseteq {"instance_metrics_db", "app_metrics_db", "scaling_engine_db",
                            "policy_db", "lock_db"}
    BY DEF OperatorMain
  <2> QED
    BY <2>1, <2>2, <2>3, <2>4
<1>8. CASE p = "scalingengine"
  BY <1>8 DEF Mains, ScalingEngineMain
<1> QED
  BY <1>1, <1>2, <1>3, <1>4, <1>5, <1>6, <1>7, <1>8 DEF ProgramNames

\* The members of a program are numbered.
LEMMA MembersAreNumbers ==
  ASSUME program \in ProgramNames
  PROVE  Members \subseteq Nat \ {0} /\ Len(Main.setup) \in Nat
BY UsesAreSetUp DEF Members, Main

LEMMA ProgStarts == ProgInit => ProgInvariant
<1> SUFFICES ASSUME ProgInit PROVE ProgInvariant
  OBVIOUS
<1>1. program \in ProgramNames /\ IsGiven(program, file)
  BY FilesAssumption DEF ProgInit, Started, IsGiven
<1>2. Len(Main.setup) \in Nat
  BY <1>1, MembersAreNumbers
<1>3. ProgTypeOK
  BY <1>1, <1>2 DEF ProgInit, Started, ProgTypeOK
<1> QED
  BY <1>3 DEF ProgInit, Started, ProgInvariant, PanicsAreOverlooked, OrderIsKept, Running

LEMMA ProgStep == ProgInvariant /\ [ProgNext]_progVars => ProgInvariant'
<1> SUFFICES ASSUME ProgInvariant, [ProgNext]_progVars PROVE ProgInvariant'
  OBVIOUS
<1>0. Members \subseteq Nat \ {0} /\ Len(Main.setup) \in Nat
  BY MembersAreNumbers DEF ProgInvariant, ProgTypeOK
<1>1. CASE LoadConfig
  <2>1. ProgTypeOK' /\ Main' = Main /\ Members' = Members
    BY <1>1 DEF LoadConfig, ProgInvariant, ProgTypeOK, Main, Members
  <2> QED
    BY <1>1, <2>1 DEF LoadConfig, ProgInvariant, PanicsAreOverlooked, OrderIsKept, Running
<1>2. CASE LoadConfigFails
  <2>1. ProgTypeOK' /\ Main' = Main /\ Members' = Members
    BY <1>2 DEF LoadConfigFails, Exit, ProgInvariant, ProgTypeOK, Main, Members
  <2> QED
    BY <1>2, <2>1 DEF LoadConfigFails, Exit, ProgInvariant, PanicsAreOverlooked, OrderIsKept, Running
<1>3. CASE Accept
  <2>1. ProgTypeOK' /\ Main' = Main /\ Members' = Members
    BY <1>3 DEF Accept, ProgInvariant, ProgTypeOK, Main, Members
  <2> QED
    BY <1>3, <2>1 DEF Accept, ProgInvariant, PanicsAreOverlooked, OrderIsKept, Running
<1>4. CASE Refuse
  <2>1. ProgTypeOK' /\ Main' = Main /\ Members' = Members
    BY <1>4 DEF Refuse, Exit, ProgInvariant, ProgTypeOK, Main, Members
  <2> QED
    BY <1>4, <2>1 DEF Refuse, Exit, ProgInvariant, PanicsAreOverlooked, OrderIsKept, Running
<1>5. CASE SetUp
  <2>1. ProgTypeOK' /\ Main' = Main /\ Members' = Members
    BY <1>0, <1>5 DEF SetUp, ProgInvariant, ProgTypeOK, Main, Members
  <2> QED
    BY <1>5, <2>1 DEF SetUp, ProgInvariant, PanicsAreOverlooked, OrderIsKept, Running
<1>6. CASE SetUpFails
  <2>1. ProgTypeOK' /\ Main' = Main /\ Members' = Members
    BY <1>6 DEF SetUpFails, Exit, ProgInvariant, ProgTypeOK, Main, Members
  <2> QED
    BY <1>6, <2>1 DEF SetUpFails, Exit, ProgInvariant, PanicsAreOverlooked, OrderIsKept, Running
<1>7. CASE Create
  <2>1. ProgTypeOK' /\ Main' = Main /\ Members' = Members
    BY <1>7 DEF Create, ProgInvariant, ProgTypeOK, Main, Members
  <2> QED
    BY <1>7, <2>1 DEF Create, ProgInvariant, PanicsAreOverlooked, OrderIsKept, Running
<1>8. ASSUME NEW m \in Members, StartMember(m) PROVE ProgInvariant'
  <2>1. ProgTypeOK' /\ Main' = Main /\ Members' = Members
    BY <1>8 DEF StartMember, ProgInvariant, ProgTypeOK, Main, Members
  <2>2. /\ done = Len(Main.setup)
        /\ \A k \in Members \ {m} : member'[k] = member[k]
        /\ member'[m] = "starting"
    BY <1>8 DEF StartMember, ProgInvariant, ProgTypeOK
  <2>3. OrderIsKept'
    <3> SUFFICES ASSUME NEW j \in Members, NEW k \in Members, k < j, Running(j)'
                 PROVE  member'[k] \in {"up", "failed"}
      BY <2>1 DEF OrderIsKept
    <3>1. CASE j = m
      BY <1>0, <1>8, <2>2, <3>1 DEF StartMember
    <3>2. CASE j # m
      <4>1. Running(j) /\ member[k] \in {"up", "failed"}
        BY <2>2, <3>2 DEF Running, ProgInvariant, OrderIsKept
      <4> QED
        BY <1>8, <2>2, <4>1 DEF StartMember
    <3> QED
      BY <3>1, <3>2
  <2> QED
    BY <1>8, <2>1, <2>2, <2>3 DEF StartMember, ProgInvariant, PanicsAreOverlooked
<1>9. ASSUME NEW m \in Members, Ready(m) PROVE ProgInvariant'
  <2>1. ProgTypeOK' /\ Main' = Main /\ Members' = Members
    BY <1>9 DEF Ready, ProgInvariant, ProgTypeOK, Main, Members
  <2>2. /\ done = Len(Main.setup)
        /\ \A k \in Members \ {m} : member'[k] = member[k]
        /\ member'[m] = "up" /\ member[m] = "starting"
    BY <1>9 DEF Ready, ProgInvariant, ProgTypeOK, Running
  <2>3. OrderIsKept'
    BY <2>1, <2>2 DEF OrderIsKept, ProgInvariant, Running
  <2> QED
    BY <1>9, <2>1, <2>2, <2>3 DEF Ready, ProgInvariant, PanicsAreOverlooked
<1>10. ASSUME NEW m \in Members, MemberFails(m) PROVE ProgInvariant'
  <2>1. ProgTypeOK' /\ Main' = Main /\ Members' = Members
    BY <1>10 DEF MemberFails, ProgInvariant, ProgTypeOK, Main, Members
  <2>2. /\ done = Len(Main.setup)
        /\ \A k \in Members \ {m} : member'[k] = member[k]
        /\ member'[m] = "failed"
    BY <1>10 DEF MemberFails, ProgInvariant, ProgTypeOK
  <2>3. OrderIsKept'
    BY <2>1, <2>2 DEF OrderIsKept, ProgInvariant, Running
  <2> QED
    BY <1>10, <2>1, <2>2, <2>3 DEF MemberFails, ProgInvariant, PanicsAreOverlooked
<1>11. ASSUME NEW m \in Members, StopMember(m) PROVE ProgInvariant'
  <2>1. ProgTypeOK' /\ Main' = Main /\ Members' = Members
    BY <1>11 DEF StopMember, ProgInvariant, ProgTypeOK, Main, Members
  <2>2. /\ done = Len(Main.setup)
        /\ \A k \in Members \ {m} : member'[k] = member[k]
        /\ member'[m] = "stopped"
        /\ \A k \in Members : k > m => ~Running(k)
    BY <1>11 DEF StopMember, ProgInvariant, ProgTypeOK
  <2>3. OrderIsKept'
    <3> SUFFICES ASSUME NEW j \in Members, NEW k \in Members, k < j, Running(j)'
                 PROVE  member'[k] \in {"up", "failed"}
      BY <2>1 DEF OrderIsKept
    <3>1. Running(j) /\ j # m
      BY <2>2 DEF Running
    <3>2. k # m
      BY <1>0, <2>2, <3>1
    <3> QED
      BY <2>2, <3>1, <3>2 DEF OrderIsKept, ProgInvariant
  <2> QED
    BY <1>11, <2>1, <2>2, <2>3 DEF StopMember, ProgInvariant, PanicsAreOverlooked
<1>12. ASSUME NEW moment, Panic(moment) PROVE ProgInvariant'
  <2>1. ProgTypeOK' /\ Main' = Main /\ Members' = Members
    BY <1>12 DEF Panic, ProgInvariant, ProgTypeOK, Main, Members
  <2>2. /\ Panics(program, conf, moment)
        /\ conf = Loaded(program, file)
        /\ Validate(program, conf) \/ moment = "validate"
    BY <1>12 DEF Panic, ProgInvariant
  <2>3. Overlooked(program, file, conf)
    BY <2>2, PanicIsOverlooked DEF ProgInvariant, ProgTypeOK
  <2>4. PanicsAreOverlooked'
    BY <1>12, <2>3 DEF Panic, PanicsAreOverlooked
  <2> QED
    BY <1>12, <2>1, <2>4 DEF Panic, ProgInvariant, OrderIsKept, Running
<1>13. CASE AllReady
  <2>1. ProgTypeOK' /\ Main' = Main /\ Members' = Members
    BY <1>13 DEF AllReady, ProgInvariant, ProgTypeOK, Main, Members
  <2> QED
    BY <1>13, <2>1 DEF AllReady, ProgInvariant, PanicsAreOverlooked, OrderIsKept, Running
<1>14. CASE Signal \/ Notice
  <2>1. ProgTypeOK' /\ Main' = Main /\ Members' = Members
    BY <1>14 DEF Signal, Notice, ProgInvariant, ProgTypeOK, Main, Members
  <2> QED
    BY <1>14, <2>1 DEF Signal, Notice, ProgInvariant, PanicsAreOverlooked, OrderIsKept, Running
<1>15. CASE GroupFails
  <2>1. ProgTypeOK' /\ Main' = Main /\ Members' = Members
    BY <1>15 DEF GroupFails, Exit, ProgInvariant, ProgTypeOK, Main, Members
  <2> QED
    BY <1>15, <2>1 DEF GroupFails, Exit, ProgInvariant, PanicsAreOverlooked, OrderIsKept, Running
<1>16. CASE Close
  <2>1. ProgTypeOK' /\ Main' = Main /\ Members' = Members
    BY <1>0, <1>16 DEF Close, ProgInvariant, ProgTypeOK, Main, Members
  <2> QED
    BY <1>16, <2>1 DEF Close, ProgInvariant, PanicsAreOverlooked, OrderIsKept, Running
<1>17. CASE MainReturns
  <2>1. ProgTypeOK' /\ Main' = Main /\ Members' = Members
    BY <1>17 DEF MainReturns, ProgInvariant, ProgTypeOK, Main, Members
  <2> QED
    BY <1>17, <2>1 DEF MainReturns, ProgInvariant, PanicsAreOverlooked, OrderIsKept, Running
<1>18. CASE UNCHANGED progVars
  BY <1>18 DEF progVars, ProgTypeOK, Main, Members, ProgInvariant, PanicsAreOverlooked, OrderIsKept,
               Running
<1> QED
  BY <1>1, <1>2, <1>3, <1>4, <1>5, <1>6, <1>7, <1>8, <1>9, <1>10, <1>11, <1>12, <1>13, <1>14,
     <1>15, <1>16, <1>17, <1>18 DEF ProgNext

\* A program panics only over an interval that Validate overlooks, or a
\* gateway over its missing certificates, for every configuration file.
THEOREM PanicsOnlyOverTheOverlooked == ProgSpec => []PanicsAreOverlooked
<1>1. ProgInvariant => PanicsAreOverlooked
  BY DEF ProgInvariant
<1> QED
  BY <1>1, ProgStarts, ProgStep, PTL DEF ProgSpec

\* A member never outlives the databases it uses.
THEOREM DatabasesStayOpen == ProgSpec => []ConnectionsOutliveMembers
<1>1. ProgInvariant => ConnectionsOutliveMembers
  <2> SUFFICES ASSUME ProgInvariant, NEW m \in Members, Running(m)
               PROVE  Uses(m) \subseteq Opened
    BY DEF ConnectionsOutliveMembers
  <2>1. done = Len(Main.setup) /\ program \in ProgramNames
    BY DEF ProgInvariant, ProgTypeOK
  <2> QED
    BY <2>1, UsesAreSetUp DEF Uses, Opened, Main, Members, Name
<1> QED
  BY <1>1, ProgStarts, ProgStep, PTL DEF ProgSpec

\* The members start one after the other and are stopped the other way round.
THEOREM MembersKeepTheirOrder == ProgSpec => []OrderIsKept
<1>1. ProgInvariant => OrderIsKept
  BY DEF ProgInvariant
<1> QED
  BY <1>1, ProgStarts, ProgStep, PTL DEF ProgSpec

-----------------------------------------------------------------------------
(* The cache of time series data, for any capacity and any data.           *)

\* The slot of a position.

Slot(i) == IF i < Capacity THEN i ELSE i - Capacity

LEMMA SlotOf ==
  ASSUME NEW i \in 0 .. 2 * Capacity - 1
  PROVE  i % Capacity = Slot(i) /\ Slot(i) \in 0 .. Capacity - 1
<1>1. CASE i < Capacity
  BY <1>1, CacheAssumption DEF Slot
<1>2. CASE ~(i < Capacity)
  BY <1>2, CacheAssumption DEF Slot
<1> QED
  BY <1>1, <1>2

LEMMA AtSlot ==
  ASSUME NEW i \in 0 .. 2 * Capacity - 1
  PROVE  At(i) = data[Slot(i)] /\ At(i)' = data'[Slot(i)]
BY SlotOf DEF At

\* The positions of the data, and that there are data.
LEMMA Positions ==
  ASSUME CacheInvariant
  PROVE  /\ First \in 0 .. Capacity - 1 /\ Last \in -1 .. 2 * Capacity - 2
         /\ First <= Last + 1 /\ (num = 0 <=> Last + 1 = First)
         /\ num = 0 => First = 0
         /\ \A i \in First .. Last : At(i) \in TSD
<1> USE CacheAssumption DEF CacheInvariant, CacheTypeOK, Filled
<1>1. CASE Full
  <2>1. First = cursor /\ Last = cursor - 1 + Capacity /\ num >= Capacity
    BY <1>1 DEF First, Last
  <2>2. ASSUME NEW i \in First .. Last
        PROVE  At(i) \in TSD
    <3>1. i \in 0 .. 2 * Capacity - 1
      BY <2>1
    <3>2. At(i) = data[Slot(i)] /\ Slot(i) \in 0 .. Capacity - 1
      BY <3>1, AtSlot, SlotOf
    <3> QED  BY <1>1, <3>2
  <2> QED  BY <2>1, <2>2
<1>2. CASE ~Full
  <2>1. First = 0 /\ Last = cursor - 1 /\ num = cursor
    BY <1>2 DEF First, Last
  <2>2. ASSUME NEW i \in First .. Last
        PROVE  At(i) \in TSD
    <3>1. i \in 0 .. 2 * Capacity - 1 /\ i < cursor
      BY <2>1
    <3>2. At(i) = data[i]
      BY <2>1, <3>1, AtSlot DEF Slot
    <3> QED  BY <2>1, <3>1, <3>2
  <2> QED  BY <2>1, <2>2
<1> QED
  BY <1>1, <1>2

\* A datum has a number for a timestamp.
LEMMA TimestampOf ==
  ASSUME NEW d \in TSD
  PROVE  d.timestamp \in Int /\ d.timestamp \in Timestamps /\ d.label \in Labels
BY CacheAssumption DEF TSD

-----------------------------------------------------------------------------
(* The search. *)

Bounds == (0 .. 2 * Capacity + 1) \X (-1 .. 2 * Capacity)

\* One step of the search for t within b, f being the search within less.
SearchStep(f, t, b) ==
  LET l == b[1]
      r == b[2]
      m == l + ((r - l) \div 2)
  IN  IF l > r THEN l
      ELSE IF t <= At(m).timestamp THEN f[<<l, m - 1>>]
      ELSE f[<<m + 1, r>>]

IsSearch(f, t) == f = [b \in Bounds |-> SearchStep(f, t, b)]

Search(t) == CHOOSE f : IsSearch(f, t)

LEMMA BinarySearchIsSearch ==
  ASSUME NEW t
  PROVE  BinarySearch(t) = IF num = 0 THEN 0 ELSE Search(t)[<<First, Last>>]
BY DEF BinarySearch, Search, IsSearch, SearchStep, Bounds

\* The middle is between the bounds.
LEMMA Middle ==
  ASSUME NEW b \in Bounds, b[1] <= b[2]
  PROVE  LET m == b[1] + ((b[2] - b[1]) \div 2)
         IN  /\ m \in b[1] .. b[2]
             /\ <<b[1], m - 1>> \in Bounds /\ <<m + 1, b[2]>> \in Bounds
             /\ (m - 1) - b[1] < b[2] - b[1] /\ b[2] - (m + 1) < b[2] - b[1]
<1> DEFINE m == b[1] + ((b[2] - b[1]) \div 2)
<1>1. /\ b[1] \in Int /\ b[2] \in Int /\ b[1] >= 0 /\ b[2] <= 2 * Capacity
      /\ Capacity \in Int
  BY CacheAssumption DEF Bounds
<1>2. (b[2] - b[1]) \div 2 \in 0 .. b[2] - b[1]
  BY <1>1
<1>3. m \in b[1] .. b[2]
  BY <1>1, <1>2
<1> HIDE DEF m
<1>4. /\ <<b[1], m - 1>> \in Bounds /\ <<m + 1, b[2]>> \in Bounds
      /\ (m - 1) - b[1] < b[2] - b[1] /\ b[2] - (m + 1) < b[2] - b[1]
  BY <1>1, <1>3 DEF Bounds
<1> QED
  BY <1>3, <1>4 DEF m

\* The search ends: there is a function that does what it does.
LEMMA SearchExists ==
  ASSUME NEW t
  PROVE  IsSearch(Search(t), t)
<1> DEFINE InRange(n) == {b \in Bounds : b[2] - b[1] < n}
           Works(f, n) == \A b \in InRange(n) : f[b] = SearchStep(f, t, b)
           Extents == {n \in Nat : \E f : Works(f, n)}
<1>1. 0 \in Extents
  <2> DEFINE f == [b \in Bounds |-> b[1]]
  <2>1. ASSUME NEW b \in InRange(0)
        PROVE  f[b] = SearchStep(f, t, b)
    <3>1. b[1] > b[2]
      BY CacheAssumption DEF Bounds
    <3> QED  BY <3>1 DEF SearchStep
  <2>2. Works(f, 0)
    BY <2>1
  <2> HIDE DEF f
  <2> QED  BY <2>2
<1>2. ASSUME NEW n \in Nat, n \in Extents
      PROVE  n + 1 \in Extents
  <2>1. PICK f : Works(f, n)
    BY <1>2
  <2> DEFINE g == [b \in Bounds |-> IF b \in InRange(n) THEN f[b] ELSE SearchStep(f, t, b)]
  <2>2. ASSUME NEW b \in InRange(n + 1)
        PROVE  g[b] = SearchStep(g, t, b)
    <3>0. b \in Bounds /\ b[1] \in Int /\ b[2] \in Int /\ b[2] - b[1] < n + 1
      BY CacheAssumption DEF Bounds
    <3>1. g[b] = SearchStep(f, t, b)
      BY <2>1, <3>0
    <3>2. \A c \in Bounds : c[2] - c[1] < n => g[c] = f[c]
      OBVIOUS
    <3> DEFINE m == b[1] + ((b[2] - b[1]) \div 2)
    <3>3. CASE b[1] <= b[2]
      <4>1. /\ <<b[1], m - 1>> \in Bounds /\ <<m + 1, b[2]>> \in Bounds
            /\ (m - 1) - b[1] < n /\ b[2] - (m + 1) < n
        <5>1. /\ m \in b[1] .. b[2]
              /\ <<b[1], m - 1>> \in Bounds /\ <<m + 1, b[2]>> \in Bounds
              /\ (m - 1) - b[1] < b[2] - b[1] /\ b[2] - (m + 1) < b[2] - b[1]
          BY <3>0, <3>3, Middle
        <5> HIDE DEF m
        <5>2. m \in Int
          BY <3>0, <5>1
        <5> QED  BY <3>0, <5>1, <5>2
      <4>2. g[<<b[1], m - 1>>] = f[<<b[1], m - 1>>] /\ g[<<m + 1, b[2]>>] = f[<<m + 1, b[2]>>]
        <5> HIDE DEF m, g
        <5> QED  BY <3>2, <4>1
      <4>3. SearchStep(g, t, b) = SearchStep(f, t, b)
        <5> HIDE DEF g
        <5> QED  BY <4>2 DEF SearchStep
      <4> QED  BY <3>1, <4>3
    <3>4. CASE ~(b[1] <= b[2])
      <4>1. b[1] > b[2]
        BY <3>0, <3>4
      <4>2. SearchStep(g, t, b) = b[1] /\ SearchStep(f, t, b) = b[1]
        BY <4>1 DEF SearchStep
      <4> QED  BY <3>1, <4>2
    <3> QED  BY <3>3, <3>4
  <2>3. Works(g, n + 1)
    BY <2>2
  <2> HIDE DEF g
  <2> QED  BY <2>3
<1>3. 2 * Capacity + 1 \in Extents
  <2>1. Nat \subseteq Extents
    <3> HIDE DEF Extents
    <3> QED  BY <1>1, <1>2, AllNaturals
  <2> HIDE DEF Extents
  <2> QED  BY <2>1, CacheAssumption
<1>4. PICK f : Works(f, 2 * Capacity + 1)
  BY <1>3
<1>5. \A b \in Bounds : f[b] = SearchStep(f, t, b)
  <2>1. \A b \in Bounds : b \in InRange(2 * Capacity + 1)
    BY CacheAssumption DEF Bounds
  <2> HIDE DEF InRange
  <2> QED  BY <1>4, <2>1
<1> DEFINE g == [b \in Bounds |-> f[b]]
<1>6. ASSUME NEW b \in Bounds
      PROVE  SearchStep(g, t, b) = SearchStep(f, t, b)
  <2>0. b[1] \in Int /\ b[2] \in Int
    BY CacheAssumption DEF Bounds
  <2>1. CASE b[1] <= b[2]
    <3> DEFINE m == b[1] + ((b[2] - b[1]) \div 2)
    <3>1. <<b[1], m - 1>> \in Bounds /\ <<m + 1, b[2]>> \in Bounds
      BY <2>1, Middle
    <3>2. g[<<b[1], m - 1>>] = f[<<b[1], m - 1>>] /\ g[<<m + 1, b[2]>>] = f[<<m + 1, b[2]>>]
      <4> HIDE DEF m
      <4> QED  BY <3>1
    <3> HIDE DEF g
    <3> QED  BY <3>2 DEF SearchStep
  <2>2. CASE ~(b[1] <= b[2])
    BY <2>0, <2>2 DEF SearchStep
  <2> QED  BY <2>1, <2>2
<1>7. g = [b \in Bounds |-> SearchStep(g, t, b)]
  <2>1. \A b \in Bounds : g[b] = SearchStep(g, t, b)
    BY <1>5, <1>6
  <2>2. g = [b \in Bounds |-> g[b]]
    OBVIOUS
  <2> HIDE DEF g
  <2> QED  BY <2>1, <2>2
<1>8. IsSearch(g, t)
  BY <1>7 DEF IsSearch
<1> HIDE DEF g
<1> QED
  BY <1>8 DEF Search

\* What the search has found out when it looks between b[1] and b[2].
Narrowed(t, b) ==
  /\ b[1] \in First .. Last + 1 /\ b[2] \in First - 1 .. Last /\ b[1] <= b[2] + 1
  /\ \A i \in First .. b[1] - 1 : At(i).timestamp < t
  /\ \A i \in b[2] + 1 .. Last : At(i).timestamp >= t

\* The first position whose datum is not older than t.
IsFirst(t, p) ==
  /\ p \in First .. Last + 1
  /\ \A i \in First .. p - 1 : At(i).timestamp < t
  /\ \A i \in p .. Last : At(i).timestamp >= t

LEMMA SearchFinds ==
  ASSUME CacheInvariant, NEW t \in Int, NEW b \in Bounds, Narrowed(t, b)
  PROVE  IsFirst(t, Search(t)[b])
<1> DEFINE Found(n) == \A c \in Bounds :
             Narrowed(t, c) /\ c[2] - c[1] < n => IsFirst(t, Search(t)[c])
           Extents == {n \in Nat : Found(n)}
<1>0. \A c \in Bounds : Search(t)[c] = SearchStep(Search(t), t, c)
  BY SearchExists DEF IsSearch
<1>1. 0 \in Extents
  <2> SUFFICES ASSUME NEW c \in Bounds, Narrowed(t, c), c[2] - c[1] < 0
               PROVE  IsFirst(t, Search(t)[c])
    OBVIOUS
  <2>1. c[1] \in Int /\ c[2] \in Int /\ c[1] > c[2] /\ c[1] = c[2] + 1
    BY CacheAssumption DEF Bounds, Narrowed
  <2>2. Search(t)[c] = c[1]
    BY <1>0, <2>1 DEF SearchStep
  <2> QED  BY <2>1, <2>2 DEF Narrowed, IsFirst
<1>2. ASSUME NEW n \in Nat, n \in Extents
      PROVE  n + 1 \in Extents
  <2> SUFFICES ASSUME NEW c \in Bounds, Narrowed(t, c), c[2] - c[1] < n + 1
               PROVE  IsFirst(t, Search(t)[c])
    OBVIOUS
  <2>0. c[1] \in Int /\ c[2] \in Int
    BY CacheAssumption DEF Bounds
  <2>1. CASE c[1] <= c[2]
    <3> DEFINE m == c[1] + ((c[2] - c[1]) \div 2)
    <3>1. /\ m \in c[1] .. c[2]
          /\ <<c[1], m - 1>> \in Bounds /\ <<m + 1, c[2]>> \in Bounds
          /\ (m - 1) - c[1] < c[2] - c[1] /\ c[2] - (m + 1) < c[2] - c[1]
      BY <2>1, Middle
    <3>2. Search(t)[c] = IF t <= At(m).timestamp THEN Search(t)[<<c[1], m - 1>>]
                         ELSE Search(t)[<<m + 1, c[2]>>]
      BY <1>0, <2>0, <2>1 DEF SearchStep
    <3> HIDE DEF m
    <3>3. /\ First \in Int /\ Last \in Int /\ m \in First .. Last /\ m \in Int
          /\ \A i \in First .. Last : At(i).timestamp \in Int
      <4>1. /\ First \in Int /\ Last \in Int /\ \A i \in First .. Last : At(i) \in TSD
        BY Positions, CacheAssumption
      <4>2. m \in First .. Last /\ m \in Int
        BY <2>0, <3>1, <4>1 DEF Narrowed
      <4> QED  BY <4>1, <4>2, TimestampOf
    <3>4. \A i, j \in First .. Last : i < j => At(i).timestamp <= At(j).timestamp
      BY DEF CacheInvariant, InOrder
    <3>5. CASE t <= At(m).timestamp
      <4>1. Narrowed(t, <<c[1], m - 1>>)
        <5>1. \A i \in m .. Last : At(i).timestamp >= t
          BY <3>3, <3>4, <3>5
        <5> QED  BY <2>0, <3>1, <3>3, <5>1 DEF Narrowed
      <4>2. (m - 1) - c[1] < n
        BY <2>0, <3>1, <3>3
      <4> QED  BY <1>2, <3>1, <3>2, <3>5, <4>1, <4>2
    <3>6. CASE ~(t <= At(m).timestamp)
      <4>1. Narrowed(t, <<m + 1, c[2]>>)
        <5>1. \A i \in First .. m : At(i).timestamp < t
          BY <3>3, <3>4, <3>6
        <5> QED  BY <2>0, <3>1, <3>3, <5>1 DEF Narrowed
      <4>2. c[2] - (m + 1) < n
        BY <2>0, <3>1, <3>3
      <4> QED  BY <1>2, <3>1, <3>2, <3>6, <4>1, <4>2
    <3> QED  BY <3>5, <3>6
  <2>2. CASE ~(c[1] <= c[2])
    <3>1. c[1] > c[2] /\ c[1] = c[2] + 1
      BY <2>0, <2>2 DEF Narrowed
    <3>2. Search(t)[c] = c[1]
      BY <1>0, <3>1 DEF SearchStep
    <3> QED  BY <2>0, <3>1, <3>2 DEF Narrowed, IsFirst
  <2> QED  BY <2>1, <2>2
<1>3. b[2] - b[1] + 2 * Capacity + 2 \in Nat /\ b[2] - b[1] \in Int
  BY CacheAssumption DEF Bounds
<1>4. Nat \subseteq Extents
  <2> HIDE DEF Extents
  <2> QED  BY <1>1, <1>2, AllNaturals
<1>5. PICK n \in Nat : b[2] - b[1] < n
  <2>1. CASE b[2] - b[1] \in Nat
    <3>1. b[2] - b[1] + 1 \in Nat /\ b[2] - b[1] < b[2] - b[1] + 1
      BY <2>1
    <3> QED  BY <3>1
  <2>2. CASE b[2] - b[1] < 0
    BY <2>2
  <2> QED  BY <1>3, <2>1, <2>2
<1> QED
  BY <1>4, <1>5

\* What is found is the first position of the data that are not older than t.
LEMMA BinarySearchFinds ==
  ASSUME CacheInvariant, NEW t \in Int
  PROVE  IsFirst(t, BinarySearch(t))
<1>1. /\ First \in 0 .. Capacity - 1 /\ Last \in -1 .. 2 * Capacity - 2
      /\ First <= Last + 1 /\ (num = 0 <=> Last + 1 = First)
      /\ num = 0 => First = 0
  BY Positions
<1>2. CASE num = 0
  <2>1. BinarySearch(t) = 0
    BY <1>2, BinarySearchIsSearch
  <2> QED  BY <1>1, <1>2, <2>1, CacheAssumption DEF IsFirst
<1>3. CASE num # 0
  <2>1. <<First, Last>> \in Bounds
    BY <1>1, CacheAssumption DEF Bounds
  <2>2. Narrowed(t, <<First, Last>>)
    BY <1>1, <1>3, CacheAssumption DEF Narrowed
  <2>3. BinarySearch(t) = Search(t)[<<First, Last>>]
    BY <1>3, BinarySearchIsSearch
  <2> QED  BY <2>1, <2>2, <2>3, SearchFinds
<1> QED
  BY <1>2, <1>3

-----------------------------------------------------------------------------
(* A datum is put. *)

\* The positions that are new when a datum takes one more slot: the oldest datum of a
\* full ring is given up.
NewFirst == IF Full THEN cursor + 1 ELSE 0

\* What is then at position p, if d is at pos.
New(d, pos, p) == IF p = pos THEN d ELSE IF p > pos THEN At(p - 1) ELSE At(p)

\* d has taken the position pos, and what is as old or older is before it.
Inserted(d, pos) ==
  /\ pos \in NewFirst .. Last + 1
  /\ \A i \in First .. pos - 1 : At(i).timestamp <= d.timestamp
  /\ \A i \in pos .. Last : At(i).timestamp >= d.timestamp
  /\ data' = [i \in 0 .. Capacity - 1 |-> data'[i]]
  /\ \A p \in NewFirst .. Last + 1 : data'[Slot(p)] = New(d, pos, p)
  /\ \A i \in 0 .. Capacity - 1 : ~Full /\ i > cursor => data'[i] = data[i]
  /\ cursor' = (cursor + 1) % Capacity
  /\ num' = num + 1 /\ d.number = num + 1
  /\ seen' = seen \cup {d}

\* The numbers that the following is about.
LEMMA Ends ==
  ASSUME CacheInvariant
  PROVE  /\ cursor \in 0 .. Capacity - 1 /\ Capacity \in Nat
         /\ First \in 0 .. Capacity - 1 /\ Last \in -1 .. 2 * Capacity - 2
         /\ NewFirst \in 0 .. Capacity /\ First <= NewFirst /\ NewFirst <= Last + 1
         /\ Full => First = cursor /\ NewFirst = cursor + 1 /\ Last = cursor - 1 + Capacity
         /\ ~Full => First = 0 /\ NewFirst = 0 /\ Last = cursor - 1
BY CacheAssumption DEF CacheInvariant, CacheTypeOK, First, Last, NewFirst

LEMMA NewIsDatum ==
  ASSUME CacheInvariant, NEW d \in TSD, NEW pos \in NewFirst .. Last + 1,
         NEW p \in NewFirst .. Last + 1
  PROVE  New(d, pos, p) \in TSD
<1>1. \A i \in First .. Last : At(i) \in TSD
  BY Positions
<1> QED
  BY <1>1, Ends DEF New

\* The data stay in order, ...
LEMMA NewInOrder ==
  ASSUME CacheInvariant, NEW d \in TSD, NEW pos, Inserted(d, pos),
         NEW p \in NewFirst .. Last + 1, NEW q \in NewFirst .. Last + 1, p < q
  PROVE  New(d, pos, p).timestamp <= New(d, pos, q).timestamp
<1>1. \A i \in First .. Last : At(i).timestamp \in Int
  BY Positions, TimestampOf
<1>2. \A i, j \in First .. Last : i < j => At(i).timestamp <= At(j).timestamp
  BY DEF CacheInvariant, InOrder
<1>3. d.timestamp \in Int
  BY TimestampOf
<1>4. /\ pos \in NewFirst .. Last + 1
      /\ \A i \in First .. pos - 1 : At(i).timestamp <= d.timestamp
      /\ \A i \in pos .. Last : At(i).timestamp >= d.timestamp
  BY DEF Inserted
<1>5. CASE p = pos
  BY <1>1, <1>3, <1>4, <1>5, Ends DEF New
<1>6. CASE q = pos
  BY <1>1, <1>3, <1>4, <1>6, Ends DEF New
<1>7. CASE p # pos /\ q # pos
  <2>1. PICK i \in First .. Last : New(d, pos, p) = At(i) /\ (i = p \/ i = p - 1) /\ (p < pos => i = p)
                                   /\ (p > pos => i = p - 1)
    BY <1>4, <1>7, Ends DEF New
  <2>2. PICK j \in First .. Last : New(d, pos, q) = At(j) /\ (q < pos => j = q)
                                   /\ (q > pos => j = q - 1)
    BY <1>4, <1>7, Ends DEF New
  <2>3. i < j
    BY <1>4, <1>7, <2>1, <2>2, Ends
  <2> QED  BY <1>2, <2>1, <2>2, <2>3
<1> QED
  BY <1>5, <1>6, <1>7

\* ... none of them is there twice, ...
LEMMA NewOnce ==
  ASSUME CacheInvariant, NEW d \in TSD, d \notin seen, NEW pos \in NewFirst .. Last + 1,
         NEW p \in NewFirst .. Last + 1, NEW q \in NewFirst .. Last + 1, p # q
  PROVE  New(d, pos, p) # New(d, pos, q)
<1>1. \A i, j \in First .. Last : i # j => At(i) # At(j)
  BY DEF CacheInvariant, EachOnce
<1>2. \A i \in First .. Last : At(i) # d
  BY DEF CacheInvariant, NothingElseDropped, Contents
<1>3. ASSUME NEW r \in NewFirst .. Last + 1, r # pos
      PROVE  /\ r > pos => r - 1 \in First .. Last /\ New(d, pos, r) = At(r - 1)
             /\ ~(r > pos) => r \in First .. Last /\ New(d, pos, r) = At(r)
  BY <1>3, Ends DEF New
<1>4. \A r \in NewFirst .. Last + 1 : r # pos => New(d, pos, r) # d
  BY <1>2, <1>3
<1>5. New(d, pos, pos) = d
  BY DEF New
<1>6. CASE p # pos /\ q # pos
  <2>1. p \in Int /\ q \in Int /\ pos \in Int
    BY Ends
  <2> QED  BY <1>1, <1>3, <1>6, <2>1
<1> QED
  BY <1>4, <1>5, <1>6

\* ... and where they are afterwards.
LEMMA NewPositions ==
  ASSUME CacheInvariant, NEW d \in TSD, NEW pos, Inserted(d, pos)
  PROVE  /\ cursor' \in 0 .. Capacity - 1
         /\ data' \in [0 .. Capacity - 1 -> TSD \cup {Nil}]
         /\ Full' <=> (Full \/ cursor + 1 = Capacity)
         /\ ~Full' => /\ cursor' = cursor + 1
                      /\ \A i \in 0 .. Capacity - 1 : data'[i] # Nil <=> i < cursor'
         /\ Full' => \A i \in 0 .. Capacity - 1 : data'[i] # Nil
         /\ \E s \in {0, Capacity} :
              /\ First' = NewFirst - s /\ Last' = Last + 1 - s
              /\ \A p \in NewFirst .. Last + 1 : At(p - s)' = New(d, pos, p)
<1>1. \A p \in NewFirst .. Last + 1 : New(d, pos, p) \in TSD /\ data'[Slot(p)] = New(d, pos, p)
  BY NewIsDatum DEF Inserted
<1>2. cursor' = IF cursor + 1 = Capacity THEN 0 ELSE cursor + 1
  <2>1. cursor + 1 \in 0 .. 2 * Capacity - 1
    BY Ends
  <2>2. cursor' = (cursor + 1) % Capacity
    BY DEF Inserted
  <2> QED  BY <2>1, <2>2, SlotOf, Ends DEF Slot
<1>3. cursor' \in 0 .. Capacity - 1
  BY <1>2, Ends
<1>4. ASSUME NEW i \in 0 .. Capacity - 1, Full \/ i <= cursor
      PROVE  data'[i] \in TSD
  <2>1. CASE i \in NewFirst .. Last + 1
    <3>1. Slot(i) = i
      BY Ends DEF Slot
    <3> QED  BY <1>1, <2>1, <3>1
  <2>2. CASE i \notin NewFirst .. Last + 1
    <3>1. i + Capacity \in NewFirst .. Last + 1 /\ Slot(i + Capacity) = i
      BY <1>4, <2>2, Ends DEF Slot
    <3> QED  BY <1>1, <3>1
  <2> QED  BY <2>1, <2>2
<1>5. ASSUME NEW i \in 0 .. Capacity - 1, ~(Full \/ i <= cursor)
      PROVE  data'[i] = Nil
  <2>1. i > cursor
    BY <1>5, Ends
  <2>2. data'[i] = data[i]
    BY <1>5, <2>1 DEF Inserted
  <2>3. ~(data[i] # Nil)
    BY <1>5, <2>1, Ends DEF CacheInvariant, Filled
  <2> QED  BY <2>2, <2>3
<1>6. data' \in [0 .. Capacity - 1 -> TSD \cup {Nil}]
  <2>1. \A i \in 0 .. Capacity - 1 : data'[i] \in TSD \cup {Nil}
    BY <1>4, <1>5
  <2> QED  BY <2>1 DEF Inserted
<1>7. Full' <=> (Full \/ cursor + 1 = Capacity)
  <2>1. CASE Full \/ cursor + 1 = Capacity
    <3>1. data'[cursor'] \in TSD
      BY <1>2, <1>3, <1>4, <2>1, Ends
    <3> QED  BY <2>1, <3>1, NilAssumption DEF Full
  <2>2. CASE ~(Full \/ cursor + 1 = Capacity)
    <3>1. data'[cursor'] = Nil
      BY <1>2, <1>3, <1>5, <2>2, Ends
    <3> QED  BY <2>2, <3>1 DEF Full
  <2> QED  BY <2>1, <2>2
<1>8. ~Full' => /\ cursor' = cursor + 1
                /\ \A i \in 0 .. Capacity - 1 : data'[i] # Nil <=> i < cursor'
  BY <1>2, <1>4, <1>5, <1>7, NilAssumption, Ends
<1>9. Full' => \A i \in 0 .. Capacity - 1 : data'[i] # Nil
  BY <1>2, <1>4, <1>7, NilAssumption, Ends
<1>10. PICK s \in {0, Capacity} : s = Capacity <=> (Full /\ cursor + 1 = Capacity)
  BY CacheAssumption
<1>11. First' = NewFirst - s /\ Last' = Last + 1 - s
  BY <1>2, <1>7, <1>10, Ends, CacheAssumption DEF First, Last
<1>12. ASSUME NEW p \in NewFirst .. Last + 1
       PROVE  At(p - s)' = New(d, pos, p)
  <2>1. p - s \in 0 .. 2 * Capacity - 1 /\ Slot(p - s) = Slot(p)
    BY <1>10, Ends, CacheAssumption DEF Slot
  <2>2. At(p - s)' = data'[Slot(p - s)]
    BY <2>1, AtSlot
  <2> QED  BY <1>1, <2>1, <2>2
<1>13. \E r \in {0, Capacity} :
         /\ First' = NewFirst - r /\ Last' = Last + 1 - r
         /\ \A p \in NewFirst .. Last + 1 : At(p - r)' = New(d, pos, p)
  BY <1>11, <1>12
<1> QED
  BY <1>3, <1>6, <1>7, <1>8, <1>9, <1>13, Zenon

\* The datum of a Put is new.
LEMMA SeenGrows ==
  ASSUME CacheInvariant, NEW d \in TSD, d.number = num + 1,
         num' = num + 1, seen' = seen \cup {d}
  PROVE  /\ d \notin seen
         /\ IsFiniteSet(seen') /\ Cardinality(seen') = num'
         /\ \A e \in seen' : e.number <= num'
<1>1. /\ IsFiniteSet(seen) /\ Cardinality(seen) = num /\ num \in Nat
      /\ \A e \in seen : e.number <= num /\ e.number \in Int
  BY CacheAssumption DEF CacheInvariant, CacheTypeOK, EachOnce, TSD
<1>2. d \notin seen
  BY <1>1
<1>3. IsFiniteSet(seen') /\ Cardinality(seen') = num + 1
  BY <1>1, <1>2, FS_AddElement
<1> QED
  BY <1>1, <1>2, <1>3

LEMMA InsertedKeeps ==
  ASSUME CacheInvariant, NEW d \in TSD, NEW pos, Inserted(d, pos), num < MaxPuts
  PROVE  CacheInvariant' /\ Contents' \subseteq Contents \cup {d}
<1>0. PICK s \in {0, Capacity} :
        /\ First' = NewFirst - s /\ Last' = Last + 1 - s
        /\ \A p \in NewFirst .. Last + 1 : At(p - s)' = New(d, pos, p)
  BY NewPositions
<1>1. /\ s \in Int /\ First' \in Int /\ Last' \in Int
      /\ pos \in NewFirst .. Last + 1
  <2>1. pos \in NewFirst .. Last + 1
    BY DEF Inserted
  <2> QED  BY <1>0, <2>1, Ends
<1>2. \A i \in First' .. Last' : i + s \in NewFirst .. Last + 1 /\ At(i)' = New(d, pos, i + s)
  <2> SUFFICES ASSUME NEW i \in First' .. Last'
               PROVE  i + s \in NewFirst .. Last + 1 /\ At(i)' = New(d, pos, i + s)
    OBVIOUS
  <2>1. i + s \in NewFirst .. Last + 1 /\ (i + s) - s = i
    BY <1>0, <1>1, Ends
  <2> QED  BY <1>0, <2>1
<1>3. CacheTypeOK'
  <2>1. num' \in 0 .. MaxPuts /\ seen' \subseteq TSD
    BY CacheAssumption DEF CacheInvariant, CacheTypeOK, Inserted
  <2> QED  BY <2>1, NewPositions DEF CacheTypeOK
<1>4. Filled'
  <2>1. num' = num + 1 /\ num \in Nat
        /\ IF Full THEN num >= Capacity ELSE num = cursor
    BY CacheAssumption DEF CacheInvariant, CacheTypeOK, Filled, Inserted
  <2>2. CASE Full'
    BY <2>1, <2>2, NewPositions, Ends DEF Filled
  <2>3. CASE ~Full'
    BY <2>1, <2>3, NewPositions, Ends DEF Filled
  <2> QED  BY <2>2, <2>3
<1>5. InOrder'
  <2> SUFFICES ASSUME NEW i \in First' .. Last', NEW j \in First' .. Last', i < j
               PROVE  At(i)'.timestamp <= At(j)'.timestamp
    BY DEF InOrder
  <2>1. i + s < j + s
    BY <1>1
  <2> QED  BY <1>2, <2>1, NewInOrder
<1>6. NothingElseDropped'
  <2>1. \A i \in First .. Last : At(i) \in seen
    BY DEF CacheInvariant, NothingElseDropped, Contents
  <2>2. ASSUME NEW p \in NewFirst .. Last + 1
        PROVE  New(d, pos, p) \in seen'
    <3>1. seen' = seen \cup {d}
      BY DEF Inserted
    <3>2. CASE p = pos
      BY <3>1, <3>2 DEF New
    <3>3. CASE p > pos
      <4>1. p - 1 \in First .. Last /\ p # pos
        BY <1>1, <3>3, Ends
      <4> QED  BY <2>1, <3>1, <3>3, <4>1 DEF New
    <3>4. CASE p < pos
      <4>1. p \in First .. Last /\ p # pos /\ ~(p > pos)
        BY <1>1, <3>4, Ends
      <4> QED  BY <2>1, <3>1, <4>1 DEF New
    <3> QED  BY <1>1, <3>2, <3>3, <3>4, Ends
  <2>3. Contents' \subseteq seen'
    BY <1>2, <2>2 DEF Contents
  <2>4. ASSUME NEW p \in NewFirst .. Last + 1
        PROVE  New(d, pos, p) \in Contents'
    <3>1. p - s \in First' .. Last'
      BY <1>0, <1>1, Ends
    <3> QED  BY <1>0, <3>1 DEF Contents
  <2>5. ASSUME Full
        PROVE  /\ Full'
               /\ At(First).timestamp <= At(First)'.timestamp
               /\ At(First).timestamp \in Int /\ At(First)'.timestamp \in Int
    <3>0. Full'
      BY <2>5, NewPositions
    <3>1. Full' /\ First' \in First' .. Last' /\ First' + s = NewFirst
      BY <1>0, <1>1, <3>0, Ends
    <3>2. At(First)' = New(d, pos, NewFirst)
      BY <1>2, <3>1
    <3>3. At(First) \in TSD /\ New(d, pos, NewFirst) \in TSD /\ First \in First .. Last
      BY <1>1, <2>5, Positions, NewIsDatum, Ends
    <3>4. At(First).timestamp <= New(d, pos, NewFirst).timestamp
      <4>1. CASE pos = NewFirst
        <5>1. First \in First .. pos - 1
          BY <2>5, <4>1, Ends
        <5> QED  BY <4>1, <5>1 DEF New, Inserted
      <4>2. CASE pos # NewFirst
        <5>1. New(d, pos, NewFirst) = At(NewFirst) /\ NewFirst \in First .. Last /\ First < NewFirst
          BY <1>1, <2>5, <4>2, Ends DEF New
        <5> QED  BY <3>3, <5>1 DEF CacheInvariant, InOrder
      <4> QED  BY <4>1, <4>2
    <3> QED  BY <3>1, <3>2, <3>3, <3>4, TimestampOf
  <2>6. ASSUME NEW e \in seen
        PROVE  e \in Contents' \/ (Full' /\ e.timestamp <= At(First)'.timestamp)
    <3>1. e.timestamp \in Int
      BY TimestampOf DEF CacheInvariant, CacheTypeOK
    <3>2. CASE Full /\ e.timestamp <= At(First).timestamp
      BY <2>5, <3>1, <3>2
    <3>3. ASSUME NEW i \in First .. Last, e = At(i)
          PROVE  e \in Contents' \/ (Full' /\ e.timestamp <= At(First)'.timestamp)
      <4>1. CASE i < NewFirst
        <5>1. Full /\ i = First
          BY <4>1, Ends
        <5> QED  BY <2>5, <3>3, <5>1
      <4>2. CASE i >= NewFirst /\ i < pos
        <5>1. i \in NewFirst .. Last + 1 /\ New(d, pos, i) = e
          BY <1>1, <3>3, <4>2, Ends DEF New
        <5> QED  BY <2>4, <5>1
      <4>3. CASE i >= NewFirst /\ ~(i < pos)
        <5>1. i + 1 \in NewFirst .. Last + 1 /\ New(d, pos, i + 1) = e
          BY <1>1, <3>3, <4>3, Ends DEF New
        <5> QED  BY <2>4, <5>1
      <4> QED  BY <4>1, <4>2, <4>3, Ends
    <3> QED  BY <3>2, <3>3 DEF CacheInvariant, NothingElseDropped, Contents
  <2>7. d \in Contents'
    BY <1>1, <2>4 DEF New
  <2> QED  BY <2>3, <2>6, <2>7 DEF NothingElseDropped, Inserted
<1>7. EachOnce'
  <2>1. IsFiniteSet(seen') /\ Cardinality(seen') = num' /\ d \notin seen
        /\ \A e \in seen' : e.number <= num'
    BY SeenGrows DEF Inserted
  <2>2. ASSUME NEW i \in First' .. Last', NEW j \in First' .. Last', i # j
        PROVE  At(i)' # At(j)'
    <3>1. i + s # j + s
      BY <1>1, <2>2
    <3> QED  BY <1>1, <1>2, <2>1, <3>1, NewOnce
  <2> QED  BY <2>1, <2>2 DEF EachOnce
<1>8. Contents' \subseteq Contents \cup {d}
  <2> SUFFICES ASSUME NEW p \in NewFirst .. Last + 1
               PROVE  New(d, pos, p) \in Contents \cup {d}
    BY <1>2 DEF Contents
  <2>1. p = pos \/ (p > pos /\ p - 1 \in First .. Last)
                \/ (p # pos /\ ~(p > pos) /\ p \in First .. Last)
    BY <1>1, Ends
  <2> QED  BY <2>1 DEF New, Contents
<1> QED
  BY <1>3, <1>4, <1>5, <1>6, <1>7, <1>8 DEF CacheInvariant

-----------------------------------------------------------------------------
\* The newest datum.
LEMMA NewestIsLast ==
  ASSUME CacheInvariant, num # 0
  PROVE  At(cursor - 1 + Capacity) = At(Last) /\ Last \in First .. Last /\ At(Last).timestamp \in Int
<1>1. Last \in First .. Last
  BY Positions, CacheAssumption
<1>2. ASSUME Full
      PROVE  At(cursor - 1 + Capacity) = At(Last)
  BY <1>2, Ends
<1>3. ASSUME ~Full
      PROVE  At(cursor - 1 + Capacity) = At(Last)
  <2>1. cursor > 0 /\ Last = cursor - 1 /\ cursor - 1 + Capacity \in 0 .. 2 * Capacity - 1
        /\ cursor - 1 \in 0 .. 2 * Capacity - 1
    BY <1>1, <1>3, Ends
  <2>2. Slot(cursor - 1 + Capacity) = Slot(cursor - 1)
    BY <2>1, Ends DEF Slot
  <2>3. At(cursor - 1 + Capacity) = data[Slot(cursor - 1 + Capacity)]
        /\ At(cursor - 1) = data[Slot(cursor - 1)]
    BY <2>1, AtSlot
  <2> QED  BY <2>1, <2>2, <2>3
<1>4. At(Last) \in TSD
  BY <1>1, Positions
<1> QED
  BY <1>1, <1>2, <1>3, <1>4, TimestampOf

LEMMA AtTheEndKeeps ==
  ASSUME CacheInvariant, NEW d \in TSD, AtTheEnd(d), num < MaxPuts,
         d.number = num + 1, num' = num + 1, seen' = seen \cup {d}
  PROVE  CacheInvariant' /\ Contents' \subseteq Contents \cup {d}
<1>1. \A i \in First .. Last : At(i).timestamp <= d.timestamp
  <2> SUFFICES ASSUME NEW i \in First .. Last PROVE At(i).timestamp <= d.timestamp
    OBVIOUS
  <2>1. num # 0 /\ First \in Int /\ Last \in Int
    BY Positions, CacheAssumption
  <2>2. At(Last).timestamp <= d.timestamp
    BY <2>1, NewestIsLast, TimestampOf DEF AtTheEnd, Late
  <2>3. At(i).timestamp <= At(Last).timestamp /\ At(i).timestamp \in Int
    <3>1. At(i).timestamp \in Int
      BY Positions, TimestampOf
    <3>2. i < Last \/ i = Last
      BY <2>1
    <3> QED  BY <2>1, <3>1, <3>2, NewestIsLast DEF CacheInvariant, InOrder
  <2> QED  BY <2>1, <2>2, <2>3, NewestIsLast, TimestampOf
<1>2. Last + 1 \in NewFirst .. Last + 1 /\ \A i \in (Last + 1) .. Last : FALSE
  BY Ends
<1>3. data' = [data EXCEPT ![cursor] = d] /\ data \in [0 .. Capacity - 1 -> TSD \cup {Nil}]
  BY DEF AtTheEnd, CacheInvariant, CacheTypeOK
<1>4. ASSUME NEW p \in NewFirst .. Last + 1
      PROVE  data'[Slot(p)] = New(d, Last + 1, p)
  <2>1. CASE p = Last + 1
    <3>1. Slot(p) = cursor
      BY <2>1, Ends DEF Slot
    <3> QED  BY <1>3, <2>1, <3>1, Ends DEF New
  <2>2. CASE p # Last + 1
    <3>1. p < Last + 1 /\ Slot(p) # cursor /\ p \in 0 .. 2 * Capacity - 1
      BY <2>2, Ends DEF Slot
    <3>2. At(p) = data[Slot(p)] /\ Slot(p) \in 0 .. Capacity - 1
      BY <3>1, AtSlot, SlotOf
    <3> QED  BY <1>3, <3>1, <3>2, Ends DEF New
  <2> QED  BY <2>1, <2>2
<1>5. Inserted(d, Last + 1)
  <2>1. First .. (Last + 1) - 1 = First .. Last
    BY Ends
  <2>2. \A i \in 0 .. Capacity - 1 : ~Full /\ i > cursor => data'[i] = data[i]
    BY <1>3, Ends
  <2>3. data' = [i \in 0 .. Capacity - 1 |-> data'[i]]
    BY <1>3
  <2> QED  BY <1>1, <1>2, <1>4, <2>1, <2>2, <2>3 DEF Inserted, AtTheEnd
<1> QED
  BY <1>5, InsertedKeeps

LEMMA InsertKeeps ==
  ASSUME CacheInvariant, NEW d \in TSD, Insert(d), num < MaxPuts,
         d.number = num + 1, num' = num + 1, seen' = seen \cup {d}
  PROVE  CacheInvariant' /\ Contents' \subseteq Contents \cup {d}
<1> DEFINE pos == BinarySearch(d.timestamp)
           end == IF Full THEN cursor + Capacity ELSE cursor
<1>1. IsFirst(d.timestamp, pos) /\ d.timestamp \in Int
  BY BinarySearchFinds, TimestampOf
<1>2. pos \in NewFirst .. Last + 1
  <2>1. pos \in First .. Last + 1 /\ ~(Full /\ pos = cursor)
    BY <1>1 DEF IsFirst, Insert
  <2> HIDE DEF pos
  <2> QED  BY <2>1, Ends
<1>3. \A i \in First .. Last : At(i).timestamp \in Int
  BY Positions, TimestampOf
<1>4. /\ \A i \in First .. pos - 1 : At(i).timestamp <= d.timestamp
      /\ \A i \in pos .. Last : At(i).timestamp >= d.timestamp
  <2> HIDE DEF pos
  <2>1. \A i \in First .. pos - 1 : i \in First .. Last
    BY <1>2, Ends
  <2> QED  BY <1>1, <1>3, <2>1 DEF IsFirst
<1>5. data' = [i \in 0 .. Capacity - 1 |->
                 IF i <= end - Capacity THEN New(d, pos, i + Capacity)
                 ELSE IF i <= end       THEN New(d, pos, i)
                 ELSE data[i]]
  BY DEF Insert, New
<1> HIDE DEF pos
<1>6. ASSUME NEW p \in NewFirst .. Last + 1
      PROVE  data'[Slot(p)] = New(d, pos, p)
  <2>1. p \in 0 .. 2 * Capacity - 1 /\ Slot(p) \in 0 .. Capacity - 1
    BY SlotOf, Ends
  <2>2. CASE p < Capacity
    BY <1>5, <2>1, <2>2, Ends DEF Slot
  <2>3. CASE ~(p < Capacity)
    <3>1. Slot(p) = p - Capacity /\ p - Capacity <= end - Capacity /\ (p - Capacity) + Capacity = p
      BY <2>1, <2>3, Ends DEF Slot
    <3> QED  BY <1>5, <2>1, <3>1
  <2> QED  BY <2>2, <2>3
<1>7. \A i \in 0 .. Capacity - 1 : ~Full /\ i > cursor => data'[i] = data[i]
  BY <1>5, Ends
<1>8. data' = [i \in 0 .. Capacity - 1 |-> data'[i]]
  BY <1>5
<1>9. Inserted(d, pos)
  BY <1>2, <1>4, <1>6, <1>7, <1>8 DEF Inserted, Insert
<1> QED
  BY <1>9, InsertedKeeps

LEMMA DropKeeps ==
  ASSUME CacheInvariant, NEW d \in TSD, Drop(d), num < MaxPuts,
         d.number = num + 1, num' = num + 1, seen' = seen \cup {d}
  PROVE  CacheInvariant' /\ Contents' \subseteq Contents \cup {d}
<1>1. Full /\ UNCHANGED <<data, cursor>> /\ First = cursor /\ First \in First .. Last
  BY Ends DEF Drop
<1>2. \A i : At(i)' = At(i)
  BY <1>1 DEF At
<1>3. First' = First /\ Last' = Last /\ Full' = Full /\ Contents' = Contents
  <2>1. First' = First /\ Last' = Last /\ (Full' <=> Full)
    BY <1>1 DEF First, Last, Full
  <2> QED  BY <1>1, <1>2, <2>1 DEF Contents, Full
<1>4. d.timestamp <= At(First).timestamp
  <2>1. IsFirst(d.timestamp, cursor) /\ d.timestamp \in Int
    BY BinarySearchFinds, TimestampOf DEF Drop
  <2>2. At(First).timestamp \in Int
    BY <1>1, Positions, TimestampOf
  <2> QED  BY <1>1, <2>1, <2>2 DEF IsFirst
<1>5. NothingElseDropped'
  BY <1>1, <1>2, <1>3, <1>4 DEF CacheInvariant, NothingElseDropped
<1>6. InOrder'
  BY <1>2, <1>3 DEF CacheInvariant, InOrder
<1>7. CacheTypeOK' /\ Filled'
  BY <1>1, <1>3, CacheAssumption, Ends DEF CacheInvariant, CacheTypeOK, Filled
<1>8. EachOnce'
  <2>1. \A i, j \in First' .. Last' : i # j => At(i)' # At(j)'
    BY <1>2, <1>3 DEF CacheInvariant, EachOnce
  <2> QED  BY <2>1, SeenGrows DEF EachOnce
<1> QED
  BY <1>3, <1>5, <1>6, <1>7, <1>8 DEF CacheInvariant

LEMMA PutKeeps ==
  ASSUME CacheInvariant, CacheNext
  PROVE  /\ CacheInvariant'
         /\ \E d \in TSD : /\ d \notin seen /\ seen' = seen \cup {d}
                           /\ Contents' \subseteq Contents \cup {d}
<1>1. PICK t \in Timestamps, l \in Labels :
        Put([timestamp |-> t, label |-> l, number |-> num + 1])
  BY DEF CacheNext
<1> DEFINE d == [timestamp |-> t, label |-> l, number |-> num + 1]
<1>2. d \in TSD /\ num < MaxPuts /\ d.number = num + 1
  BY CacheAssumption DEF CacheNext, TSD, CacheInvariant, CacheTypeOK
<1> HIDE DEF d
<1>3. Put(d)
  BY <1>1 DEF d
<1>4. CacheInvariant' /\ Contents' \subseteq Contents \cup {d}
  BY <1>2, <1>3, AtTheEndKeeps, DropKeeps, InsertKeeps DEF Put
<1>5. d \notin seen /\ seen' = seen \cup {d}
  BY <1>2, <1>3, SeenGrows DEF Put
<1> QED
  BY <1>2, <1>4, <1>5

\* The cache is in order, whatever is put and however late.
THEOREM CacheInvariantHolds == CacheSpec => []CacheInvariant
<1>1. CacheInit => CacheInvariant
  <2> SUFFICES ASSUME CacheInit PROVE CacheInvariant
    OBVIOUS
  <2>1. ~Full /\ First = 0 /\ Last = -1
    BY CacheAssumption DEF CacheInit, Full, First, Last
  <2>2. Contents = {}
    BY <2>1 DEF Contents
  <2>3. InOrder
    BY <2>1 DEF InOrder
  <2>4. Cardinality(seen) = 0 /\ IsFiniteSet(seen)
    BY FS_EmptySet DEF CacheInit
  <2> QED  BY <2>1, <2>2, <2>3, <2>4, CacheAssumption
           DEF CacheInit, CacheInvariant, CacheTypeOK, Filled, NothingElseDropped, EachOnce
<1>2. CacheInvariant /\ [CacheNext]_cacheVars => CacheInvariant'
  <2>1. ASSUME CacheInvariant, UNCHANGED cacheVars
        PROVE  CacheInvariant'
    BY <2>1 DEF cacheVars, CacheInvariant, CacheTypeOK, Filled, InOrder, NothingElseDropped,
       EachOnce, Contents, First, Last, Full, At
  <2>2. ASSUME CacheInvariant, CacheNext
        PROVE  CacheInvariant'
    BY <2>2, PutKeeps
  <2> QED  BY <2>1, <2>2
<1> QED
  BY <1>1, <1>2, PTL DEF CacheSpec

\* The data are ordered by their timestamps, from the oldest slot to the newest.
THEOREM CacheStaysInOrder == CacheSpec => []InOrder
<1>1. CacheInvariant => InOrder
  BY DEF CacheInvariant
<1> QED
  BY CacheInvariantHolds, <1>1, PTL

\* The search of Query and Put finds the first position that is not older.
THEOREM BinarySearchIsRight == CacheSpec => []SearchFindsFirst
<1>1. CacheInvariant => SearchFindsFirst
  <2> SUFFICES ASSUME CacheInvariant, NEW t \in Timestamps
               PROVE  IsFirst(t, BinarySearch(t))
    BY DEF SearchFindsFirst, IsFirst
  <2> QED  BY CacheAssumption, BinarySearchFinds
<1> QED
  BY CacheInvariantHolds, <1>1, PTL

\* The oldest datum.
LEMMA OldestIsFirst ==
  ASSUME CacheInvariant, num # 0
  PROVE  Oldest = At(First) /\ At(First).timestamp \in Int
<1>1. First \in First .. Last /\ First \in 0 .. Capacity - 1
  BY Positions, CacheAssumption
<1>2. At(First) = data[First]
  BY <1>1, AtSlot, CacheAssumption DEF Slot
<1>3. Oldest = data[First]
  BY Ends, CacheAssumption DEF Oldest, CacheInvariant, CacheTypeOK, Filled
<1> QED
  BY <1>1, <1>2, <1>3, Positions, TimestampOf

\* What a query with a hit leaves out is only what has the timestamp of the oldest datum.
THEOREM HitsAreAlmostComplete == CacheSpec => []HitIsAlmostComplete
<1>1. CacheInvariant => HitIsAlmostComplete
  <2> SUFFICES ASSUME CacheInvariant, NEW start \in Timestamps, NEW end \in Timestamps,
                      NEW label \in Labels, Hit(start)
               PROVE  /\ Result(start, end, label) \subseteq Asked(start, end, label)
                      /\ \A d \in Asked(start, end, label) :
                           d \in Result(start, end, label) \/ d.timestamp = Oldest.timestamp
    BY DEF HitIsAlmostComplete, QueryMetrics
  <2>0. start \in Int /\ end \in Int /\ num # 0 /\ First \in Int /\ Last \in Int
    BY CacheAssumption, Positions DEF Hit, CacheInvariant, CacheTypeOK
  <2> DEFINE from == BinarySearch(start)
             to == BinarySearch(end)
  <2>1. IsFirst(start, from) /\ IsFirst(end, to)
    BY <2>0, BinarySearchFinds
  <2> HIDE DEF from, to
  <2>2. \A i \in First .. Last : At(i) \in seen /\ At(i).timestamp \in Int
    BY Positions, TimestampOf DEF CacheInvariant, NothingElseDropped, Contents
  <2>3. ASSUME NEW i \in First .. Last
        PROVE  i \in from .. to - 1 <=> (At(i).timestamp >= start /\ At(i).timestamp < end)
    BY <2>0, <2>1, <2>2 DEF IsFirst
  <2>4. from .. to - 1 \subseteq First .. Last
    BY <2>0, <2>1 DEF IsFirst
  <2>5. Result(start, end, label) = {At(i) : i \in {j \in from .. to - 1 : At(j).label = label}}
    BY DEF Result, from, to
  <2>6. Result(start, end, label) \subseteq Asked(start, end, label)
    BY <2>2, <2>3, <2>4, <2>5 DEF Asked
  <2>7. ASSUME NEW d \in Asked(start, end, label)
        PROVE  d \in Result(start, end, label) \/ d.timestamp = Oldest.timestamp
    <3>1. CASE d \in Contents
      <4>1. PICK i \in First .. Last : d = At(i)
        BY <3>1 DEF Contents
      <4>2. i \in from .. to - 1 /\ At(i).label = label
        BY <2>3, <4>1 DEF Asked
      <4> QED  BY <2>5, <4>1, <4>2
    <3>2. CASE d.timestamp <= At(First).timestamp
      <4>1. d \in TSD /\ d.timestamp >= start
        BY DEF Asked, CacheInvariant, CacheTypeOK
      <4> QED  BY <2>0, <3>2, <4>1, OldestIsFirst, TimestampOf DEF Hit
    <3> QED  BY <3>1, <3>2 DEF Asked, CacheInvariant, NothingElseDropped
  <2> QED  BY <2>6, <2>7
<1> QED
  BY CacheInvariantHolds, <1>1, PTL

-----------------------------------------------------------------------------
(* The refinement. *)

LEMMA ContentsSize ==
  ASSUME CacheInvariant
  PROVE  Cardinality(Contents) = IF Full THEN Capacity ELSE num
<1> DEFINE at == [i \in First .. Last |-> At(i)]
<1>1. at \in Surjection(First .. Last, Contents)
  BY DEF Surjection, Contents
<1>2. at \in Injection(First .. Last, Contents)
  BY DEF Injection, IsInjective, Contents, CacheInvariant, EachOnce
<1>3. First \in Int /\ Last \in Int
  BY Positions, CacheAssumption
<1>4. /\ IsFiniteSet(First .. Last)
      /\ Cardinality(First .. Last) = IF First > Last THEN 0 ELSE Last - First + 1
  BY <1>3, FS_Interval
<1>5. Cardinality(Contents) = Cardinality(First .. Last)
  <2>1. ExistsBijection(First .. Last, Contents)
    BY <1>1, <1>2 DEF ExistsBijection, Bijection
  <2> QED  BY <1>4, <2>1, FS_Bijection
<1> QED
  BY <1>4, <1>5, Ends, CacheAssumption DEF CacheInvariant, CacheTypeOK, Filled

\* Cardinality is the same for both modules.
LEMMA SameCardinality ==
  ASSUME NEW S
  PROVE  Latest!Cardinality(S) = Cardinality(S)
BY DEF Latest!Cardinality, Cardinality

DataAreLatest == Latest!IsLatest(Contents, seen)

LEMMA InvariantIsLatest == CacheInvariant => DataAreLatest
<1> SUFFICES ASSUME CacheInvariant PROVE Latest!IsLatest(Contents, seen)
  BY DEF DataAreLatest
<1>1. Contents \subseteq seen
  BY DEF CacheInvariant, NothingElseDropped
<1>2. Cardinality(Contents) = IF Cardinality(seen) < Capacity THEN Cardinality(seen) ELSE Capacity
  <2>1. Cardinality(seen) = num /\ num \in Nat /\ Capacity \in Nat
        /\ IF Full THEN num >= Capacity ELSE num < Capacity
    BY Ends, CacheAssumption DEF CacheInvariant, CacheTypeOK, EachOnce, Filled
  <2> QED  BY <2>1, ContentsSize
<1>3. ASSUME NEW d \in seen \ Contents, NEW e \in Contents
      PROVE  d.timestamp <= e.timestamp
  <2>1. d.timestamp <= At(First).timestamp
    BY DEF CacheInvariant, NothingElseDropped
  <2>2. PICK i \in First .. Last : e = At(i)
    BY DEF Contents
  <2>3. First \in First .. Last /\ (First < i \/ First = i)
    BY <2>2, Ends
  <2>4. At(First).timestamp <= e.timestamp
    BY <2>2, <2>3, Positions, TimestampOf DEF CacheInvariant, InOrder
  <2>5. /\ d.timestamp \in Int /\ e.timestamp \in Int /\ At(First).timestamp \in Int
    BY <2>2, <2>3, Positions, TimestampOf DEF CacheInvariant, CacheTypeOK
  <2> QED  BY <2>1, <2>4, <2>5
<1> QED
  BY <1>1, <1>2, <1>3, SameCardinality DEF Latest!IsLatest, Latest!Room

\* The ring of any capacity keeps the latest of the data that were put, in whatever
\* order they came, and gives up no others: it implements LatestData.
THEOREM RingKeepsTheLatest == CacheSpec => KeepsTheLatest
<1>1. CacheInit => Latest!Init
  <2> SUFFICES ASSUME CacheInit PROVE seen = {} /\ Contents = {}
    BY DEF Latest!Init
  <2>1. First = 0 /\ Last = -1
    BY CacheAssumption DEF CacheInit, Full, First, Last
  <2> QED  BY <2>1 DEF Contents, CacheInit
<1>2. CacheInvariant /\ DataAreLatest' /\ [CacheNext]_cacheVars => [Latest!Next]_(Latest!vars)
  <2>1. ASSUME UNCHANGED cacheVars
        PROVE  UNCHANGED Latest!vars
    BY <2>1 DEF Latest!vars, cacheVars, Contents, First, Last, Full, At
  <2>2. ASSUME CacheInvariant, DataAreLatest', CacheNext
        PROVE  Latest!Next
    <3>1. PICK d \in TSD : /\ d \notin seen /\ seen' = seen \cup {d}
                           /\ Contents' \subseteq Contents \cup {d}
      BY <2>2, PutKeeps
    <3>2. Latest!IsLatest(Contents, seen)'
      BY <2>2 DEF DataAreLatest
    <3>3. Latest!Put(d)
      BY <3>1, <3>2 DEF Latest!Put, Latest!IsLatest, Latest!Room
    <3> QED  BY <3>3 DEF Latest!Next
  <2> QED  BY <2>1, <2>2
<1> QED
  BY <1>1, <1>2, CacheInvariantHolds, InvariantIsLatest, PTL
     DEF CacheSpec, KeepsTheLatest, Latest!Spec
=============================================================================
