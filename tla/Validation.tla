----------------------------- MODULE Validation -----------------------------
(***************************************************************************)
(* What a policy may say of schedules is decided twice: by the API         *)
(* (attributeValidator.js, schemaValidator.js), which answers the user,    *)
(* and again by the scheduler (ScheduleManager, DataValidationHelper),     *)
(* with algorithms of their own.  The jobs of the scheduler rely on        *)
(* schedules that do not overlap.                                          *)
(*                                                                         *)
(* Moments, dates and times of day are numbers; what a policy leaves out   *)
(* is None.  Days are sets.  Time zones and formats are left out.          *)
(***************************************************************************)
EXTENDS Integers, Sequences

CONSTANTS
  Specified,  \* the schedules that are checked, each [counts, specific, recurring]
  None,
  Now, Today,
  Dates,      \* the days of the calendar,
  Times       \* and the times of a day

ASSUME NoneAssumption == None \notin Int

\* 9999-12-31
LastDay == 99991231

\* What can be written in a policy: any of it may be left out.
Number == Int \cup {None}

PolicySchedules ==
  [counts    : [min : Number, max : Number, initial : Number],
   specific  : Seq([start : Number, end : Number]),
   recurring : Seq([startDate : Number, endDate : Number, startTime : Number,
                    endTime : Number, week : SUBSET Int, month : SUBSET Int])]

ASSUME SpecifiedAssumption ==
  /\ Specified \subseteq PolicySchedules
  /\ \A p \in Specified : \A i \in DOMAIN p.recurring :
       LET r == p.recurring[i]
       IN  /\ r.startDate # None => r.startDate < LastDay
           /\ r.endDate # None => r.endDate < LastDay

ASSUME CalendarAssumption ==
  /\ Now \in Int /\ Today \in 1 .. LastDay
  /\ Dates \subseteq Int /\ Times \subseteq Int

VARIABLE schedules

ValidationInit == schedules \in Specified

Given(x) == x # None

-----------------------------------------------------------------------------
(* The scheduler.                                                          *)

CountsValid(c) ==
  /\ Given(c.min) /\ Given(c.max)
  /\ c.min >= 0 /\ c.max > 0 /\ c.max > c.min
  /\ Given(c.initial) => c.initial >= 0

DateTimesValid(s) ==
  /\ Given(s.start) /\ Given(s.end)
  /\ s.start > Now /\ s.end > Now /\ s.end > s.start

\* mutant: the schedules are compared in the order of the policy.
SpecificOverlap_Unsorted(ss) ==
  \E i \in 1 .. Len(ss) - 1 :
    \/ ss[i].start = ss[i + 1].start
    \/ ss[i].start < ss[i + 1].start /\ ss[i].end >= ss[i + 1].start

\* p puts what starts earlier before what starts later.
Sorts(p, starts) ==
  /\ \A w \in DOMAIN starts : \E v \in DOMAIN starts : p[v] = w
  /\ \A i, j \in DOMAIN starts : i < j => starts[p[i]] <= starts[p[j]]

\* Schedules in the order of their starts, in any order those that start together.
Sorted(ss, starts) ==
  LET order == CHOOSE p \in [DOMAIN starts -> DOMAIN starts] : Sorts(p, starts)
  IN  [i \in 1 .. Len(ss) |-> ss[order[i]]]

\* Schedules are compared with the next one only.
SpecificOverlap(ss) ==
  LET sorted == Sorted(ss, [i \in 1 .. Len(ss) |-> ss[i].start])
  IN  \E i \in 1 .. Len(ss) - 1 :
        \/ sorted[i].start = sorted[i + 1].start
        \/ sorted[i].end >= sorted[i + 1].start

\* The days of a schedule are a set: that none of them is given twice is left out.
DaysWithin(days, last) == days \subseteq 1 .. last

DaysValid(r) ==
  /\ (r.week = {}) # (r.month = {})
  /\ DaysWithin(r.week, 7) /\ DaysWithin(r.month, 31)

DatesValid(r) ==
  /\ Given(r.startDate) => r.startDate >= Today
  /\ Given(r.endDate) => r.endDate >= Today
  /\ Given(r.startDate) /\ Given(r.endDate) => r.startDate <= r.endDate

TimesValid(r) == Given(r.startTime) /\ Given(r.endTime) /\ r.endTime > r.startTime

RecurringTimeValid(r) == DaysValid(r) /\ DatesValid(r) /\ TimesValid(r)

\* The first begins before the second and ends in it, as far as their dates are given.
DatesOverlapOneWay(first, second) ==
  \/ ~Given(first.startDate) /\ ~Given(first.endDate)
  \/ ~Given(second.startDate) /\ ~Given(second.endDate)
  \/ ~Given(first.startDate) /\ ~Given(second.startDate)
  \/ ~Given(first.endDate) /\ ~Given(second.endDate)
  \/ /\ Given(first.startDate) /\ ~Given(second.startDate) /\ Given(second.endDate)
     /\ first.startDate <= second.endDate
  \/ /\ Given(first.endDate) /\ Given(second.startDate) /\ ~Given(second.endDate)
     /\ first.endDate >= second.startDate
  \/ /\ Given(first.startDate) /\ Given(first.endDate)
     /\ Given(second.startDate) /\ Given(second.endDate)
     /\ first.startDate <= second.startDate /\ first.endDate >= second.startDate

\* mutant: only the dates of the schedule that starts earlier in the day are compared.
DatesOverlap_OneWay(r, s) == DatesOverlapOneWay(r, s)

DatesOverlap(r, s) == DatesOverlapOneWay(r, s) \/ DatesOverlapOneWay(s, r)

HasSameElement(days, others) == days \cap others # {}

TimesOverlap(r, s, days, others) ==
  /\ r.startTime = s.startTime \/ r.endTime >= s.startTime
  /\ HasSameElement(days, others)

\* Schedules are sorted by the time at which they start, and all pairs compared.
RecurringOverlap(rs) ==
  LET sorted == Sorted(rs, [i \in 1 .. Len(rs) |-> rs[i].startTime])
  IN  \E i, j \in 1 .. Len(rs) :
        LET r == sorted[i]
            s == sorted[j]
        IN  /\ i < j /\ DatesOverlap(r, s)
            /\ TimesOverlap(r, s, r.week, s.week) \/ TimesOverlap(r, s, r.month, s.month)

SchedulerAccepts(p) ==
  /\ CountsValid(p.counts)
  /\ \A i \in DOMAIN p.specific : DateTimesValid(p.specific[i])
  /\ \A i \in DOMAIN p.recurring : RecurringTimeValid(p.recurring[i])
  /\ ~SpecificOverlap(p.specific) /\ ~RecurringOverlap(p.recurring)

-----------------------------------------------------------------------------
(* The API.                                                                *)

CountsSchema(c) ==
  /\ Given(c.min) /\ Given(c.max) /\ c.min >= 1 /\ c.max >= 1
  /\ Given(c.initial) => c.initial >= 1

ApiCountsValid(c) ==
  /\ CountsSchema(c) /\ c.min < c.max
  /\ Given(c.initial) => c.initial >= c.min /\ c.initial <= c.max

SpecificDateSchema(s) == Given(s.start) /\ Given(s.end)

ApiSpecificValid(s) == SpecificDateSchema(s) /\ s.start < s.end

\* Ranges of moment-range that only touch do not overlap.
RangesOverlap(s, t) == s.start < t.end /\ t.start < s.end

ApiSpecificOverlap(ss) ==
  \E i, j \in 1 .. Len(ss) : i < j /\ RangesOverlap(ss[i], ss[j])

RecurringSchema(r) ==
  /\ Given(r.startTime) /\ Given(r.endTime)
  /\ (r.week = {}) # (r.month = {})
  /\ r.week \subseteq 1 .. 7 /\ r.month \subseteq 1 .. 31

ApiRecurringValid(r) ==
  /\ RecurringSchema(r) /\ r.startTime < r.endTime
  /\ Given(r.startDate) /\ Given(r.endDate) => r.startDate <= r.endDate

\* A date that is not given is the first day of all, or the last.
NormalizeStartDate(r) == IF Given(r.startDate) THEN r.startDate ELSE 0
NormalizeEndDate(r) == IF Given(r.endDate) THEN r.endDate ELSE LastDay

ApiRecurringOverlap(rs) ==
  \E i, j \in 1 .. Len(rs) :
    /\ i < j
    /\ rs[i].week \cap rs[j].week # {} \/ rs[i].month \cap rs[j].month # {}
    /\ rs[j].startTime <= rs[i].endTime /\ rs[j].endTime >= rs[i].startTime
    /\ NormalizeStartDate(rs[j]) <= NormalizeEndDate(rs[i])
    /\ NormalizeEndDate(rs[j]) >= NormalizeStartDate(rs[i])

ApiAccepts(p) ==
  /\ ApiCountsValid(p.counts)
  /\ \A i \in DOMAIN p.specific : ApiSpecificValid(p.specific[i])
  /\ \A i \in DOMAIN p.recurring : ApiRecurringValid(p.recurring[i])
  /\ ~ApiSpecificOverlap(p.specific) /\ ~ApiRecurringOverlap(p.recurring)

-----------------------------------------------------------------------------

\* The reference definition: when a schedule applies.
AppliesOn(r, d) ==
  /\ Given(r.startDate) => r.startDate <= d
  /\ Given(r.endDate) => d <= r.endDate
  /\ (d % 7) + 1 \in r.week \/ d \in r.month

Apply(r, d, t) == AppliesOn(r, d) /\ r.startTime <= t /\ t <= r.endTime

SameKind(r, s) == (r.week = {}) = (s.week = {})

\* Of the schedules that the scheduler accepts no two of a kind apply at the same time:
\* for dates, for days of the week, or for days of the month.  (It does not compare
\* schedules of different kinds.)
AcceptedNeverOverlap ==
  SchedulerAccepts(schedules) =>
    LET ss == schedules.specific
        rs == schedules.recurring
    IN  /\ \A i, j \in DOMAIN ss : i # j => ss[i].end < ss[j].start \/ ss[j].end < ss[i].start
        /\ \A i, j \in DOMAIN rs : i < j /\ SameKind(rs[i], rs[j]) =>
             ~\E d \in Dates, t \in Times : Apply(rs[i], d, t) /\ Apply(rs[j], d, t)

Future ==
  /\ \A i \in DOMAIN schedules.specific :
       LET s == schedules.specific[i] IN Given(s.start) => s.start > Now
  /\ \A i \in DOMAIN schedules.recurring :
       LET r == schedules.recurring[i]
       IN  /\ Given(r.startDate) => r.startDate >= Today
           /\ Given(r.endDate) => r.endDate >= Today

Touch ==
  LET ss == schedules.specific
  IN  \E i, j \in DOMAIN ss : i # j /\ Given(ss[i].end) /\ ss[i].end = ss[j].start

\* The two validations agree on all schedules of the future with counts that the API
\* accepts, but for dates that only touch: those the scheduler refuses.
ValidatorsAgree ==
  Future /\ ApiCountsValid(schedules.counts) /\ ~Touch
    => (ApiAccepts(schedules) <=> SchedulerAccepts(schedules))
=============================================================================
