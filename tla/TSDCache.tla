------------------------------ MODULE TSDCache ------------------------------
(***************************************************************************)
(* The cache of time series data of an app (collection/TSDCache.go), which *)
(* the metrics collector, the metrics server and the event generator ask   *)
(* before they ask the database: a ring of the latest data, sorted by      *)
(* timestamp from the slot of the cursor on.  Put and Query run under a    *)
(* lock; data may arrive out of order, and several with one timestamp (all *)
(* the instances of an app are sampled at once).                           *)
(***************************************************************************)
EXTENDS Integers, FiniteSets

CONSTANTS
  Capacity,
  Timestamps,
  Labels,      \* a datum has one of them
  MaxPuts,     \* bound of the history
  Nil          \* an empty slot

ASSUME CacheAssumption ==
  /\ Capacity \in Nat \ {0}
  /\ Timestamps \subseteq Int
  /\ MaxPuts \in Nat

VARIABLES
  data, cursor, num,
  seen         \* history: every datum that was ever put

cacheVars == <<data, cursor, num, seen>>

\* The number of the Put that brought a datum tells it from others.
TSD == [timestamp : Timestamps, label : Labels, number : 1 .. MaxPuts]

ASSUME NilAssumption == Nil \notin TSD

CacheInit ==
  /\ data = [i \in 0 .. Capacity - 1 |-> Nil]
  /\ cursor = 0
  /\ num = 0
  /\ seen = {}
-----------------------------------------------------------------------------
At(i) == data[i % Capacity]

Full == data[cursor] # Nil

\* The positions of the data, oldest first; they may run past the end of the ring.
First == IF Full THEN cursor ELSE 0
Last == IF Full THEN cursor - 1 + Capacity ELSE cursor - 1

\* mutant: the search stops when the bounds meet.
BinarySearch_Short(t) ==
  LET f[bounds \in (0 .. 2 * Capacity + 1) \X (-1 .. 2 * Capacity)] ==
        LET l == bounds[1]
            r == bounds[2]
            m == l + ((r - l) \div 2)
        IN  IF l >= r THEN l
            ELSE IF t <= At(m).timestamp THEN f[<<l, m - 1>>]
            ELSE f[<<m + 1, r>>]
  IN  IF num = 0 THEN 0 ELSE f[<<First, Last>>]

BinarySearch(t) ==
  LET f[bounds \in (0 .. 2 * Capacity + 1) \X (-1 .. 2 * Capacity)] ==
        LET l == bounds[1]
            r == bounds[2]
            m == l + ((r - l) \div 2)
        IN  IF l > r THEN l
            ELSE IF t <= At(m).timestamp THEN f[<<l, m - 1>>]
            ELSE f[<<m + 1, r>>]
  IN  IF num = 0 THEN 0 ELSE f[<<First, Last>>]

\* Older than the newest datum of the cache.
Late(d) == IF num = 0 THEN FALSE ELSE d.timestamp < At(cursor - 1 + Capacity).timestamp

\* A datum that is not older than the newest one takes the slot of the cursor.
AtTheEnd(d) ==
  /\ ~Late(d)
  /\ data' = [data EXCEPT ![cursor] = d]
  /\ cursor' = (cursor + 1) % Capacity

\* One that is older than everything in a full cache is not kept.
Drop(d) ==
  /\ Late(d) /\ Full /\ BinarySearch(d.timestamp) = cursor
  /\ UNCHANGED <<data, cursor>>

\* mutant: the shift leaves the newest datum where it is.
Insert_ShortShift(d) ==
  LET pos == BinarySearch(d.timestamp)
      end == IF Full THEN cursor + Capacity - 1 ELSE cursor
      Shifted(p) == IF p = pos THEN d ELSE IF p > pos THEN At(p - 1) ELSE At(p)
  IN  /\ Late(d) /\ ~(Full /\ pos = cursor)
      /\ data' = [ i \in 0 .. Capacity - 1 |->
                     IF i <= end - Capacity THEN Shifted(i + Capacity)
                     ELSE IF i <= end       THEN Shifted(i)
                     ELSE data[i] ]
      /\ cursor' = (cursor + 1) % Capacity

\* Any other late datum is inserted: the data from its position on move up by one
\* slot, the newest one into the slot of the cursor.
Insert(d) ==
  LET pos == BinarySearch(d.timestamp)
      end == IF Full THEN cursor + Capacity ELSE cursor
      Shifted(p) == IF p = pos THEN d ELSE IF p > pos THEN At(p - 1) ELSE At(p)
  IN  /\ Late(d) /\ ~(Full /\ pos = cursor)
      /\ data' = [ i \in 0 .. Capacity - 1 |->
                     IF i <= end - Capacity THEN Shifted(i + Capacity)
                     ELSE IF i <= end       THEN Shifted(i)
                     ELSE data[i] ]
      /\ cursor' = (cursor + 1) % Capacity

Put(d) ==
  /\ AtTheEnd(d) \/ Drop(d) \/ Insert(d)
  /\ num' = num + 1
  /\ seen' = seen \cup {d}

CacheNext ==
  /\ num < MaxPuts
  /\ \E t \in Timestamps, l \in Labels :
       Put([timestamp |-> t, label |-> l, number |-> num + 1])

CacheSpec == CacheInit /\ [][CacheNext]_cacheVars
-----------------------------------------------------------------------------
(* Query *)

Oldest == IF num < Capacity THEN data[0] ELSE data[cursor]

\* The data with a label and a timestamp in [start, end).
Result(start, end, label) ==
  {At(i) : i \in {j \in BinarySearch(start) .. BinarySearch(end) - 1 :
                    At(j).label = label}}

\* mutant: a hit as soon as there are data.
Hit_Always(start) == num > 0

Hit(start) == num > 0 /\ Oldest.timestamp <= start

\* What the database has: every datum is saved there, too.
Asked(start, end, label) ==
  {d \in seen : d.timestamp >= start /\ d.timestamp < end /\ d.label = label}

\* The database is asked if the cache may not have all.
QueryMetrics(start, end, label) ==
  IF Hit(start) THEN Result(start, end, label) ELSE Asked(start, end, label)
-----------------------------------------------------------------------------
(* Properties *)

\* Data that come out of order are kept in order: this is what binarySearch and
\* Query rely on.
InOrder ==
  \A i, j \in First .. Last :
    i < j => At(i).timestamp <= At(j).timestamp

\* The reference definition of the search: the first position whose datum is not
\* older than t.
SearchFindsFirst ==
  \A t \in Timestamps :
    LET p == BinarySearch(t)
    IN  /\ p \in First .. Last + 1
        /\ \A i \in First .. p - 1 : At(i).timestamp < t
        /\ \A i \in p .. Last : At(i).timestamp >= t

\* A query is answered with all the data that were ever put in [start, end); but if it
\* is answered from the cache, some as old as the oldest datum there may be missing.
HitIsAlmostComplete ==
  \A start, end \in Timestamps, label \in Labels :
    /\ QueryMetrics(start, end, label) \subseteq Asked(start, end, label)
    /\ \A d \in Asked(start, end, label) :
         \/ d \in QueryMetrics(start, end, label)
         \/ Hit(start) /\ d.timestamp = Oldest.timestamp

CacheTypeOK ==
  /\ data \in [0 .. Capacity - 1 -> TSD \cup {Nil}]
  /\ cursor \in 0 .. Capacity - 1
  /\ num \in 0 .. MaxPuts
  /\ seen \subseteq TSD

\* The slots before the cursor have data, and the others when all have been used.
Filled ==
  /\ \A i \in 0 .. Capacity - 1 : data[i] # Nil <=> (Full \/ i < cursor)
  /\ IF Full THEN num >= Capacity ELSE num = cursor

Contents == {At(i) : i \in First .. Last}

\* Only what is not younger than the oldest datum has been dropped.
NothingElseDropped ==
  /\ Contents \subseteq seen
  /\ \A d \in seen : d \in Contents \/ (Full /\ d.timestamp <= At(First).timestamp)

\* Nothing is in the ring twice.
EachOnce ==
  /\ IsFiniteSet(seen) /\ Cardinality(seen) = num
  /\ \A d \in seen : d.number <= num
  /\ \A i, j \in First .. Last : i # j => At(i) # At(j)

CacheInvariant == CacheTypeOK /\ Filled /\ InOrder /\ NothingElseDropped /\ EachOnce

Latest == INSTANCE LatestData WITH Data <- TSD, all <- seen, kept <- Contents

\* The ring implements the cache of the latest data.
KeepsTheLatest == Latest!Spec
=============================================================================
