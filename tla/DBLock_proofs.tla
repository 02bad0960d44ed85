---------------------------- MODULE DBLock_proofs ----------------------------
(***************************************************************************)
(* Proofs about DBLock, for any number of nodes, any ttl and any number of *)
(* failures of the database.                                               *)
(***************************************************************************)
EXTENDS DBLock, TLAPS

\* The age above which ages are not counted is a natural number.
LEMMA OldNat == Old \in Nat /\ Ttl \in Nat /\ MaxDelay \in Nat /\ MaxFaults \in Nat
BY LeaseAssumption DEF Old

\* A row is not the absence of one.
LEMMA RowIsNotNoRow ==
  ASSUME NEW r \in [owner : Node, age : 0 .. Old]
  PROVE  r # NoRow
BY OldNat, RowAssumption

\* Whatever a Lock call returns, the maintainer goes on or exits.
LEMMA LockReturnsTypeOK ==
  ASSUME TypeOK, NEW n \in Node, Live(n), NEW err, NEW d, LockReturns(n, err, d)
  PROVE  /\ fresh' \subseteq Node /\ active' \subseteq Node
         /\ pc' \in [Node -> { "off", "Begin", "Body", "Select", "Release",
                               "Exit", "dead" }]
         /\ \A m \in active' : Live(m)'
BY DEF LockReturns, GoTo, Live, TypeOK

\* An attempt that fails is repeated twice at most.
LEMMA AttemptFailsTypeOK ==
  ASSUME TypeOK, NEW n \in Node, Live(n), NEW d, AttemptFails(n, d)
  PROVE  /\ fresh' \subseteq Node /\ active' \subseteq Node
         /\ pc' \in [Node -> { "off", "Begin", "Body", "Select", "Release",
                               "Exit", "dead" }]
         /\ \A m \in active' : Live(m)'
         /\ attempts' \in [Node -> 0 .. 2]
<1>1. CASE /\ attempts[n] < 2 /\ GoTo(n, "Begin")
           /\ attempts' = [attempts EXCEPT ![n] = @ + 1]
           /\ UNCHANGED <<fresh, active>>
  BY <1>1 DEF GoTo, Live, TypeOK
<1>2. CASE LockReturns(n, "error", d) /\ UNCHANGED attempts
  BY <1>2, LockReturnsTypeOK DEF TypeOK
<1> QED
  BY <1>1, <1>2 DEF AttemptFails

\* The bound on the failures is respected.
LEMMA FaultTypeOK ==
  ASSUME TypeOK, NEW kind, Fault(kind)
  PROVE  faults' \in 0 .. MaxFaults
BY OldNat DEF Fault, TypeOK

\* Begin keeps the types.
LEMMA BeginTypeOK ==
  ASSUME TypeOK, NEW n \in Node, Begin(n)
  PROVE  TypeOK'
<1>1. Live(n)
  BY DEF Begin, Live
<1>2. CASE Fault("Begin") /\ AttemptFails(n, denied) /\ UNCHANGED txAge
  BY <1>1, <1>2, AttemptFailsTypeOK, FaultTypeOK DEF Begin, TypeOK
<1>3. CASE /\ GoTo(n, "Body") /\ txAge' = [txAge EXCEPT ![n] = 0]
           /\ UNCHANGED <<attempts, fresh, active, faults>>
  BY <1>1, <1>3, OldNat DEF Begin, GoTo, Live, TypeOK
<1> QED
  BY <1>2, <1>3 DEF Begin

\* Body keeps the types.
LEMMA BodyTypeOK ==
  ASSUME TypeOK, NEW n \in Node, Body(n)
  PROVE  TypeOK'
<1>1. Live(n) /\ UNCHANGED <<signalled, txAge>>
  BY DEF Body, Live
<1>2. Write(n) => row' \in [owner : Node, age : 0 .. Old]
  BY DEF Write, TypeOK
<1>3. OnTime(n) => lastLock' \in [Node -> 0 .. Old]
  BY DEF OnTime, TypeOK
<1>4. ASSUME NEW d, LockReturns(n, "nil", d), denied' \subseteq Node, OnTime(n),
             Write(n) \/ UNCHANGED row, UNCHANGED <<attempts, faults>>
      PROVE  TypeOK'
  BY <1>1, <1>2, <1>3, <1>4, LockReturnsTypeOK DEF TypeOK
<1>5. ASSUME NEW d, AttemptFails(n, d), denied' \subseteq Node,
             Write(n) \/ UNCHANGED row, UNCHANGED lastLock, NEW k, Fault(k)
      PROVE  TypeOK'
  BY <1>1, <1>2, <1>5, AttemptFailsTypeOK, FaultTypeOK DEF TypeOK
<1>6. denied' \subseteq Node
  BY DEF Body, TypeOK
<1> QED
  BY <1>4, <1>5, <1>6 DEF Body

\* Every step keeps the types.
LEMMA NextTypeOK == TypeOK /\ [Next]_vars => TypeOK'
<1> SUFFICES ASSUME TypeOK, [Next]_vars PROVE TypeOK'
  OBVIOUS
<1>1. ASSUME NEW n \in Node, Retry(n) \/ Start(n) PROVE TypeOK'
  BY <1>1, OldNat DEF Retry, Start, CallLock, GoTo, Live, TypeOK
<1>2. ASSUME NEW n \in Node, Interrupt(n) \/ ReceiveSignal(n) PROVE TypeOK'
  BY <1>2 DEF Interrupt, ReceiveSignal, GoTo, Live, TypeOK
<1>3. ASSUME NEW n \in Node, Release(n) PROVE TypeOK'
  BY <1>3, FaultTypeOK DEF Release, GoTo, Live, TypeOK
<1>4. ASSUME NEW n \in Node, End(n) PROVE TypeOK'
  BY <1>4 DEF End, GoTo, Live, TypeOK
<1>5. CASE Tick
  <2>1. \A a \in 0 .. Old : Older(a) \in 0 .. Old
    BY OldNat DEF Older
  <2>2. row' \in [owner : Node, age : 0 .. Old] \cup {NoRow}
    BY <1>5, <2>1 DEF Tick, TypeOK
  <2>3. txAge' \in [Node -> 0 .. Old] /\ lastLock' \in [Node -> 0 .. Old]
    BY <1>5, <2>1 DEF Tick, TypeOK
  <2> QED
    BY <1>5, <2>2, <2>3 DEF Tick, Live, TypeOK
<1>6. CASE UNCHANGED vars
  BY <1>6 DEF vars, Live, TypeOK
<1> QED
  BY <1>1, <1>2, <1>3, <1>4, <1>5, <1>6, BeginTypeOK, BodyTypeOK
     DEF Next, Work, Exit, Crash

\* The variables of the lock keep their types: no transaction is attempted more
\* than three times and the members of no dead process run.
THEOREM TypeCorrect == Spec => []TypeOK
<1>1. Init => TypeOK
  BY OldNat DEF Init, Live, TypeOK
<1> QED
  BY <1>1, NextTypeOK, PTL DEF Spec
-----------------------------------------------------------------------------
\* A lease is taken from its owner only after its time, or because the owner gave
\* it up, however late the nodes are and whatever fails.
THEOREM LeasesAreRespected == Spec => LeaseIsRespected
<1>1. TypeOK /\ [Next]_vars =>
        (row # NoRow /\ (row' = NoRow \/ row'.owner # row.owner)
           => \/ row.age > Ttl
              \/ row' = NoRow /\ pc[row.owner] = "Release")
  <2> SUFFICES ASSUME TypeOK, [Next]_vars, row # NoRow,
                      row' = NoRow \/ row'.owner # row.owner
               PROVE  \/ row.age > Ttl
                      \/ row' = NoRow /\ pc[row.owner] = "Release"
    OBVIOUS
  <2>1. row \in [owner : Node, age : 0 .. Old]
    BY DEF TypeOK
  <2>2. ASSUME NEW n \in Node, Body(n), row' # row PROVE row.age > Ttl
    <3>1. Grantable(n) /\ Write(n)
      BY <2>2 DEF Body
    <3>2. txAge[n] \in 0 .. Old
      BY DEF TypeOK
    <3>3. [owner |-> n, age |-> txAge[n]] # NoRow
      BY <3>2, RowIsNotNoRow
    <3>4. row.owner # n
      BY <3>1, <3>3 DEF Write
    <3>5. row.age - txAge[n] > Ttl
      BY <3>1, <3>4 DEF Grantable, Expired
    <3> QED
      BY <3>2, <3>5, <2>1, OldNat
  <2>3. ASSUME NEW n \in Node, Release(n), row' # row
        PROVE  row' = NoRow /\ pc[row.owner] = "Release"
    BY <2>3 DEF Release
  <2>4. CASE Tick
    <3>1. row' = [row EXCEPT !.age = Older(@)]
      BY <2>4 DEF Tick
    <3>2. row' \in [owner : Node, age : 0 .. Old] /\ row'.owner = row.owner
      BY <3>1, <2>1, OldNat DEF Older
    <3> QED
      BY <3>2, RowIsNotNoRow
  <2>5. row' # row
    OBVIOUS
  <2> QED
    BY <2>2, <2>3, <2>4, <2>5
       DEF Next, Work, Begin, Retry, Exit, ReceiveSignal, Start, Interrupt,
           Crash, End, vars
<1> QED
  BY <1>1, TypeCorrect, PTL DEF LeaseIsRespected, Spec
-----------------------------------------------------------------------------
(***************************************************************************)
(* The inductive invariant behind ActiveOwnsLock: the row of an active     *)
(* node is as young as its last Lock call, and no live node is late.  The  *)
(* lease is then never expired for anybody else, however old the           *)
(* transaction is in which another node looks at it.                       *)
(***************************************************************************)
NobodyIsLate == \A n \in Node : Live(n) => lastLock[n] <= MaxDelay

LeaseIsYoung ==
  \A n \in active :
    pc[n] # "Exit" => row # NoRow /\ row.owner = n /\ row.age <= lastLock[n]

\* A transaction that is under way has not started before the last call.
TransactionsAreYoung ==
  \A n \in Node : pc[n] = "Body" => txAge[n] <= lastLock[n]

LeaseInvariant == NobodyIsLate /\ LeaseIsYoung /\ TransactionsAreYoung

\* Nobody else can be granted the lock of an active node.
LEMMA OwnerIsSafe ==
  ASSUME TypeOK, LeaseInvariant, RenewsInTime, NEW n \in active, pc[n] # "Exit",
         NEW m \in Node, Grantable(m)
  PROVE  m = n
<1>1. /\ row # NoRow /\ row.owner = n /\ row.age <= lastLock[n]
      /\ lastLock[n] <= MaxDelay
  BY DEF LeaseInvariant, LeaseIsYoung, NobodyIsLate, TypeOK
<1>2. /\ row.age \in 0 .. Old /\ txAge[m] \in 0 .. Old
      /\ lastLock[n] \in 0 .. Old
  BY <1>1 DEF TypeOK
<1>3. ~Expired(m)
  BY <1>1, <1>2, OldNat DEF Expired, RenewsInTime
<1> QED
  BY <1>1, <1>3 DEF Grantable

\* A step that changes neither the row nor any age, makes nobody active and lets
\* nobody begin a transaction or come to life.
LEMMA QuietStep ==
  ASSUME TypeOK, LeaseInvariant, UNCHANGED <<row, txAge, lastLock>>,
         active' \subseteq active,
         \A n \in Node : Live(n)' => Live(n),
         \A n \in active' : pc'[n] # "Exit" => pc[n] # "Exit",
         \A n \in Node : pc'[n] = "Body" => pc[n] = "Body"
  PROVE  LeaseInvariant'
<1>1. NobodyIsLate'
  BY DEF LeaseInvariant, NobodyIsLate, Live
<1>2. LeaseIsYoung'
  BY DEF LeaseInvariant, LeaseIsYoung
<1>3. TransactionsAreYoung'
  BY DEF LeaseInvariant, TransactionsAreYoung
<1> QED
  BY <1>1, <1>2, <1>3 DEF LeaseInvariant

\* The transaction of a node that has looked at the row without failing.
LEMMA AnsweredInvariant ==
  ASSUME TypeOK, LeaseInvariant, RenewsInTime, NEW n \in Node, pc[n] = "Body",
         \/ Grantable(n) /\ Write(n) /\ denied' = denied
         \/ ~Grantable(n) /\ UNCHANGED row /\ denied' = denied \cup {n},
         LockReturns(n, "nil", denied'), OnTime(n), UNCHANGED txAge
  PROVE  LeaseInvariant'
<1>1. pc' = [pc EXCEPT ![n] = "Select"] /\ active' \subseteq active \cup {n}
      /\ (n \in denied' => active' = active)
  BY DEF LockReturns, GoTo
<1>2. Live(n) /\ txAge[n] <= lastLock[n] /\ lastLock[n] <= MaxDelay
      /\ txAge[n] \in 0 .. Old /\ lastLock[n] \in 0 .. Old
  BY DEF LeaseInvariant, TransactionsAreYoung, NobodyIsLate, Live, TypeOK
<1>3. lastLock'[n] = txAge[n] /\ \A m \in Node \ {n} : lastLock'[m] = lastLock[m]
  BY DEF OnTime, TypeOK
<1>4. NobodyIsLate'
  BY <1>1, <1>2, <1>3, OldNat DEF LeaseInvariant, NobodyIsLate, Live, TypeOK
<1>5. TransactionsAreYoung'
  BY <1>1, <1>3 DEF LeaseInvariant, TransactionsAreYoung, TypeOK
<1>6. ASSUME NEW m \in active', pc'[m] # "Exit"
      PROVE  row' # NoRow /\ row'.owner = m /\ row'.age <= lastLock'[m]
  <2>0. m \in Node
    BY <1>1 DEF TypeOK
  <2>1. CASE Grantable(n) /\ Write(n)
    <3>1. row' # NoRow /\ row'.owner = n /\ row'.age = txAge[n]
      BY <2>1, <1>2, RowIsNotNoRow DEF Write
    <3>2. m = n
      <4>1. CASE m # n
        <5>1. m \in active /\ pc[m] # "Exit"
          BY <1>1, <1>6, <4>1, <2>0 DEF TypeOK
        <5> QED
          BY <5>1, <2>1, OwnerIsSafe
      <4> QED
        BY <4>1
    <3> QED
      BY <3>1, <3>2, <1>2, <1>3, OldNat
  <2>2. CASE ~Grantable(n) /\ UNCHANGED row /\ denied' = denied \cup {n}
    <3>1. m \in active
      BY <1>1, <1>6, <2>2
    <3>2. m # n
      <4> SUFFICES ASSUME m = n PROVE FALSE
        OBVIOUS
      <4>1. row # NoRow /\ row.owner = n
        BY <3>1 DEF LeaseInvariant, LeaseIsYoung
      <4> QED
        BY <4>1, <2>2 DEF Grantable
    <3>3. pc[m] # "Exit"
      BY <1>1, <1>6, <3>2, <2>0 DEF TypeOK
    <3> QED
      BY <3>1, <3>2, <3>3, <2>0, <2>2, <1>3 DEF LeaseInvariant, LeaseIsYoung
  <2> QED
    BY <2>1, <2>2
<1>7. LeaseIsYoung'
  BY <1>6 DEF LeaseIsYoung
<1> QED
  BY <1>4, <1>5, <1>7 DEF LeaseInvariant

\* An attempt that fails with isLockAcquired set to false makes nobody active.
LEMMA FailedInvariant ==
  ASSUME TypeOK, LeaseInvariant, NEW n \in Node, pc[n] = "Body",
         NEW d, n \in d, AttemptFails(n, d), UNCHANGED <<row, txAge, lastLock>>
  PROVE  LeaseInvariant'
<1>1. active' = active /\ \E l \in {"Begin", "Select", "Release"} :
                            pc' = [pc EXCEPT ![n] = l]
  BY DEF AttemptFails, LockReturns, GoTo
<1> QED
  BY <1>1, QuietStep DEF Live, TypeOK

\* Time passes for the row and for its owner alike.
LEMMA TickInvariant ==
  ASSUME TypeOK, LeaseInvariant, Tick
  PROVE  LeaseInvariant'
<1>1. UNCHANGED <<pc, active>>
  BY DEF Tick
<1>2. /\ \A n \in Node : lastLock'[n] = IF Live(n) THEN Older(lastLock[n])
                                                    ELSE lastLock[n]
      /\ \A n \in Node : txAge'[n] = IF pc[n] = "Body" THEN Older(txAge[n])
                                                      ELSE txAge[n]
  BY DEF Tick
<1>3. ASSUME NEW a \in 0 .. Old, NEW b \in 0 .. Old, a <= b
      PROVE  Older(a) <= Older(b)
  BY <1>3, OldNat DEF Older
<1>4. NobodyIsLate'
  <2> SUFFICES ASSUME NEW n \in Node, Live(n)' PROVE lastLock'[n] <= MaxDelay
    BY DEF NobodyIsLate, Live
  <2>1. Live(n) /\ lastLock[n] < MaxDelay /\ lastLock[n] \in 0 .. Old
    BY <1>1 DEF Live, Tick, TypeOK
  <2> QED
    BY <2>1, <1>2, OldNat DEF Older
<1>5. TransactionsAreYoung'
  <2> SUFFICES ASSUME NEW n \in Node, pc'[n] = "Body" PROVE txAge'[n] <= lastLock'[n]
    BY DEF TransactionsAreYoung
  <2>1. pc[n] = "Body" /\ Live(n) /\ txAge[n] <= lastLock[n]
        /\ txAge[n] \in 0 .. Old /\ lastLock[n] \in 0 .. Old
    BY <1>1 DEF LeaseInvariant, TransactionsAreYoung, Live, TypeOK
  <2> QED
    BY <2>1, <1>2, <1>3
<1>6. LeaseIsYoung'
  <2> SUFFICES ASSUME NEW n \in active, pc[n] # "Exit"
               PROVE  row' # NoRow /\ row'.owner = n /\ row'.age <= lastLock'[n]
    BY <1>1 DEF LeaseIsYoung
  <2>1. /\ row # NoRow /\ row.owner = n /\ row.age <= lastLock[n]
        /\ n \in Node /\ Live(n) /\ lastLock[n] \in 0 .. Old
    BY DEF LeaseInvariant, LeaseIsYoung, TypeOK
  <2>2. row \in [owner : Node, age : 0 .. Old]
    BY <2>1 DEF TypeOK
  <2>3. row' = [row EXCEPT !.age = Older(@)]
    BY <2>1 DEF Tick
  <2>4. row' \in [owner : Node, age : 0 .. Old] /\ row'.owner = n
        /\ row'.age = Older(row.age)
    BY <2>1, <2>2, <2>3, OldNat DEF Older
  <2>5. Older(row.age) <= Older(lastLock[n])
    BY <2>1, <2>2, <1>3
  <2> QED
    BY <2>1, <2>4, <2>5, <1>2, RowIsNotNoRow
<1> QED
  BY <1>4, <1>5, <1>6 DEF LeaseInvariant

\* Every step keeps the lease of an active node young.
LEMMA NextInvariant ==
  ASSUME RenewsInTime, StartsKnowing, TypeOK, LeaseInvariant, [Next]_vars
  PROVE  LeaseInvariant'
<1>1. ASSUME NEW n \in Node, Begin(n) PROVE LeaseInvariant'
  <2>1. /\ pc[n] = "Begin" /\ pc' = [pc EXCEPT ![n] = "Body"]
        /\ txAge' = [txAge EXCEPT ![n] = 0]
        /\ UNCHANGED <<row, active, lastLock>>
    BY <1>1 DEF Begin, Fault, StartsKnowing, GoTo
  <2>2. NobodyIsLate'
    BY <2>1 DEF LeaseInvariant, NobodyIsLate, Live, TypeOK
  <2>3. LeaseIsYoung'
    BY <2>1 DEF LeaseInvariant, LeaseIsYoung, TypeOK
  <2>4. TransactionsAreYoung'
    BY <2>1, OldNat DEF LeaseInvariant, TransactionsAreYoung, TypeOK
  <2> QED
    BY <2>2, <2>3, <2>4 DEF LeaseInvariant
<1>2. ASSUME NEW n \in Node, Body(n) PROVE LeaseInvariant'
  <2>1. pc[n] = "Body" /\ UNCHANGED txAge /\ ~Fault("Commit")
    BY <1>2 DEF Body, Fault, StartsKnowing
  <2>2. CASE Fault("Statement") /\ denied' = denied \cup {n}
             /\ AttemptFails(n, denied') /\ UNCHANGED <<row, lastLock>>
    BY <2>1, <2>2, FailedInvariant
  <2>3. CASE Grantable(n) /\ Write(n) /\ LockReturns(n, "nil", denied)
             /\ OnTime(n) /\ UNCHANGED denied
    BY <2>1, <2>3, AnsweredInvariant
  <2>4. CASE ~Grantable(n) /\ denied' = denied \cup {n}
             /\ LockReturns(n, "nil", denied') /\ OnTime(n) /\ UNCHANGED row
    BY <2>1, <2>4, AnsweredInvariant
  <2> QED
    BY <1>2, <2>1, <2>2, <2>3, <2>4 DEF Body
<1>3. ASSUME NEW n \in Node, Retry(n) PROVE LeaseInvariant'
  BY <1>3, QuietStep DEF Retry, CallLock, GoTo, Live, TypeOK
<1>4. ASSUME NEW n \in Node, Start(n) PROVE LeaseInvariant'
  <2>1. /\ pc[n] = "off" /\ pc' = [pc EXCEPT ![n] = "Begin"]
        /\ lastLock' = [lastLock EXCEPT ![n] = 0]
        /\ UNCHANGED <<row, active, txAge>>
    BY <1>4 DEF Start, CallLock, GoTo
  <2>2. n \notin active
    BY <2>1 DEF Live, TypeOK
  <2>3. NobodyIsLate'
    BY <2>1, OldNat DEF LeaseInvariant, NobodyIsLate, Live, TypeOK
  <2>4. LeaseIsYoung'
    BY <2>1, <2>2 DEF LeaseInvariant, LeaseIsYoung, TypeOK
  <2>5. TransactionsAreYoung'
    BY <2>1 DEF LeaseInvariant, TransactionsAreYoung, TypeOK
  <2> QED
    BY <2>3, <2>4, <2>5 DEF LeaseInvariant
<1>5. ASSUME NEW n \in Node, Interrupt(n) \/ ReceiveSignal(n) \/ End(n)
      PROVE  LeaseInvariant'
  BY <1>5, QuietStep DEF Interrupt, ReceiveSignal, End, GoTo, Live, TypeOK
<1>6. ASSUME NEW n \in Node, Release(n) PROVE LeaseInvariant'
  <2>1. /\ pc[n] = "Release" /\ pc' = [pc EXCEPT ![n] = "Exit"]
        /\ row' = row \/ row.owner = n
        /\ UNCHANGED <<active, txAge, lastLock>>
    BY <1>6 DEF Release, GoTo
  <2>2. NobodyIsLate'
    BY <2>1 DEF LeaseInvariant, NobodyIsLate, Live, TypeOK
  <2>3. LeaseIsYoung'
    <3> SUFFICES ASSUME NEW m \in active, pc'[m] # "Exit"
                 PROVE  row' # NoRow /\ row'.owner = m /\ row'.age <= lastLock[m]
      BY <2>1 DEF LeaseIsYoung
    <3>1. m # n /\ pc[m] # "Exit"
      BY <2>1 DEF TypeOK
    <3>2. row # NoRow /\ row.owner = m /\ row.age <= lastLock[m]
      BY <3>1 DEF LeaseInvariant, LeaseIsYoung
    <3> QED
      BY <2>1, <3>1, <3>2
  <2>4. TransactionsAreYoung'
    BY <2>1 DEF LeaseInvariant, TransactionsAreYoung, TypeOK
  <2> QED
    BY <2>2, <2>3, <2>4 DEF LeaseInvariant
<1>7. CASE UNCHANGED vars
  BY <1>7, QuietStep DEF vars, Live
<1> QED
  BY <1>1, <1>2, <1>3, <1>4, <1>5, <1>6, <1>7, TickInvariant
     DEF Next, Work, Exit, Crash

\* While the members of a node run, the row is the node's: if nodes renew their
\* leases in time and no first call of Lock fails where it leaves isLockAcquired
\* true.
THEOREM ActiveOwns ==
  ASSUME RenewsInTime, StartsKnowing
  PROVE  Spec => []ActiveOwnsLock
<1>1. Init => LeaseInvariant
  BY DEF Init, LeaseInvariant, NobodyIsLate, LeaseIsYoung, TransactionsAreYoung, Live
<1>2. TypeOK /\ LeaseInvariant /\ [Next]_vars => LeaseInvariant'
  BY NextInvariant
<1>3. LeaseInvariant => ActiveOwnsLock
  BY DEF LeaseInvariant, LeaseIsYoung, ActiveOwnsLock
<1> QED
  BY <1>1, <1>2, <1>3, TypeCorrect, PTL DEF Spec

\* So the members of two nodes never run at a time.
THEOREM OneNodeActive ==
  ASSUME RenewsInTime, StartsKnowing
  PROVE  Spec => []OneActive
<1>1. ActiveOwnsLock => OneActive
  BY DEF ActiveOwnsLock, OneActive
<1> QED
  BY <1>1, ActiveOwns, PTL
=============================================================================
