------------------------------- MODULE DBLock -------------------------------
(***************************************************************************)
(* The lock in the database that keeps all but one instance of the         *)
(* operator on standby (db/sqldb/lock_sqldb.go, sync/dblock.go and the     *)
(* group of processes of operator/cmd/operator/main.go).                   *)
(*                                                                         *)
(* The lock is a lease: a row with its owner and the time of its last      *)
(* renewal.  A node is one process of the operator, from its start to its  *)
(* end (a process that starts again draws a new guid and is another node). *)
(* Its lock maintainer calls Lock, and again at every tick; the members    *)
(* that do the operator's work are started when it says it is ready.       *)
(*                                                                         *)
(* Time is kept as ages: the age of the row's timestamp and, for every     *)
(* node, of the start of its transaction and of its last Lock call.        *)
(* Postgres' NOW() is the time the transaction started, and a transaction  *)
(* may wait for the table: what it reads and writes is that old.           *)
(***************************************************************************)
EXTENDS Integers

CONSTANTS
  Node,
  Ttl,       \* of the lease
  MaxDelay,  \* a live node completes a Lock call before its last is older
  Failing,   \* what may fail, see Faults
  MaxFaults, \* bound on the failures of the database
  NoRow

\* "Statement" is an error of a statement of the transaction; a commit may fail
\* after it took effect; "Crash" ends a process.
Faults == {"Begin", "Statement", "Commit", "Release", "Crash"}

ASSUME LeaseAssumption ==
  /\ Ttl \in Nat /\ MaxDelay \in Nat /\ MaxFaults \in Nat
  /\ Failing \subseteq Faults

ASSUME RowAssumption == NoRow \notin [owner : Node, age : Nat]

\* No age above this one makes a difference.
Old == Ttl + MaxDelay + 1

VARIABLES
  row,        \* the only row of operator_lock
  pc,
  attempts,   \* of the transaction of a Lock call that failed so far
  denied,     \* the nodes whose Lock call has set isLockAcquired to false
  fresh,      \* the nodes that have not returned from their first Lock call
  active,     \* the nodes whose members run
  signalled,  \* the nodes that are asked to stop
  txAge,      \* the age of each node's transaction
  lastLock,   \* the age of the transaction of its last Lock call without error
  faults      \* how many failures of the database there were

vars == <<row, pc, attempts, denied, fresh, active, signalled, txAge, lastLock,
          faults>>

Live(n) == pc[n] \notin {"off", "dead"}

TypeOK ==
  /\ row \in [owner : Node, age : 0 .. Old] \cup {NoRow}
  /\ pc \in [Node -> {"off", "Begin", "Body", "Select", "Release", "Exit", "dead"}]
  /\ attempts \in [Node -> 0 .. 2]
  /\ denied \subseteq Node /\ fresh \subseteq Node
  /\ active \subseteq Node /\ signalled \subseteq Node
  /\ txAge \in [Node -> 0 .. Old]
  /\ lastLock \in [Node -> 0 .. Old]
  /\ faults \in 0 .. MaxFaults
  /\ \A n \in active : Live(n)

Init ==
  /\ row = NoRow
  /\ pc = [n \in Node |-> "off"]
  /\ attempts = [n \in Node |-> 0]
  /\ denied = {}
  /\ fresh = Node
  /\ active = {}
  /\ signalled = {}
  /\ txAge = [n \in Node |-> 0]
  /\ lastLock = [n \in Node |-> 0]
  /\ faults = 0
-----------------------------------------------------------------------------
(* A call of Lock *)

GoTo(n, label) == pc' = [pc EXCEPT ![n] = label]

Fault(kind) ==
  /\ kind \in Failing /\ faults < MaxFaults
  /\ faults' = faults + 1

CallLock(n) ==
  /\ GoTo(n, "Begin")
  /\ attempts' = [attempts EXCEPT ![n] = 0]

\* The maintainer after a call of Lock.  The error of its first call is only
\* logged; a later one makes it release the lock and exit.  isLockAcquired is
\* true unless something has set it to false.
LockReturns(n, err, deniedNow) ==
  /\ fresh' = fresh \ {n}
  /\ IF err = "nil" \/ n \in fresh
     THEN /\ GoTo(n, "Select")
          /\ active' = IF n \in deniedNow \cup signalled
                       THEN active ELSE active \cup {n}
     ELSE GoTo(n, "Release") /\ UNCHANGED active

\* An attempt fails: with driver.ErrBadConn, and it is repeated up to twice, or
\* with any other error.
AttemptFails(n, deniedNow) ==
  \/ /\ attempts[n] < 2
     /\ attempts' = [attempts EXCEPT ![n] = @ + 1]
     /\ GoTo(n, "Begin")
     /\ UNCHANGED <<fresh, active>>
  \/ /\ LockReturns(n, "error", deniedNow)
     /\ UNCHANGED attempts

Begin(n) ==
  /\ pc[n] = "Begin"
  /\ \/ Fault("Begin") /\ AttemptFails(n, denied) /\ UNCHANGED txAge
     \/ /\ GoTo(n, "Body")
        /\ txAge' = [txAge EXCEPT ![n] = 0]
        /\ UNCHANGED <<attempts, fresh, active, faults>>
  /\ UNCHANGED <<row, denied, signalled, lastLock>>

\* mutant: the lease ends with the second it is granted for.
Expired_Early(n) == row.age - txAge[n] >= Ttl - 1

\* mutant: the ttl, in seconds, is compared as if it were something smaller.
Expired_Units(n) == row.age - txAge[n] > 1000 * Ttl

Expired(n) == row.age - txAge[n] > Ttl

\* Nobody holds the lock, n does itself, or its owner has let it expire.
Grantable(n) == row # NoRow => row.owner = n \/ Expired(n)

Write(n) == row' = [owner |-> n, age |-> txAge[n]]

OnTime(n) == lastLock' = [lastLock EXCEPT ![n] = txAge[n]]

\* The transaction locks the table first: it is one step for the other nodes.
Body(n) ==
  /\ pc[n] = "Body"
  /\ \/ /\ Grantable(n)
        /\ Write(n) /\ LockReturns(n, "nil", denied) /\ OnTime(n)
        /\ UNCHANGED <<denied, attempts, faults>>
     \/ /\ ~Grantable(n)
        /\ denied' = denied \cup {n}
        /\ LockReturns(n, "nil", denied') /\ OnTime(n)
        /\ UNCHANGED <<row, attempts, faults>>
     \/ /\ Fault("Statement")
        /\ denied' = denied \cup {n}
        /\ AttemptFails(n, denied')
        /\ UNCHANGED <<row, lastLock>>
     \/ /\ Fault("Commit")
        /\ denied' = IF Grantable(n) THEN denied ELSE denied \cup {n}
        /\ AttemptFails(n, denied') /\ UNCHANGED lastLock
        /\ UNCHANGED row \/ (Grantable(n) /\ Write(n))
  /\ UNCHANGED <<signalled, txAge>>
-----------------------------------------------------------------------------
(* The process of a node *)

Start(n) ==
  /\ pc[n] = "off"
  /\ CallLock(n)
  /\ lastLock' = [lastLock EXCEPT ![n] = 0]
  /\ UNCHANGED <<row, denied, fresh, active, signalled, txAge, faults>>

Retry(n) ==
  /\ pc[n] = "Select"
  /\ CallLock(n)
  /\ denied' = denied \ {n}
  /\ UNCHANGED <<row, fresh, active, signalled, txAge, lastLock, faults>>

\* The members stop in the reverse order of their start: the maintainer gets its
\* signal when the runners have stopped.
Interrupt(n) ==
  /\ Live(n) /\ n \notin signalled
  /\ signalled' = signalled \cup {n}
  /\ active' = active \ {n}
  /\ UNCHANGED <<row, pc, attempts, denied, fresh, txAge, lastLock, faults>>

ReceiveSignal(n) ==
  /\ pc[n] = "Select" /\ n \in signalled
  /\ GoTo(n, "Release")
  /\ UNCHANGED <<row, attempts, denied, fresh, active, signalled, txAge, lastLock, faults>>

\* mutant: Release deletes the row whoever owns it.
Release_Any(n) ==
  /\ pc[n] = "Release"
  /\ GoTo(n, "Exit")
  /\ row' = NoRow
  /\ UNCHANGED <<attempts, denied, fresh, active, signalled, txAge, lastLock, faults>>

Release(n) ==
  /\ pc[n] = "Release"
  /\ GoTo(n, "Exit")
  /\ \/ /\ row' = IF row # NoRow /\ row.owner = n THEN NoRow ELSE row
        /\ UNCHANGED faults
     \/ Fault("Release") /\ UNCHANGED row
  /\ UNCHANGED <<attempts, denied, fresh, active, signalled, txAge, lastLock>>

End(n) ==
  /\ GoTo(n, "dead")
  /\ active' = active \ {n}
  /\ UNCHANGED <<row, attempts, denied, fresh, signalled, txAge, lastLock, faults>>

\* os.Exit, with the members still running, or the end of a group that stopped.
Exit(n) == pc[n] = "Exit" /\ End(n)

Crash(n) == "Crash" \in Failing /\ Live(n) /\ End(n)

Older(age) == IF age < Old THEN age + 1 ELSE age

\* Time passes, as long as no live node is late.
Tick ==
  /\ \A n \in Node : Live(n) => lastLock[n] < MaxDelay
  /\ row' = IF row = NoRow THEN NoRow ELSE [row EXCEPT !.age = Older(@)]
  /\ txAge' = [n \in Node |-> IF pc[n] = "Body" THEN Older(txAge[n]) ELSE txAge[n]]
  /\ lastLock' = [n \in Node |-> IF Live(n) THEN Older(lastLock[n]) ELSE lastLock[n]]
  /\ UNCHANGED <<pc, attempts, denied, fresh, active, signalled, faults>>

Work(n) == Begin(n) \/ Body(n) \/ Retry(n) \/ Release(n) \/ Exit(n)

Next ==
  \/ \E n \in Node : Work(n) \/ ReceiveSignal(n)
  \/ \E n \in Node : Start(n) \/ Interrupt(n) \/ Crash(n)
  \/ Tick

Spec == Init /\ [][Next]_vars

\* Every goroutine is scheduled, the ticker ticks, and a select that finds both a
\* tick and a signal takes the signal in the end.
Fairness ==
  /\ \A n \in Node : WF_vars(Work(n)) /\ SF_vars(ReceiveSignal(n))
  /\ WF_vars(Tick)

FairSpec == Spec /\ Fairness
-----------------------------------------------------------------------------
(* Properties *)

\* What a lease needs to exclude anything: its owner renews it in time.
RenewsInTime == MaxDelay <= Ttl

\* What this lock needs too: a first call of Lock that fails before or after the
\* statements of its transaction answers that the lock is acquired.
StartsKnowing == "Begin" \notin Failing /\ "Commit" \notin Failing

\* The members of a node only run while the row is the node's, up to the moment
\* in which it has released the lock and is about to exit.  (If RenewsInTime and
\* StartsKnowing.)
ActiveOwnsLock ==
  \A n \in active : pc[n] # "Exit" => row # NoRow /\ row.owner = n

\* What the tests of the operator expect of the lock: the members of one
\* instance run at a time, but for those of a process that is about to exit.
OneActive ==
  \A m, n \in active : pc[m] # "Exit" /\ pc[n] # "Exit" => m = n

\* A lease is taken from its owner only after its time, or because the owner gave
\* it up: however late, delayed or faulty the nodes are.
LeaseIsRespected ==
  [][ row # NoRow /\ (row' = NoRow \/ row'.owner # row.owner)
        => \/ row.age > Ttl
           \/ row' = NoRow /\ pc[row.owner] = "Release" ]_vars

\* The lock does not get lost: as long as there is a node that is not told to
\* stop, the members of some node run again and again, after every crash, failure
\* or exit of the node that had the lock.
SomebodyIsActive ==
  []<>( \/ active # {}
        \/ \A n \in Node : Live(n) => n \in signalled )
=============================================================================
