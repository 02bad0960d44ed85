------------------------- MODULE SchedulerJobs_proofs -------------------------
(***************************************************************************)
(* Active schedules stay until they end, for all schedules, threads,       *)
(* failures and bounds, whatever the scaling engine makes of them.  See      *)
(* SchedulerJobs and ActiveSchedules for the definitions.                  *)
(***************************************************************************)
EXTENDS ActiveSchedules, WellFoundedInduction, TLAPS

\* The end job of a start is not due before the start's schedule ends ...
EndJobsInTime ==
  \A j \in endJobs : j.at # None => j.at >= EndOf(j.schedule, j.start)

\* ... and does not run before.
EndsRunLate ==
  \A t \in Thread :
    exec[t] # None /\ exec[t].pc \in EndLabels
      => clock >= EndOf(exec[t].schedule, exec[t].start)

JobsInvariant == JobsTypeOK /\ EndJobsInTime /\ EndsRunLate
-----------------------------------------------------------------------------
(* Operators *)

\* A set of natural numbers that is not empty has a minimum.
LEMMA MinOfNaturals ==
  ASSUME NEW S, S \subseteq Nat, S # {}
  PROVE  Min(S) \in S
<1> DEFINE Less == {ss \in Nat \X Nat : ss[1] < ss[2]}
<1>1. IsWellFoundedOn(Less, Nat)
  BY NatLessThanWellFounded DEF OpToRel
<1>2. PICK x \in S : \A y \in S : <<y, x>> \notin Less
  <2> HIDE DEF Less
  <2> QED  BY <1>1, WFMin
<1>3. ASSUME NEW y \in S
      PROVE  x <= y
  <2>1. <<y, x>> \notin Less
    BY <1>2
  <2>2. x \in Nat /\ y \in Nat
    OBVIOUS
  <2>3. ~ (y < x)
    BY <2>1, <2>2
  <2> QED  BY <2>2, <2>3
<1> QED
  BY <1>3, Zenon DEF Min

\* Every start has an end, within the time of the model.
LEMMA EndOfType ==
  ASSUME NEW s \in Schedule, NEW start
  PROVE  EndOf(s, start) \in 0 .. MaxTime
<1> USE SchedulesAssumption, BoundsAssumption
<1> DEFINE Later == {e \in Ends[s] : e > start} \cup {MaxTime}
<1>1. Ends[s] \subseteq 1 .. MaxTime /\ Ends[s] # {}
  OBVIOUS
<1>2. Later \subseteq 0 .. MaxTime /\ Later # {}
  BY <1>1
<1>3. Min(Later) \in 0 .. MaxTime
  <2> HIDE DEF Later
  <2>1. Later \subseteq Nat
    BY <1>2
  <2> QED  BY <2>1, <1>2, MinOfNaturals
<1>4. Min(Ends[s]) \in 0 .. MaxTime
  <2>1. Ends[s] \subseteq Nat
    BY <1>1
  <2> QED  BY <2>1, <1>1, MinOfNaturals
<1> QED
  BY <1>3, <1>4 DEF EndOf

\* A job that is rescheduled does not fire before now.
LEMMA CappedType ==
  ASSUME NEW now \in 0 .. MaxTime
  PROVE  Capped(now + RetryInterval) \in now .. MaxTime
BY BoundsAssumption DEF Capped

\* The triggers of start jobs fire at natural times.
LEMMA StartTimesType ==
  ASSUME NEW p, NEW now
  PROVE  StartTimes(p, now) \in [Schedule -> SUBSET Nat]
BY SchedulesAssumption, BoundsAssumption DEF StartTimes

\* The data of a new job count no reschedulings.
LEMMA NewDataType == NewData \in JobData
BY BoundsAssumption DEF NewData, JobData

Counters == {"database", "network"}

\* One rescheduling more keeps the counters within their bound.
LEMMA CounterUp ==
  ASSUME NEW data \in JobData, NEW c \in Counters, data[c] < MaxCount
  PROVE  [data EXCEPT ![c] = @ + 1] \in JobData
<1>1. CASE c = "database"
  BY <1>1, BoundsAssumption DEF JobData
<1>2. CASE c = "network"
  BY <1>2, BoundsAssumption DEF JobData
<1> QED
  BY <1>1, <1>2 DEF Counters
-----------------------------------------------------------------------------
(* The initial state *)

\* The invariant holds when there are only start jobs.
LEMMA InitInvariant == JobsInit => JobsInvariant
<1> SUFFICES ASSUME JobsInit PROVE JobsInvariant
  OBVIOUS
<1>1. installed \subseteq Schedule /\ ever \subseteq Schedule
  BY SchedulesAssumption DEF JobsInit
<1>2. JobsTypeOK
  <2>1. fireAt \in [Schedule -> SUBSET Nat]
    BY StartTimesType DEF JobsInit
  <2>2. jobData \in [Schedule -> JobData] /\ endJobs \subseteq EndJob
    BY NewDataType DEF JobsInit
  <2>3. exec \in [Thread -> Execution \cup {None}] /\ rows \in [Schedule -> Nat \cup {None}]
    BY DEF JobsInit
  <2>4. clock \in 0 .. MaxTime /\ faults \in 0 .. MaxFaults
    BY BoundsAssumption DEF JobsInit
  <2>5. lost \in BOOLEAN /\ deleting \in {None} \cup SUBSET (Schedule \X Nat)
    BY DEF JobsInit
  <2> QED  BY <1>1, <2>1, <2>2, <2>3, <2>4, <2>5 DEF JobsTypeOK
<1>3. EndJobsInTime
  BY DEF JobsInit, EndJobsInTime
<1>4. EndsRunLate
  BY DEF JobsInit, EndsRunLate
<1> QED
  BY <1>2, <1>3, <1>4 DEF JobsInvariant
-----------------------------------------------------------------------------
(* What an execution does to jobs and threads *)

\* The types of what an execution changes when it goes on or ends.
JobStateOK ==
  /\ fireAt \in [Schedule -> SUBSET Nat]
  /\ jobData \in [Schedule -> JobData]
  /\ endJobs \subseteq EndJob
  /\ exec \in [Thread -> Execution \cup {None}]

\* A thread that is busy executes a job.
LEMMA ExecutionIsKnown ==
  ASSUME JobsInvariant, NEW t \in Thread, exec[t] # None
  PROVE  exec[t] \in Execution
BY DEF JobsInvariant, JobsTypeOK

\* A thread that finishes endangers nothing.
LEMMA FinishSafe ==
  ASSUME JobsInvariant, NEW t \in Thread, Finish(t), clock' = clock
  PROVE  exec' \in [Thread -> Execution \cup {None}] /\ EndsRunLate'
BY DEF JobsInvariant, JobsTypeOK, EndsRunLate, Finish

\* An execution that ends may take its end job with it.
LEMMA CompleteSafe ==
  ASSUME JobsInvariant, NEW t \in Thread, Complete(t), clock' = clock
  PROVE  JobStateOK' /\ EndJobsInTime' /\ EndsRunLate'
<1>1. exec' \in [Thread -> Execution \cup {None}] /\ EndsRunLate'
  BY FinishSafe DEF Complete
<1>2. endJobs' \subseteq endJobs
  BY DEF Complete
<1>3. EndJobsInTime'
  BY <1>2 DEF JobsInvariant, EndJobsInTime
<1> QED
  BY <1>1, <1>2, <1>3 DEF JobsInvariant, JobsTypeOK, JobStateOK, Complete

\* An end job that is rescheduled has run, so that its schedule is over.
LEMMA RunAgainSafe ==
  ASSUME JobsInvariant, NEW t \in Thread, exec[t] # None,
         NEW data \in JobData, NEW soon \in clock .. MaxTime,
         RunAgain(exec[t], data, soon)
  PROVE  /\ fireAt' \in [Schedule -> SUBSET Nat]
         /\ jobData' \in [Schedule -> JobData]
         /\ endJobs' \subseteq EndJob
         /\ EndJobsInTime'
<1> DEFINE e == exec[t]
           Again == {[j EXCEPT !.at = soon, !.data = data] : j \in EndJobOf(e)}
<1>1. e \in Execution /\ soon \in Nat
  BY ExecutionIsKnown DEF JobsInvariant, JobsTypeOK
<1>2. fireAt' \in [Schedule -> SUBSET Nat] /\ jobData' \in [Schedule -> JobData]
  <2>1. CASE UNCHANGED <<fireAt, jobData>>
    BY <2>1 DEF JobsInvariant, JobsTypeOK
  <2>2. CASE /\ fireAt' = [fireAt EXCEPT ![e.schedule] = {soon}]
             /\ jobData' = [jobData EXCEPT ![e.schedule] = data]
    BY <2>2, <1>1 DEF JobsInvariant, JobsTypeOK
  <2> QED  BY <2>1, <2>2 DEF RunAgain
<1>3. endJobs' = (endJobs \ EndJobOf(e)) \cup Again
  BY DEF RunAgain
<1>4. ASSUME NEW j \in EndJobOf(e)
      PROVE  /\ [j EXCEPT !.at = soon, !.data = data] \in EndJob
             /\ soon >= EndOf(j.schedule, j.start)
  <2>1. j \in EndJob /\ j.schedule = e.schedule /\ j.start = e.start
        /\ e.pc \in EndLabels
    BY DEF EndJobOf, JobsInvariant, JobsTypeOK
  <2>2. clock >= EndOf(j.schedule, j.start)
    BY <2>1 DEF JobsInvariant, EndsRunLate
  <2>3. EndOf(j.schedule, j.start) \in Nat /\ clock \in Nat
    BY <2>1, EndOfType DEF EndJob, JobsInvariant, JobsTypeOK
  <2>4. soon >= EndOf(j.schedule, j.start)
    BY <2>2, <2>3
  <2> QED  BY <2>1, <2>4, <1>1 DEF EndJob
<1>5. endJobs' \subseteq EndJob
  BY <1>3, <1>4 DEF JobsInvariant, JobsTypeOK
<1>6. EndJobsInTime'
  <2> SUFFICES ASSUME NEW j \in endJobs', j.at # None
               PROVE  j.at >= EndOf(j.schedule, j.start)
    BY DEF EndJobsInTime
  <2>1. CASE j \in endJobs
    BY <2>1 DEF JobsInvariant, EndJobsInTime
  <2>2. CASE j \in Again
    <3>1. PICK old \in EndJobOf(e) : j = [old EXCEPT !.at = soon, !.data = data]
      BY <2>2
    <3>2. old \in EndJob
      BY DEF EndJobOf, JobsInvariant, JobsTypeOK
    <3>3. j.at = soon /\ j.schedule = old.schedule /\ j.start = old.start
      BY <3>1, <3>2 DEF EndJob
    <3> QED  BY <3>3, <1>4
  <2> QED  BY <2>1, <2>2, <1>3
<1> QED
  BY <1>2, <1>5, <1>6

\* Whether or not the job is to run again, jobs and threads stay as they should.
LEMMA RescheduleSafe ==
  ASSUME JobsInvariant, NEW t \in Thread, exec[t] # None,
         NEW counter \in Counters, Reschedule(t, counter), clock' = clock
  PROVE  /\ JobStateOK' /\ EndJobsInTime' /\ EndsRunLate'
         /\ UNCHANGED <<installed, ever>>
         /\ UNCHANGED lost \/ lost' = TRUE
<1> DEFINE e == exec[t]
           data == [e.data EXCEPT ![counter] = @ + 1]
           soon == Capped(clock + RetryInterval)
<1>1. e.data \in JobData
  BY ExecutionIsKnown DEF Execution
<1>2. CASE /\ e.data[counter] >= MaxCount /\ Complete(t)
           /\ lost' = IF e.pc = "DeleteRow" THEN TRUE ELSE lost
  BY <1>2, CompleteSafe DEF Complete
<1>3. CASE /\ e.data[counter] < MaxCount
           /\ RunAgain(e, data, soon) /\ Finish(t) /\ UNCHANGED <<installed, ever, lost>>
  <2>1. data \in JobData
    BY <1>1, <1>3, CounterUp
  <2>2. soon \in clock .. MaxTime
    BY CappedType DEF JobsInvariant, JobsTypeOK
  <2>3. /\ fireAt' \in [Schedule -> SUBSET Nat]
        /\ jobData' \in [Schedule -> JobData]
        /\ endJobs' \subseteq EndJob
        /\ EndJobsInTime'
    <3> HIDE DEF data, soon
    <3> QED  BY <1>3, <2>1, <2>2, RunAgainSafe
  <2> QED  BY <2>3, <1>3, FinishSafe DEF JobStateOK
<1> QED
  BY <1>2, <1>3 DEF Reschedule

\* An execution that goes on does not become the one of an end job.
LEMMA GoToSafe ==
  ASSUME JobsInvariant, NEW t \in Thread, exec[t] # None,
         NEW label \in StartLabels \cup EndLabels,
         label \in EndLabels => exec[t].pc \in EndLabels,
         NEW data \in JobData,
         exec' = [exec EXCEPT ![t] = [@ EXCEPT !.pc = label, !.data = data]],
         clock' = clock
  PROVE  exec' \in [Thread -> Execution \cup {None}] /\ EndsRunLate'
<1> DEFINE new == [exec[t] EXCEPT !.pc = label, !.data = data]
<1>1. exec[t] \in Execution
  BY ExecutionIsKnown
<1>2. /\ new \in Execution /\ new.pc = label
      /\ new.schedule = exec[t].schedule /\ new.start = exec[t].start
  BY <1>1 DEF Execution
<1>3. exec' = [exec EXCEPT ![t] = new]
  OBVIOUS
<1> HIDE DEF new
<1>4. exec' \in [Thread -> Execution \cup {None}]
  BY <1>2, <1>3 DEF JobsInvariant, JobsTypeOK
<1>5. ASSUME NEW u \in Thread, exec'[u] # None, exec'[u].pc \in EndLabels
      PROVE  clock' >= EndOf(exec'[u].schedule, exec'[u].start)
  BY <1>2, <1>3, <1>5 DEF JobsInvariant, JobsTypeOK, EndsRunLate
<1> QED
  BY <1>4, <1>5 DEF EndsRunLate

\* ... nor if its data stay the same,
LEMMA JumpSafe ==
  ASSUME JobsInvariant, NEW t \in Thread, exec[t] # None,
         NEW label \in StartLabels \cup EndLabels,
         label \in EndLabels => exec[t].pc \in EndLabels,
         GoTo(t, label), clock' = clock
  PROVE  exec' \in [Thread -> Execution \cup {None}] /\ EndsRunLate'
<1>1. exec[t] \in Execution
  BY ExecutionIsKnown
<1>2. [exec[t] EXCEPT !.pc = label]
        = [exec[t] EXCEPT !.pc = label, !.data = exec[t].data]
  BY <1>1 DEF Execution
<1>3. exec' = [exec EXCEPT ![t] = [@ EXCEPT !.pc = label, !.data = exec[t].data]]
  BY <1>2 DEF GoTo
<1> QED
  BY <1>1, <1>3, GoToSafe DEF Execution

\* ... or record what it has done.
LEMMA HasDoneSafe ==
  ASSUME JobsInvariant, NEW t \in Thread, exec[t] # None,
         NEW label \in StartLabels, NEW what \in {"row", "end"},
         HasDone(t, what, label), clock' = clock
  PROVE  exec' \in [Thread -> Execution \cup {None}] /\ EndsRunLate'
<1>1. exec[t] \in Execution /\ Done(exec[t].data, what) \in JobData
  BY ExecutionIsKnown DEF Execution, JobData, Done
<1>2. exec' = [exec EXCEPT ![t] = [@ EXCEPT !.pc = label,
                                            !.data = Done(exec[t].data, what)]]
  BY DEF HasDone
<1>3. label \notin EndLabels
  BY DEF StartLabels, EndLabels
<1> QED
  BY <1>1, <1>2, <1>3, GoToSafe

\* What is left to show of a step whose execution goes on or ends.
LEMMA StepDone ==
  ASSUME JobsInvariant, JobStateOK', EndJobsInTime', EndsRunLate',
         UNCHANGED <<installed, ever, deleting, clock>>,
         rows' \in [Schedule -> Nat \cup {None}],
         faults' \in 0 .. MaxFaults, UNCHANGED lost \/ lost' = TRUE
  PROVE  JobsInvariant'
<1>1. lost' \in BOOLEAN
  BY DEF JobsInvariant, JobsTypeOK
<1> QED
  BY <1>1 DEF JobsInvariant, JobsTypeOK, JobStateOK

\* Failures are bounded.
LEMMA FaultType ==
  ASSUME JobsInvariant, NEW kind, Fault(kind)
  PROVE  faults' \in 0 .. MaxFaults
BY BoundsAssumption DEF JobsInvariant, JobsTypeOK, Fault
-----------------------------------------------------------------------------
(* Every step of the scheduler *)

\* A start job that fires is not an end job.
LEMMA FireStartSafe ==
  ASSUME JobsInvariant, NEW t \in Thread, NEW s \in Schedule, FireStart(t, s)
  PROVE  JobsInvariant'
<1> DEFINE new == [ pc |-> "Check", schedule |-> s, start |-> clock,
                    data |-> jobData[s] ]
<1>1. new \in Execution /\ new.pc \notin EndLabels
  BY BoundsAssumption
  DEF JobsInvariant, JobsTypeOK, Execution, StartLabels, EndLabels
<1>2. exec' = [exec EXCEPT ![t] = new]
  BY DEF FireStart
<1> HIDE DEF new
<1>3. exec' \in [Thread -> Execution \cup {None}]
  BY <1>1, <1>2 DEF JobsInvariant, JobsTypeOK
<1>4. EndsRunLate'
  BY <1>1, <1>2 DEF FireStart, JobsInvariant, JobsTypeOK, EndsRunLate
<1>5. EndJobsInTime'
  BY DEF FireStart, JobsInvariant, EndJobsInTime
<1>6. fireAt' \in [Schedule -> SUBSET Nat]
  BY DEF FireStart, JobsInvariant, JobsTypeOK
<1> QED
  BY <1>3, <1>4, <1>5, <1>6 DEF FireStart, JobsInvariant, JobsTypeOK

\* An end job fires when its schedule is over.
LEMMA FireEndSafe ==
  ASSUME JobsInvariant, NEW t \in Thread, NEW job \in endJobs, FireEnd(t, job)
  PROVE  JobsInvariant'
<1> DEFINE new == [ pc |-> "DeleteRow", schedule |-> job.schedule,
                    start |-> job.start, data |-> job.data ]
           fired == [job EXCEPT !.at = None]
<1>1. job \in EndJob
  BY DEF JobsInvariant, JobsTypeOK
<1>2. new \in Execution /\ fired \in EndJob /\ fired.at = None
  BY <1>1 DEF EndJob, Execution, EndLabels
<1>3. clock >= EndOf(job.schedule, job.start)
  <2>1. /\ job.at \in Nat /\ job.at <= clock
        /\ job.at >= EndOf(job.schedule, job.start)
    BY <1>1 DEF FireEnd, EndJob, JobsInvariant, EndJobsInTime
  <2>2. EndOf(job.schedule, job.start) \in Nat /\ clock \in Nat
    BY <1>1, EndOfType DEF EndJob, JobsInvariant, JobsTypeOK
  <2> QED  BY <2>1, <2>2
<1>4. /\ exec' = [exec EXCEPT ![t] = new]
      /\ endJobs' = (endJobs \ {job}) \cup {fired}
      /\ new.schedule = job.schedule /\ new.start = job.start
      /\ clock' = clock
  BY DEF FireEnd
<1> HIDE DEF new, fired
<1>5. exec' \in [Thread -> Execution \cup {None}]
  BY <1>2, <1>4 DEF JobsInvariant, JobsTypeOK
<1>6. EndsRunLate'
  BY <1>3, <1>4 DEF JobsInvariant, JobsTypeOK, EndsRunLate
<1>7. endJobs' \subseteq EndJob /\ EndJobsInTime'
  BY <1>2, <1>4 DEF JobsInvariant, JobsTypeOK, EndJobsInTime
<1> QED
  BY <1>5, <1>6, <1>7 DEF FireEnd, JobsInvariant, JobsTypeOK

\* A start job looks for an active schedule.
LEMMA CheckSafe ==
  ASSUME JobsInvariant, NEW t \in Thread, Check(t)
  PROVE  JobsInvariant'
<1>1. exec[t] # None /\ UNCHANGED <<rows, deleting, clock, lost>>
  BY DEF Check, At
<1>2. CASE Complete(t) /\ faults' \in 0 .. MaxFaults
  BY <1>1, <1>2, CompleteSafe, StepDone DEF Complete, JobsInvariant, JobsTypeOK
<1>3. CASE /\ GoTo(t, IF "row" \in exec[t].data.done THEN "ScheduleEnd"
                                                   ELSE "DeleteRows")
           /\ UNCHANGED <<quartz, faults>>
  <2>1. exec' \in [Thread -> Execution \cup {None}] /\ EndsRunLate'
    BY <1>1, <1>3, JumpSafe DEF StartLabels, EndLabels
  <2> QED  BY <1>1, <1>3, <2>1, StepDone
           DEF quartz, JobsInvariant, JobsTypeOK, JobStateOK, EndJobsInTime
<1>4. UNCHANGED faults => faults' \in 0 .. MaxFaults
  BY DEF JobsInvariant, JobsTypeOK
<1> QED
  BY <1>2, <1>3, <1>4, FaultType DEF Check

\* The database and the engine answer, and the execution goes on.
LEMMA GoesOn ==
  ASSUME JobsInvariant, JobStateOK',
         exec' \in [Thread -> Execution \cup {None}], EndsRunLate',
         UNCHANGED <<installed, ever, endJobs, deleting, clock, faults, lost>>,
         rows' \in [Schedule -> Nat \cup {None}]
  PROVE  JobsInvariant'
<1>1. faults' \in 0 .. MaxFaults /\ EndJobsInTime'
  BY DEF JobsInvariant, JobsTypeOK, EndJobsInTime
<1> QED
  BY <1>1, StepDone

\* They do not, and the job is rescheduled.
LEMMA TriesAgain ==
  ASSUME JobsInvariant, NEW t \in Thread, exec[t] # None,
         NEW counter \in Counters, Reschedule(t, counter),
         UNCHANGED <<rows, deleting, clock>>, faults' \in 0 .. MaxFaults
  PROVE  JobsInvariant'
<1>1. rows' \in [Schedule -> Nat \cup {None}]
  BY DEF JobsInvariant, JobsTypeOK
<1> QED
  BY <1>1, RescheduleSafe, StepDone

\* It deletes the rows of the app.
LEMMA DeleteRowsSafe ==
  ASSUME JobsInvariant, NEW t \in Thread, DeleteRows(t)
  PROVE  JobsInvariant'
<1>1. exec[t] # None /\ UNCHANGED <<deleting, clock>>
  BY DEF DeleteRows, At
<1>2. CASE Fault("Database") /\ Reschedule(t, "database") /\ UNCHANGED rows
  BY <1>1, <1>2, FaultType, TriesAgain DEF Counters
<1>3. CASE /\ rows' = [s \in Schedule |-> None]
           /\ GoTo(t, "Create") /\ UNCHANGED <<quartz, faults, lost>>
  <2>1. exec' \in [Thread -> Execution \cup {None}] /\ EndsRunLate'
    BY <1>1, <1>3, JumpSafe DEF StartLabels, EndLabels
  <2> QED  BY <1>1, <1>3, <2>1, GoesOn
           DEF quartz, JobsInvariant, JobsTypeOK, JobStateOK
<1> QED
  BY <1>2, <1>3 DEF DeleteRows

\* It creates its own.
LEMMA CreateSafe ==
  ASSUME JobsInvariant, NEW t \in Thread, Create(t)
  PROVE  JobsInvariant'
<1> DEFINE s == exec[t].schedule
<1>1. exec[t] # None /\ UNCHANGED <<deleting, clock>>
  BY DEF Create, At
<1>2. exec[t] \in Execution
  BY <1>1, ExecutionIsKnown
<1>3. CASE Fault("Database") /\ Reschedule(t, "database") /\ UNCHANGED rows
  BY <1>1, <1>3, FaultType, TriesAgain DEF Counters
<1>4. CASE Reschedule(t, "database") /\ UNCHANGED <<rows, faults>>
  <2>1. faults' \in 0 .. MaxFaults
    BY <1>4 DEF JobsInvariant, JobsTypeOK
  <2> QED  BY <1>1, <1>4, <2>1, TriesAgain DEF Counters
<1>5. CASE /\ rows' = [rows EXCEPT ![s] = exec[t].start]
           /\ HasDone(t, "row", "ScheduleEnd") /\ UNCHANGED <<quartz, faults, lost>>
  <2>1. exec' \in [Thread -> Execution \cup {None}] /\ EndsRunLate'
    BY <1>1, <1>5, HasDoneSafe DEF StartLabels
  <2>2. rows' \in [Schedule -> Nat \cup {None}]
    BY <1>2, <1>5 DEF Execution, JobsInvariant, JobsTypeOK
  <2> QED  BY <1>1, <1>5, <2>1, <2>2, GoesOn
           DEF quartz, JobsInvariant, JobsTypeOK, JobStateOK
<1> QED
  BY <1>3, <1>4, <1>5 DEF Create

\* It creates the end job, due when its schedule ends.
LEMMA ScheduleEndSafe ==
  ASSUME JobsInvariant, NEW t \in Thread, ScheduleEnd(t)
  PROVE  JobsInvariant'
<1> DEFINE new == NewEndJob(exec[t])
<1>1. exec[t] # None
      /\ UNCHANGED <<installed, ever, fireAt, jobData, rows, deleting, clock>>
  BY DEF ScheduleEnd, At
<1>2. exec[t] \in Execution
  BY <1>1, ExecutionIsKnown
<1>3. rows' \in [Schedule -> Nat \cup {None}] /\ (UNCHANGED faults => faults' \in 0 .. MaxFaults)
  BY <1>1 DEF JobsInvariant, JobsTypeOK
<1>4. ASSUME GoTo(t, "NotifyStart"), UNCHANGED endJobs,
             UNCHANGED lost \/ lost' = TRUE, faults' \in 0 .. MaxFaults
      PROVE  JobsInvariant'
  <2>1. exec' \in [Thread -> Execution \cup {None}] /\ EndsRunLate'
    BY <1>1, <1>4, JumpSafe DEF StartLabels, EndLabels
  <2>2. JobStateOK' /\ EndJobsInTime'
    BY <1>1, <1>4, <2>1 DEF JobsInvariant, JobsTypeOK, JobStateOK, EndJobsInTime
  <2> QED  BY <1>1, <1>3, <1>4, <2>1, <2>2, StepDone
<1>5. ASSUME endJobs' = endJobs \cup {new}, HasDone(t, "end", "NotifyStart"),
             UNCHANGED <<faults, lost>>
      PROVE  JobsInvariant'
  <2>1. exec' \in [Thread -> Execution \cup {None}] /\ EndsRunLate'
    BY <1>1, <1>5, HasDoneSafe DEF StartLabels
  <2>2. EndOf(exec[t].schedule, exec[t].start) \in Nat
    BY <1>2, EndOfType DEF Execution
  <2>3. new \in EndJob /\ new.at >= EndOf(new.schedule, new.start)
    BY <1>2, <2>2 DEF NewEndJob, Execution, EndJob
  <2>4. JobStateOK' /\ EndJobsInTime'
    <3> HIDE DEF new
    <3> QED  BY <1>1, <1>5, <2>1, <2>3
             DEF JobsInvariant, JobsTypeOK, JobStateOK, EndJobsInTime
  <2> QED  BY <1>1, <1>3, <1>5, <2>1, <2>4, StepDone
<1>6. CASE GoTo(t, "NotifyStart") /\ UNCHANGED <<endJobs, faults, lost>>
  BY <1>3, <1>4, <1>6
<1>7. CASE Fault("Quartz") /\ lost' = TRUE /\ GoTo(t, "NotifyStart") /\ UNCHANGED endJobs
  BY <1>4, <1>7, FaultType
<1> QED
  BY <1>5, <1>6, <1>7 DEF ScheduleEnd

\* A job notifies the scaling engine, whatever the answer.
LEMMA NotifySafe ==
  ASSUME JobsInvariant, NEW t \in Thread, exec[t] # None,
         NEW answer, Notify(t, answer)
  PROVE  JobsInvariant'
<1>1. UNCHANGED <<rows, deleting, clock>>
  BY DEF Notify
<1>2. ASSUME Complete(t), UNCHANGED lost, faults' \in 0 .. MaxFaults
      PROVE  JobsInvariant'
  BY <1>1, <1>2, CompleteSafe, StepDone DEF Complete, JobsInvariant, JobsTypeOK
<1>3. ASSUME Reschedule(t, "network"), faults' \in 0 .. MaxFaults
      PROVE  JobsInvariant'
  BY <1>1, <1>3, TriesAgain DEF Counters
<1>4. UNCHANGED faults => faults' \in 0 .. MaxFaults
  BY DEF JobsInvariant, JobsTypeOK
<1> QED
  BY <1>2, <1>3, <1>4, FaultType DEF Notify

\* An end job deletes the row of its start.
LEMMA DeleteRowSafe ==
  ASSUME JobsInvariant, NEW t \in Thread, DeleteRow(t)
  PROVE  JobsInvariant'
<1>1. exec[t] # None /\ exec[t].pc \in EndLabels
      /\ UNCHANGED <<deleting, clock>>
  BY DEF DeleteRow, At, EndLabels
<1>2. CASE Fault("Database") /\ Reschedule(t, "database") /\ UNCHANGED rows
  BY <1>1, <1>2, FaultType, TriesAgain DEF Counters
<1>3. CASE /\ rows' = IF Owned(exec[t]) THEN [rows EXCEPT ![exec[t].schedule] = None]
                                        ELSE rows
           /\ GoTo(t, "NotifyEnd") /\ UNCHANGED <<quartz, faults, lost>>
  <2>1. exec' \in [Thread -> Execution \cup {None}] /\ EndsRunLate'
    BY <1>1, <1>3, JumpSafe DEF StartLabels, EndLabels
  <2>2. rows' \in [Schedule -> Nat \cup {None}]
    BY <1>3 DEF JobsInvariant, JobsTypeOK
  <2> QED  BY <1>1, <1>3, <2>1, <2>2, GoesOn
           DEF quartz, JobsInvariant, JobsTypeOK, JobStateOK
<1> QED
  BY <1>2, <1>3 DEF DeleteRow

\* A policy is created,
LEMMA CreateSchedulesSafe ==
  ASSUME JobsInvariant, NEW p \in Policies, CreateSchedules(p)
  PROVE  JobsInvariant'
<1>1. p \subseteq Schedule
  BY SchedulesAssumption
<1>2. fireAt' \in [Schedule -> SUBSET Nat]
  BY StartTimesType DEF CreateSchedules
<1> QED
  BY <1>1, <1>2
  DEF CreateSchedules, JobsInvariant, JobsTypeOK, EndJobsInTime, EndsRunLate

\* its deletion begins,
LEMMA BeginDeleteSafe ==
  ASSUME JobsInvariant, BeginDelete
  PROVE  JobsInvariant'
<1>1. \A s \in installed \cap Active : <<s, rows[s]>> \in Schedule \X Nat
  BY DEF Active, JobsInvariant, JobsTypeOK
<1>2. deleting' \in {None} \cup SUBSET (Schedule \X Nat)
  BY <1>1 DEF BeginDelete
<1> QED
  BY <1>2
  DEF BeginDelete, quartz, JobsInvariant, JobsTypeOK, EndJobsInTime, EndsRunLate

\* is committed,
LEMMA FinishDeleteSafe ==
  ASSUME JobsInvariant, FinishDelete
  PROVE  JobsInvariant'
<1>1. fireAt' \in [Schedule -> SUBSET Nat]
  BY StartTimesType DEF FinishDelete
<1>2. endJobs' \subseteq endJobs
  BY DEF FinishDelete
<1>3. endJobs' \subseteq EndJob /\ EndJobsInTime'
  BY <1>2 DEF JobsInvariant, JobsTypeOK, EndJobsInTime
<1>4. EndsRunLate'
  BY DEF FinishDelete, JobsInvariant, EndsRunLate
<1> QED
  BY <1>1, <1>3, <1>4 DEF FinishDelete, JobsInvariant, JobsTypeOK

\* or rolled back.
LEMMA AbortDeleteSafe ==
  ASSUME JobsInvariant, AbortDelete
  PROVE  JobsInvariant'
<1>1. faults' \in 0 .. MaxFaults
  BY FaultType DEF AbortDelete
<1> QED
  BY <1>1
  DEF AbortDelete, quartz, JobsInvariant, JobsTypeOK, EndJobsInTime, EndsRunLate

\* A crash ends all executions.
LEMMA CrashSafe ==
  ASSUME JobsInvariant, Crash
  PROVE  JobsInvariant'
<1>1. faults' \in 0 .. MaxFaults /\ lost' \in BOOLEAN
  BY FaultType DEF Crash
<1> QED
  BY <1>1 DEF Crash, quartz, JobsInvariant, JobsTypeOK, EndJobsInTime, EndsRunLate

\* What is over stays over.
LEMMA TickSafe ==
  ASSUME JobsInvariant, Tick
  PROVE  JobsInvariant'
<1>1. clock \in Nat /\ clock' = clock + 1 /\ clock' \in 0 .. MaxTime
  BY BoundsAssumption DEF Tick, JobsInvariant, JobsTypeOK
<1>2. EndsRunLate'
  <2> SUFFICES ASSUME NEW t \in Thread, exec[t] # None, exec[t].pc \in EndLabels
               PROVE  clock' >= EndOf(exec[t].schedule, exec[t].start)
    BY DEF Tick, EndsRunLate
  <2>1. exec[t].schedule \in Schedule
    BY ExecutionIsKnown DEF Execution
  <2>2. EndOf(exec[t].schedule, exec[t].start) \in Nat
    BY <2>1, EndOfType
  <2>3. clock >= EndOf(exec[t].schedule, exec[t].start)
    BY DEF JobsInvariant, EndsRunLate
  <2> QED  BY <1>1, <2>2, <2>3
<1> QED
  BY <1>1, <1>2 DEF Tick, quartz, JobsInvariant, JobsTypeOK, EndJobsInTime

\* A step of the others changes nothing here.
LEMMA UnchangedSafe ==
  JobsInvariant /\ UNCHANGED jobVars => JobsInvariant'
BY DEF jobVars, JobsInvariant, JobsTypeOK, EndJobsInTime, EndsRunLate

\* The invariant is inductive.
LEMMA NextSafe ==
  ASSUME JobsInvariant, [JobsNext]_jobVars
  PROVE  JobsInvariant'
<1>1. CASE Fire
  BY <1>1, FireStartSafe, FireEndSafe DEF Fire
<1>2. CASE \E t \in Thread : UseDatabase(t)
  BY <1>2, CheckSafe, DeleteRowsSafe, CreateSafe, ScheduleEndSafe, DeleteRowSafe
  DEF UseDatabase
<1>3. CASE \E p \in Policies : CreateSchedules(p)
  BY <1>3, CreateSchedulesSafe
<1>4. CASE BeginDelete \/ FinishDelete \/ AbortDelete
  BY <1>4, BeginDeleteSafe, FinishDeleteSafe, AbortDeleteSafe
<1>5. CASE Crash \/ Tick
  BY <1>5, CrashSafe, TickSafe
<1>6. ASSUME NEW t \in Thread, NEW answer \in Answers,
             NotifyStart(t, answer) \/ NotifyEnd(t, answer)
      PROVE  JobsInvariant'
  BY <1>6, NotifySafe DEF NotifyStart, NotifyEnd, At
<1>7. CASE UNCHANGED jobVars
  BY <1>7, UnchangedSafe
<1> QED
  BY <1>1, <1>2, <1>3, <1>4, <1>5, <1>6, <1>7 DEF JobsNext, Internal
-----------------------------------------------------------------------------
(* Rows *)

\* What StaysUntilEnd allows a step to do to the row of an active schedule.
MayEnd(s) ==
  \/ clock >= EndOf(s, rows[s])
  \/ deleting # None /\ deleting' = None
  \/ \E t \in Thread : At(t, "DeleteRows")

\* No other step touches the row of an active schedule.
LEMMA RowsStay ==
  ASSUME JobsInvariant, [JobsNext]_jobVars, NEW s \in Active, rows'[s] # rows[s]
  PROVE  MayEnd(s)
<1>1. s \in Schedule /\ rows[s] # None
  BY DEF Active
<1>2. ASSUME NEW t \in Thread, Create(t)
      PROVE  FALSE
  <2>1. exec[t].schedule = s /\ rows[exec[t].schedule] = None
    BY <1>1, <1>2 DEF Create, JobsInvariant, JobsTypeOK
  <2> QED  BY <1>1, <2>1
<1>3. ASSUME NEW t \in Thread, DeleteRow(t)
      PROVE  MayEnd(s)
  <2>1. exec[t].schedule = s /\ Owned(exec[t])
    BY <1>1, <1>3 DEF DeleteRow, JobsInvariant, JobsTypeOK
  <2>2. exec[t] # None /\ exec[t].pc \in EndLabels
    BY <1>3 DEF DeleteRow, At, EndLabels
  <2>3. clock >= EndOf(exec[t].schedule, exec[t].start)
    BY <2>2 DEF JobsInvariant, EndsRunLate
  <2> QED  BY <2>1, <2>3 DEF Owned, MayEnd
<1>4. ASSUME NEW t \in Thread, UseDatabase(t)
      PROVE  MayEnd(s)
  <2>1. CASE Check(t) \/ ScheduleEnd(t)
    BY <2>1 DEF Check, ScheduleEnd
  <2>2. CASE DeleteRows(t)
    BY <2>2 DEF DeleteRows, MayEnd
  <2> QED  BY <1>2, <1>3, <1>4, <2>1, <2>2 DEF UseDatabase
<1>5. CASE Fire \/ BeginDelete \/ AbortDelete \/ Crash \/ Tick
  BY <1>5 DEF Fire, FireStart, FireEnd, BeginDelete, AbortDelete, Crash, Tick
<1>6. CASE \E p \in Policies : CreateSchedules(p)
  BY <1>6 DEF CreateSchedules
<1>7. CASE FinishDelete
  BY <1>7 DEF FinishDelete, MayEnd
<1>8. ASSUME NEW t \in Thread, NEW answer \in Answers,
             NotifyStart(t, answer) \/ NotifyEnd(t, answer)
      PROVE  FALSE
  BY <1>8 DEF NotifyStart, NotifyEnd, Notify
<1>9. CASE UNCHANGED jobVars
  BY <1>9 DEF jobVars
<1> QED
  BY <1>4, <1>5, <1>6, <1>7, <1>8, <1>9 DEF JobsNext, Internal
-----------------------------------------------------------------------------
(* Theorems *)

\* The tables of jobs, rows and executions of the scheduler stay well formed, and no
\* end job is due, or runs, before its schedule ends.
THEOREM JobsInvariantHolds == JobsSpec => []JobsInvariant
<1>1. JobsInvariant /\ [JobsNext]_jobVars => JobsInvariant'
  BY NextSafe
<1> QED
  BY InitInvariant, <1>1, PTL DEF JobsSpec

\* The rescheduling counters of jobs, among other things, stay in their bounds.
THEOREM JobsTypeCorrect == JobsSpec => []JobsTypeOK
<1>1. JobsInvariant => JobsTypeOK
  BY DEF JobsInvariant
<1> QED
  BY JobsInvariantHolds, <1>1, PTL

\* No end job, however late or often it is rescheduled, removes the row of a later
\* start of its schedule (ActiveScheduleDaoImpl.delete by the start's identifier).
THEOREM ScheduleStaysUntilEnd == JobsSpec => StaysUntilEnd
<1> DEFINE Stays == \A s \in Active : rows'[s] # rows[s] => MayEnd(s)
<1>1. JobsInvariant /\ [JobsNext]_jobVars => [Stays]_jobVars
  <2> SUFFICES ASSUME JobsInvariant, [JobsNext]_jobVars PROVE Stays
    OBVIOUS
  <2> QED  BY RowsStay
<1>2. JobsSpec => [][Stays]_jobVars
  <2> HIDE DEF Stays
  <2> QED  BY <1>1, JobsInvariantHolds, PTL DEF JobsSpec
<1> QED
  BY <1>2 DEF StaysUntilEnd, MayEnd
-----------------------------------------------------------------------------
(* With the scaling engine *)

\* A synchronization that fails is counted, and changes nothing else here.
OnlyFails ==
  /\ Fault("Engine")
  /\ UNCHANGED <<quartz, rows, exec, deleting, clock, lost>>

LEMMA OnlyFailsSafe ==
  ASSUME JobsInvariant, OnlyFails
  PROVE  JobsInvariant'
<1>1. faults' \in 0 .. MaxFaults
  BY FaultType DEF OnlyFails
<1> QED
  BY <1>1
  DEF OnlyFails, quartz, JobsInvariant, JobsTypeOK, EndJobsInTime, EndsRunLate

\* A synchronization changes nothing of the scheduler.
LEMMA SyncIsApart ==
  ASSUME NEW y \in Syncs, Sync(y)
  PROVE  OnlyFails \/ UNCHANGED jobVars
<1>1. CASE ReadScheduler(y)
  BY <1>1 DEF ReadScheduler
<1>2. CASE ReadEngine(y)
  BY <1>2 DEF ReadEngine, OnlyFails, jobVars, quartz
<1>3. CASE Act(y)
  <2> DEFINE todo == Corrections(sync[y].want, sync[y].have)
  <2>1. CASE UNCHANGED faults
    BY <1>3, <2>1 DEF Act, jobVars, quartz
  <2>2. CASE Fault("Engine")
    BY <1>3, <2>2 DEF Act, OnlyFails
  <2> QED  BY <1>3, <2>1, <2>2 DEF Act
<1> QED
  BY <1>1, <1>2, <1>3 DEF Sync

\* A step of the composition is one of the scheduler, or only the engine's.
LEMMA StepOfEither ==
  ASSUME [Next]_vars
  PROVE  [JobsNext]_jobVars \/ OnlyFails
<1>1. CASE Internal
  BY <1>1 DEF JobsNext
<1>2. ASSUME NEW t \in Thread, NEW answer \in Answers,
             Start(t, answer) \/ End(t, answer)
      PROVE  JobsNext
  BY <1>2 DEF Start, End, JobsNext
<1>3. CASE \E r \in late : Deliver(r)
  BY <1>3 DEF Deliver
<1>4. CASE DeletePolicy \/ DeletePolicyFails
  BY <1>4 DEF DeletePolicy, DeletePolicyFails, JobsNext
<1>5. CASE \E y \in Syncs : Sync(y)
  BY <1>5, SyncIsApart
<1>6. CASE UNCHANGED vars
  BY <1>6 DEF vars
<1> QED
  BY <1>1, <1>2, <1>3, <1>4, <1>5, <1>6 DEF Next

\* The scheduler's invariant, with the scaling engine,
THEOREM JobsInvariantHoldsForBoth == Spec => []JobsInvariant
<1>1. Init => JobsInvariant
  BY InitInvariant DEF Init
<1>2. JobsInvariant /\ [Next]_vars => JobsInvariant'
  BY StepOfEither, NextSafe, OnlyFailsSafe
<1> QED
  BY <1>1, <1>2, PTL DEF Spec

\* ... and what it is for: nothing the scaling engine answers, loses or does late, and
\* no synchronization of it, ends an active schedule of the scheduler before its time.
THEOREM StaysUntilEndForBoth == Spec => StaysUntilEnd
<1> DEFINE Stays == \A s \in Active : rows'[s] # rows[s] => MayEnd(s)
<1>1. JobsInvariant /\ [Next]_vars => [Stays]_jobVars
  <2> SUFFICES ASSUME JobsInvariant, [Next]_vars PROVE Stays
    OBVIOUS
  <2>1. CASE [JobsNext]_jobVars
    BY <2>1, RowsStay
  <2>2. CASE OnlyFails
    BY <2>2 DEF OnlyFails
  <2> QED  BY <2>1, <2>2, StepOfEither
<1>2. Spec => [][Stays]_jobVars
  <2> HIDE DEF Stays
  <2> QED  BY <1>1, JobsInvariantHoldsForBoth, PTL DEF Spec
<1> QED
  BY <1>2 DEF StaysUntilEnd, MayEnd
=============================================================================
