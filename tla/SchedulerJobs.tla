---------------------------- MODULE SchedulerJobs ----------------------------
(***************************************************************************)
(* The scheduler (src/scheduler) and the schedules of one app.             *)
(*                                                                         *)
(* Quartz fires a start job when a schedule starts.  The job makes the     *)
(* schedule the active one of the app in a table, creates the end job and  *)
(* notifies the scaling engine; the end job undoes this.  Every access to  *)
(* a database and every request is a step that may fail; jobs run on       *)
(* several threads, and there is no transaction around the steps of a job. *)
(* The policy of the app may be deleted and replaced meanwhile.  What the  *)
(* scaling engine makes of its notifications: see ActiveSchedules.         *)
(***************************************************************************)
EXTENDS Integers, FiniteSetsExt

CONSTANTS
  Schedule,
  Recurring,       \* the schedules that are not for a specific date
  Starts, Ends,    \* when each starts and ends
  Policies,        \* sets of schedules
  Thread,          \* the threads of Quartz
  RetryInterval, MaxCount, \* of the rescheduling of jobs
  Failing,         \* what may fail, see Faults
  MaxFaults,       \* bound on the failures
  MaxTime,         \* bound of the clock
  None

\* "Database" is an error of the scheduler's database, "Quartz" one of creating
\* an end job, "Engine" an error the scaling engine answers with, and "Network"
\* an engine that cannot be reached or does not answer in time.
Faults == {"Database", "Quartz", "Engine", "Network", "Crash"}

ASSUME SchedulesAssumption ==
  /\ Recurring \subseteq Schedule
  /\ Starts \in [Schedule -> SUBSET (1 .. MaxTime)]
  /\ Ends \in [Schedule -> (SUBSET (1 .. MaxTime)) \ {{}}]
  /\ Policies \subseteq SUBSET Schedule

ASSUME BoundsAssumption ==
  /\ RetryInterval \in Nat \ {0} /\ MaxCount \in Nat \ {0}
  /\ Failing \subseteq Faults /\ MaxFaults \in Nat /\ MaxTime \in Nat

ASSUME NoneAssumption ==
  /\ None \notin Schedule /\ None \notin Nat
  /\ None \notin [ pc : STRING, schedule : Schedule, start : Nat,
                   data : [ done : SUBSET {"row", "end"},
                            database : Nat, network : Nat ] ]

VARIABLES
  installed,   \* the schedules that have a start job
  ever,        \* the schedules that have had one
  fireAt,      \* the fire times of each start job's trigger
  jobData,     \* the job data of each start job, as it is stored
  endJobs,
  rows,        \* app_scaling_active_schedule: start_job_identifier by schedule
  exec,        \* what each thread executes
  deleting,    \* the end jobs a deletion of the policy has found
  clock, faults,
  lost         \* history: an end job was not created, gave up, or may have been lost

quartz  == <<installed, ever, fireAt, jobData, endJobs>>
jobVars == <<installed, ever, fireAt, jobData, endJobs, rows, exec, deleting,
             clock, faults, lost>>
-----------------------------------------------------------------------------
(* Types *)

\* What has been done of a start job, and the counters of its reschedulings.
JobData == [ done : SUBSET {"row", "end"},
             database : 1 .. MaxCount, network : 1 .. MaxCount ]

NewData == [done |-> {}, database |-> 1, network |-> 1]

\* An end job whose trigger has fired has no time until it is rescheduled.
EndJob == [ schedule : Schedule, start : Nat, data : JobData,
            at : Nat \cup {None} ]

StartLabels == {"Check", "DeleteRows", "Create", "ScheduleEnd", "NotifyStart"}
EndLabels   == {"DeleteRow", "NotifyEnd"}

\* start is the fire time of the start job.
Execution == [ pc : StartLabels \cup EndLabels, schedule : Schedule,
               start : Nat, data : JobData ]

JobsTypeOK ==
  /\ installed \subseteq Schedule /\ ever \subseteq Schedule
  /\ fireAt \in [Schedule -> SUBSET Nat]
  /\ jobData \in [Schedule -> JobData]
  /\ endJobs \subseteq EndJob
  /\ rows \in [Schedule -> Nat \cup {None}]
  /\ exec \in [Thread -> Execution \cup {None}]
  /\ deleting \in {None} \cup SUBSET (Schedule \X Nat)
  /\ clock \in 0 .. MaxTime
  /\ faults \in 0 .. MaxFaults
  /\ lost \in BOOLEAN

StartTimes(p, now) ==
  [s \in Schedule |-> IF s \in p THEN {time \in Starts[s] : time > now} ELSE {}]

JobsInit ==
  /\ installed \in Policies
  /\ ever = installed
  /\ fireAt = StartTimes(installed, 0)
  /\ jobData = [s \in Schedule |-> NewData]
  /\ endJobs = {}
  /\ rows = [s \in Schedule |-> None]
  /\ exec = [t \in Thread |-> None]
  /\ deleting = None
  /\ clock = 0
  /\ faults = 0
  /\ lost = FALSE

Fault(kind) ==
  /\ kind \in Failing /\ faults < MaxFaults
  /\ faults' = faults + 1

\* What is to happen after the last instant of the model happens in it.
Capped(time) == IF time > MaxTime THEN MaxTime ELSE time

\* When a schedule that starts at this time ends: a recurring one at the next of
\* its end times.
EndOf(s, start) ==
  IF s \in Recurring
  THEN Min({e \in Ends[s] : e > start} \cup {MaxTime})
  ELSE Min(Ends[s])

Active == {s \in Schedule : rows[s] # None}
-----------------------------------------------------------------------------
(* The jobs *)

\* A deletion of schedules has the lock of Quartz until it is committed.
QuartzFree == deleting = None

At(t, label) == exec[t] # None /\ exec[t].pc = label

GoTo(t, label) == exec' = [exec EXCEPT ![t].pc = label]

Finish(t) == exec' = [exec EXCEPT ![t] = None]

\* Instants are unique: a job does not fire twice in one.
FiresNow(s) ==
  \/ rows[s] = clock
  \/ \E u \in Thread : exec[u] # None /\ exec[u].schedule = s /\ exec[u].start = clock
  \/ \E j \in endJobs : j.schedule = s /\ j.start = clock

\* The trigger of a start job that fires late fires once.
FireStart(t, s) ==
  /\ exec[t] = None /\ QuartzFree /\ ~FiresNow(s)
  /\ \E time \in fireAt[s] : time <= clock
  /\ fireAt' = [fireAt EXCEPT ![s] = {time \in @ : time > clock}]
  /\ exec' = [exec EXCEPT ![t] = [ pc |-> "Check", schedule |-> s,
                                   start |-> clock, data |-> jobData[s] ]]
  /\ UNCHANGED <<installed, ever, jobData, endJobs, rows, deleting, clock, faults,
                 lost>>

FireEnd(t, job) ==
  /\ exec[t] = None /\ QuartzFree
  /\ job.at # None /\ job.at <= clock
  /\ endJobs' = (endJobs \ {job}) \cup {[job EXCEPT !.at = None]}
  /\ exec' = [exec EXCEPT ![t] = [ pc |-> "DeleteRow", schedule |-> job.schedule,
                                   start |-> job.start, data |-> job.data ]]
  /\ UNCHANGED <<installed, ever, fireAt, jobData, rows, deleting, clock, faults,
                 lost>>

EndJobOf(e) ==
  {j \in endJobs : j.schedule = e.schedule /\ j.start = e.start /\ e.pc \in EndLabels}

\* An execution ends, and with the last one of an end job goes its trigger.
Complete(t) ==
  /\ Finish(t)
  /\ endJobs' = endJobs \ EndJobOf(exec[t])
  /\ UNCHANGED <<installed, ever, fireAt, jobData>>

\* The job is to run again soon: its data is stored, and its trigger replaced by
\* one that fires once.  A job that was deleted meanwhile has no trigger.
RunAgain(e, data, soon) ==
  /\ IF e.pc \in StartLabels /\ e.schedule \in installed
     THEN /\ fireAt' = [fireAt EXCEPT ![e.schedule] = {soon}]
          /\ jobData' = [jobData EXCEPT ![e.schedule] = data]
     ELSE UNCHANGED <<fireAt, jobData>>
  /\ endJobs' = (endJobs \ EndJobOf(e))
                  \cup {[j EXCEPT !.at = soon, !.data = data] : j \in EndJobOf(e)}

\* ... unless it did too often.
Reschedule(t, counter) ==
  LET e == exec[t]
  IN  /\ QuartzFree
      /\ \/ /\ e.data[counter] < MaxCount
            /\ RunAgain(e, [e.data EXCEPT ![counter] = @ + 1],
                        Capped(clock + RetryInterval))
            /\ Finish(t) /\ UNCHANGED <<installed, ever, lost>>
         \/ /\ e.data[counter] >= MaxCount /\ Complete(t)
            /\ lost' = IF e.pc = "DeleteRow" THEN TRUE ELSE lost
-----------------------------------------------------------------------------
(* The start job *)

\* A start is skipped when the app has an active schedule, or when it is so late
\* that its date is over.
Skipped(e) ==
  \/ Active # {}
  \/ e.schedule \notin Recurring /\ e.start >= EndOf(e.schedule, e.start)

\* An error of the query ends the job for good.
Check(t) ==
  /\ At(t, "Check")
  /\ \/ Fault("Database") /\ Complete(t)
     \/ Skipped(exec[t]) /\ Complete(t) /\ UNCHANGED faults
     \/ /\ ~Skipped(exec[t])
        /\ GoTo(t, IF "row" \in exec[t].data.done THEN "ScheduleEnd" ELSE "DeleteRows")
        /\ UNCHANGED <<quartz, faults>>
  /\ UNCHANGED <<rows, deleting, clock, lost>>

DeleteRows(t) ==
  /\ At(t, "DeleteRows")
  /\ \/ Fault("Database") /\ Reschedule(t, "database") /\ UNCHANGED rows
     \/ /\ rows' = [s \in Schedule |-> None]
        /\ GoTo(t, "Create")
        /\ UNCHANGED <<quartz, faults, lost>>
  /\ UNCHANGED <<deleting, clock>>

Done(data, what) == [data EXCEPT !.done = @ \cup {what}]

HasDone(t, what, label) ==
  exec' = [exec EXCEPT ![t] = [@ EXCEPT !.pc = label,
                                        !.data = Done(exec[t].data, what)]]

\* The id of a schedule is the key of the table.
Create(t) ==
  LET s == exec[t].schedule
  IN  /\ At(t, "Create")
      /\ \/ Fault("Database") /\ Reschedule(t, "database") /\ UNCHANGED rows
         \/ /\ rows[s] # None
            /\ Reschedule(t, "database") /\ UNCHANGED <<rows, faults>>
         \/ /\ rows[s] = None
            /\ rows' = [rows EXCEPT ![s] = exec[t].start]
            /\ HasDone(t, "row", "ScheduleEnd")
            /\ UNCHANGED <<quartz, faults, lost>>
      /\ UNCHANGED <<deleting, clock>>

\* The end job takes the data of the start job with it, its counters included.
NewEndJob(e) == [ schedule |-> e.schedule, start |-> e.start, data |-> e.data,
                  at |-> EndOf(e.schedule, e.start) ]

\* An error is only logged.
ScheduleEnd(t) ==
  /\ At(t, "ScheduleEnd")
  /\ \/ /\ "end" \in exec[t].data.done
        /\ GoTo(t, "NotifyStart") /\ UNCHANGED <<endJobs, faults, lost>>
     \/ /\ "end" \notin exec[t].data.done
        /\ Fault("Quartz") /\ lost' = TRUE
        /\ GoTo(t, "NotifyStart") /\ UNCHANGED endJobs
     \/ /\ "end" \notin exec[t].data.done /\ QuartzFree
        /\ endJobs' = endJobs \cup {NewEndJob(exec[t])}
        /\ HasDone(t, "end", "NotifyStart")
        /\ UNCHANGED <<faults, lost>>
  /\ UNCHANGED <<installed, ever, fireAt, jobData, rows, deleting, clock>>

\* An error the engine answers with is only logged; a job whose request gets no
\* answer is rescheduled.
Notify(t, answer) ==
  /\ \/ answer = "done" /\ Complete(t) /\ UNCHANGED <<faults, lost>>
     \/ answer = "failed" /\ Fault("Engine") /\ Complete(t) /\ UNCHANGED lost
     \/ answer = "none" /\ Fault("Network") /\ Reschedule(t, "network")
  /\ UNCHANGED <<rows, deleting, clock>>

Answers == {"done", "failed", "none"}

NotifyStart(t, answer) == At(t, "NotifyStart") /\ Notify(t, answer)
-----------------------------------------------------------------------------
(* The end job *)

\* mutant: the row is deleted by the schedule's id alone.
Owned_ById(e) == rows[e.schedule] # None

\* The row this end job is for: the one of its start job, not of a later start of
\* the schedule.
Owned(e) == rows[e.schedule] = e.start

DeleteRow(t) ==
  /\ At(t, "DeleteRow")
  /\ \/ Fault("Database") /\ Reschedule(t, "database") /\ UNCHANGED rows
     \/ /\ rows' = IF Owned(exec[t]) THEN [rows EXCEPT ![exec[t].schedule] = None]
                                     ELSE rows
        /\ GoTo(t, "NotifyEnd")
        /\ UNCHANGED <<quartz, faults, lost>>
  /\ UNCHANGED <<deleting, clock>>

NotifyEnd(t, answer) == At(t, "NotifyEnd") /\ Notify(t, answer)
-----------------------------------------------------------------------------
(* Policies *)

\* The schedules of a policy are created in one transaction.  A start that has
\* passed is not made up for.
CreateSchedules(p) ==
  /\ installed = {} /\ QuartzFree /\ p \cap ever = {}
  /\ installed' = p /\ ever' = ever \cup p
  /\ fireAt' = StartTimes(p, clock)
  /\ UNCHANGED <<jobData, endJobs, rows, exec, deleting, clock, faults, lost>>

\* A transaction that deletes the schedules, their start jobs and the end jobs of
\* those that are active, then the active schedules, and notifies the engine of
\* each.  It sees what jobs do to the table meanwhile.
BeginDelete ==
  /\ installed # {} /\ QuartzFree
  /\ deleting' = {<<s, rows[s]>> : s \in installed \cap Active}
  /\ UNCHANGED <<quartz, rows, exec, clock, faults, lost>>

\* mutant: end jobs stay, and so do the rows they are for.
FinishDelete_JobsOnly ==
  /\ deleting # None
  /\ deleting' = None
  /\ installed' = {}
  /\ fireAt' = StartTimes({}, clock)
  /\ endJobs' = {j \in endJobs : <<j.schedule, j.start>> \notin deleting}
  /\ UNCHANGED <<ever, jobData, rows, exec, clock, faults, lost>>

FinishDelete ==
  /\ deleting # None
  /\ deleting' = None
  /\ installed' = {}
  /\ fireAt' = StartTimes({}, clock)
  /\ endJobs' = {j \in endJobs : <<j.schedule, j.start>> \notin deleting}
  /\ rows' = [s \in Schedule |-> None]
  /\ UNCHANGED <<ever, jobData, exec, clock, faults, lost>>

\* A notification that fails rolls the transaction back.
AbortDelete ==
  /\ deleting # None /\ Active # {}
  /\ Fault("Engine") \/ Fault("Network")
  /\ deleting' = None
  /\ UNCHANGED <<quartz, rows, exec, clock, lost>>
-----------------------------------------------------------------------------
\* The scheduler dies and starts again: jobs that ran are not run again.
Crash ==
  /\ Fault("Crash")
  /\ exec' = [t \in Thread |-> None]
  /\ deleting' = None
  /\ lost' = TRUE
  /\ UNCHANGED <<quartz, rows, clock>>

Tick ==
  /\ clock < MaxTime
  /\ clock' = clock + 1
  /\ UNCHANGED <<quartz, rows, exec, deleting, faults, lost>>

Fire ==
  \E t \in Thread :
    \/ \E s \in Schedule : FireStart(t, s)
    \/ \E job \in endJobs : FireEnd(t, job)

UseDatabase(t) ==
  Check(t) \/ DeleteRows(t) \/ Create(t) \/ ScheduleEnd(t) \/ DeleteRow(t)

\* The steps the scaling engine has no part in.
Internal ==
  \/ Fire
  \/ \E t \in Thread : UseDatabase(t)
  \/ \E p \in Policies : CreateSchedules(p)
  \/ BeginDelete \/ Crash \/ Tick

JobsNext ==
  \/ Internal
  \/ \E t \in Thread, answer \in Answers :
       NotifyStart(t, answer) \/ NotifyEnd(t, answer)
  \/ FinishDelete \/ AbortDelete

JobsSpec == JobsInit /\ [][JobsNext]_jobVars

\* Quartz has threads for its triggers; requests and transactions end.
Execute(t) ==
  \/ UseDatabase(t)
  \/ \E answer \in Answers : NotifyStart(t, answer) \/ NotifyEnd(t, answer)

JobsFairness ==
  /\ WF_jobVars(Fire) /\ WF_jobVars(Tick) /\ WF_jobVars(FinishDelete)
  /\ \A t \in Thread : WF_jobVars(Execute(t))

FairJobs == JobsSpec /\ JobsFairness
-----------------------------------------------------------------------------
(* Properties *)

\* An active schedule stays active until it ends: its row is deleted at its end,
\* with its policy, or by a start that found no active schedule just before.  No
\* end of an earlier start, however late, takes it away.
StaysUntilEnd ==
  [][ \A s \in Active :
        rows'[s] # rows[s]
          => \/ clock >= EndOf(s, rows[s])
             \/ deleting # None /\ deleting' = None
             \/ \E t \in Thread : At(t, "DeleteRows") ]_jobVars

\* An active schedule ends: its row does not stay and block all others of the app,
\* whatever database and engine do.  (If the scheduler does not crash, Quartz takes
\* the end job, and that is not rescheduled too often; the reschedulings of its start
\* job count.)
RowsEnd == \A s \in Schedule : rows[s] # None ~> rows[s] = None \/ lost
=============================================================================
