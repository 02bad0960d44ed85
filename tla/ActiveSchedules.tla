--------------------------- MODULE ActiveSchedules ---------------------------
(***************************************************************************)
(* Who is active?  The scheduler with its table of active schedules        *)
(* (SchedulerJobs) and the scaling engine with its own, for one app: the   *)
(* scheduler's notifications, which may fail, get lost or be late, and the *)
(* synchronizations that the operator asks the engine for.                 *)
(*                                                                         *)
(* A start or end of a schedule is one step of the scaling engine here:    *)
(* ScalingEngine has the steps, and AppExclusion says why that is enough.  *)
(***************************************************************************)
EXTENDS SchedulerJobs

CONSTANT Syncs  \* synchronizations that may run at the same time

VARIABLES
  engine,  \* the active schedule in the engine's table, if there is one
  late,    \* requests to the engine whose sender has given up
  sync     \* each synchronization, and what it has read

vars == <<jobVars, engine, late, sync>>

NoSync == [pc |-> "idle", want |-> None, have |-> None]

Init ==
  /\ JobsInit
  /\ engine = None
  /\ late = {}
  /\ sync = [y \in Syncs |-> NoSync]
-----------------------------------------------------------------------------
(* Requests: a start replaces the active schedule, an end is for one schedule *)

After(r) ==
  IF r.op = "put" THEN r.schedule
  ELSE IF engine = r.schedule THEN None ELSE engine

\* A request that fails may have taken effect, and a start may have removed the
\* schedule that was active before.
AfterFailure(r) == {engine, After(r)} \cup (IF r.op = "put" THEN {None} ELSE {})

\* A request without an answer may have been lost, or the engine is working on it.
Handle(r, answer) ==
  \/ answer = "done" /\ engine' = After(r) /\ UNCHANGED late
  \/ answer = "failed" /\ engine' \in AfterFailure(r) /\ UNCHANGED late
  \/ answer = "none" /\ late' \in {late, late \cup {r}} /\ UNCHANGED engine

Start(t, answer) ==
  /\ NotifyStart(t, answer)
  /\ Handle([op |-> "put", schedule |-> exec[t].schedule], answer)
  /\ UNCHANGED sync

End(t, answer) ==
  /\ NotifyEnd(t, answer)
  /\ Handle([op |-> "delete", schedule |-> exec[t].schedule], answer)
  /\ UNCHANGED sync

Deliver(r) ==
  /\ late' = late \ {r}
  /\ engine' = After(r)
  /\ UNCHANGED <<jobVars, sync>>

\* A deletion of the policy ends all its active schedules; if it is rolled back,
\* they may have ended in the engine all the same.
DeletePolicy ==
  /\ FinishDelete
  /\ engine' = IF engine \in Active THEN None ELSE engine
  /\ UNCHANGED <<late, sync>>

DeletePolicyFails ==
  /\ AbortDelete
  /\ engine' \in {engine} \cup (IF engine \in Active THEN {None} ELSE {})
  /\ UNCHANGED <<late, sync>>
-----------------------------------------------------------------------------
(* Synchronization *)

\* Of several active schedules of an app, the last row read wins.
ReadScheduler(y) ==
  /\ sync[y].pc = "idle"
  /\ \E s \in IF Active = {} THEN {None} ELSE Active :
       sync' = [sync EXCEPT ![y] = [@ EXCEPT !.pc = "readEngine", !.want = s]]
  /\ UNCHANGED <<jobVars, engine, late>>

\* A table that cannot be read ends the synchronization.
ReadEngine(y) ==
  /\ sync[y].pc = "readEngine"
  /\ \/ /\ sync' = [sync EXCEPT ![y] = [@ EXCEPT !.pc = "act", !.have = engine]]
        /\ UNCHANGED faults
     \/ Fault("Engine") /\ sync' = [sync EXCEPT ![y] = NoSync]
  /\ UNCHANGED <<quartz, rows, exec, deleting, clock, lost, engine, late>>

\* mutant: a schedule that is active in the engine is taken for the right one.
Corrections_Missing(want, have) ==
  IF want # None
  THEN IF have = None THEN {[op |-> "put", schedule |-> want]} ELSE {}
  ELSE IF have # None
  THEN {[op |-> "delete", schedule |-> have]} ELSE {}

Corrections(want, have) ==
  IF want = have THEN {}
  ELSE IF want # None
  THEN {[op |-> "put", schedule |-> want]}
  ELSE {[op |-> "delete", schedule |-> have]}

\* Errors of the engine's operations are ignored.
Act(y) ==
  LET todo == Corrections(sync[y].want, sync[y].have)
  IN  /\ sync[y].pc = "act"
      /\ sync' = [sync EXCEPT ![y] = NoSync]
      /\ \/ todo = {} /\ UNCHANGED <<engine, faults>>
         \/ \E r \in todo : engine' = After(r) /\ UNCHANGED faults
         \/ \E r \in todo : Fault("Engine") /\ engine' \in AfterFailure(r)
      /\ UNCHANGED <<quartz, rows, exec, deleting, clock, lost, late>>

Sync(y) == ReadScheduler(y) \/ ReadEngine(y) \/ Act(y)
-----------------------------------------------------------------------------
Next ==
  \/ Internal /\ UNCHANGED <<engine, late, sync>>
  \/ \E t \in Thread, answer \in Answers : Start(t, answer) \/ End(t, answer)
  \/ \E r \in late : Deliver(r)
  \/ DeletePolicy \/ DeletePolicyFails
  \/ \E y \in Syncs : Sync(y)

Spec == Init /\ [][Next]_vars

\* The operator asks for synchronizations at every tick, and the engine does what
\* it was asked for.
Fairness ==
  /\ WF_vars(Fire /\ UNCHANGED <<engine, late, sync>>)
  /\ WF_vars(Tick /\ UNCHANGED <<engine, late, sync>>)
  /\ \A t \in Thread :
       /\ WF_vars(UseDatabase(t) /\ UNCHANGED <<engine, late, sync>>)
       /\ WF_vars(\E answer \in Answers : Start(t, answer) \/ End(t, answer))
  /\ WF_vars(DeletePolicy)
  /\ \A y \in Syncs : WF_vars(Sync(y))
  /\ WF_vars(\E r \in late : Deliver(r))

FairSpec == Spec /\ Fairness
-----------------------------------------------------------------------------
(* Properties *)

Agreed == IF Active = {} THEN engine = None ELSE engine \in Active

\* Once no schedule starts or ends any more, the scaling engine has the schedule
\* that is active in the scheduler, and no other, whatever requests were lost,
\* late, or answered with an error, and whenever the scheduler crashed.
EngineAgrees == <>[]Agreed
=============================================================================
