--------------------------- MODULE MCSchedulerJobs ---------------------------
(***************************************************************************)
(* Small instances of SchedulerJobs.                                       *)
(***************************************************************************)
EXTENDS SchedulerJobs, TLC

CONSTANTS daily, date

\* A schedule that starts twice, and one for a date.
TwoStarts == daily :> {1, 3} @@ date :> {1}
TwoEnds   == daily :> {2, 4} @@ date :> {2}

\* A policy with both, which the app has from the beginning or is given later.
Together  == {{daily, date}}
Later     == Together \cup {{}}
=============================================================================
