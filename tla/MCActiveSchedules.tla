-------------------------- MODULE MCActiveSchedules --------------------------
(***************************************************************************)
(* Small instances of ActiveSchedules.                                     *)
(***************************************************************************)
EXTENDS ActiveSchedules, TLC

CONSTANTS daily, date

\* A schedule, and one of the policy that replaces its own.
OneStart == daily :> {1} @@ date :> {2}
OneEnd   == daily :> {2} @@ date :> {3}
Replaced == {{daily}, {date}}
=============================================================================
