----------------------------- MODULE MCPolicies -----------------------------
(* Policies of one application, two runs of the synchronizer that overlap. *)
EXTENDS Policies

CONSTANTS a1, s1, s2

OneApp   == {a1}
TwoSyncs == {s1, s2}
=============================================================================
