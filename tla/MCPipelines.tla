----------------------------- MODULE MCPipelines -----------------------------
(***************************************************************************)
(* Two apps; channels with room for one message, so that they are full as  *)
(* often as can be; two processors and two emitters, one for each app.     *)
(***************************************************************************)
EXTENDS Pipelines

CONSTANTS a1, a2

MCApps == {a1, a2}
MCOf == a1 :> 1 @@ a2 :> 2
=============================================================================
