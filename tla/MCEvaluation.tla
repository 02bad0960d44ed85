---------------------------- MODULE MCEvaluation ----------------------------
(***************************************************************************)
(* One app with a rule to scale out and one, of another metric type, to    *)
(* scale in, and two evaluators that may hold its triggers together.       *)
(***************************************************************************)
EXTENDS Evaluation

OutAndIn == << [type |-> "cpu", adjustment |-> [unit |-> "step", value |-> 1]],
               [type |-> "mem", adjustment |-> [unit |-> "step", value |-> -1]] >>

FirstOrNone == {{}, Apps \X {1}}
=============================================================================
