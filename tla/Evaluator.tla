------------------------------- MODULE Evaluator -------------------------------
(***************************************************************************)
(* SimpleEvaluator of the solver: how good the squares of a position are.  *)
(* A square counts for the hits it has taken of the two it can take, more  *)
(* towards the bottom.                                                     *)
(***************************************************************************)
EXTENDS Board, Functions

EvaluateFromTop(states) ==  \* fault: rows are counted from one too high
    SumFunction([x \in Cell |-> (Rows - 1 - x[1]) * (2 - states[x])])

Evaluate(states) ==
    SumFunction([x \in Cell |-> (Rows - x[1]) * (2 - states[x])])
==============================================================================
