-------------------------- MODULE SearcherRefinement --------------------------
(***************************************************************************)
(* Searcher and the loop of main implement SolverSpec, when the server     *)
(* leaves GetBestMove the time to return (Paced) and the game was read     *)
(* from a file with a gamestate.  What a request sets off, in all threads, *)
(* is invisible until main has played the answer.                          *)
(***************************************************************************)
EXTENDS SearcherProps

Phase ==
    CASE main = "listen" -> "idle"
      [] main = "spinning" -> "deaf"
      [] main \in {"exit", "terminated"} -> "over"
      [] OTHER -> IF msg = "bye" THEN "dismissed" ELSE "asked"

Solver == INSTANCE SolverSpec WITH path <- live.path, phase <- Phase

(* Every request is answered by a move that is legal in the live game and  *)
(* played once, or by the end of the program: no answer of an earlier      *)
(* search, no move of another board, no answer to bye (the loop in hw6.cc).*)
ImplementsSolver == Solver!Spec
==============================================================================
