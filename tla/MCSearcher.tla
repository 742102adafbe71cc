------------------------------ MODULE MCSearcher ------------------------------
(***************************************************************************)
(* A small game tree for Searcher: a first move decides which moves follow *)
(* it, several lines have equal scores, and one first loses and then wins. *)
(***************************************************************************)
EXTENDS SearcherRefinement

CONSTANTS Lines     \* the number of moves after which no move is left

A == [row |-> 0, col |-> 0, direction |-> 1]
B == [row |-> 0, col |-> 1, direction |-> 2]
C == [row |-> 1, col |-> 0, direction |-> 1]
MCMoves == {A, B, C}
MCWorst == -9
MCLegal(path) ==
    IF Len(path) >= Lines THEN <<>>
    ELSE CASE path = <<A>> -> <<B, C>>
           [] path = <<B>> -> <<B>>
           [] OTHER -> <<A, B>>
MCScore(path) ==
    CASE path = <<A>> -> 2
      [] path = <<B>> -> 1
      [] path = <<B, B>> -> 3
      [] OTHER -> 2

(* A search that is not interrupted evaluates every position there is.     *)
SearchExhausts ==
    (main = "listen" /\ th = "ended")
        ~> (main # "listen" \/ seen = Reachable(Lines))
==============================================================================
