---------------------------- MODULE GameEngineProps ----------------------------
(***************************************************************************)
(* What must be true of a Game object, and the stronger facts about its    *)
(* loops that make it true.                                                *)
(***************************************************************************)
EXTENDS GameEngine, Evaluator

(* Every variable keeps its range; squares never go below zero, offsets    *)
(* only name rows the extension board can be asked for.                    *)
TypeOK ==
    /\ candies \in [Cell -> Candy] /\ squares \in [Cell -> Nat]
    /\ extBoard \in [ExtCell -> Candy] /\ extOffset \in [ColIds -> Nat]
    /\ score \in Int /\ moves \in Int /\ played \in Nat
    /\ pc \in {"new", "scan", "fall", "idle"}
    /\ t \in 0..4 /\ row \in Nat /\ col \in Nat /\ cap \in Int
    /\ fired \in BOOLEAN /\ counter \in Nat
    /\ pair \in Cell \X Cell
    /\ caller \in {"Init", "Swap"} /\ code \in {-1, 0, 1}
    /\ entry \in [candies: [Cell -> Candy], squares: [Cell -> Nat],
                  offset: [ColIds -> Nat], score: Int, moves: Int]

-----------------------------------------------------------------------------
(* Three equal candies in a line somewhere on the board.  Said of cells,   *)
(* not of Settle's loops: the scan ranges and templates are what this      *)
(* judges.                                                                 *)
ThreeInLine(f) ==
    \E r \in RowIds, c \in ColIds :
        /\ f[<<r, c>>] # Hole
        /\ \/ /\ r + 2 \in RowIds
              /\ f[<<r + 1, c>>] = f[<<r, c>>] /\ f[<<r + 2, c>>] = f[<<r, c>>]
           \/ /\ c + 2 \in ColIds
              /\ f[<<r, c + 1>>] = f[<<r, c>>] /\ f[<<r, c + 2>>] = f[<<r, c>>]

(* On a board at least as wide as it is high, no call ends with a hole on  *)
(* the board: ApplyGravity may stop each column at its cap.                *)
FullAtRest == pc = "idle" => Full(candies)

(* When Init or an accepted move ends, nothing on the board still matches, *)
(* unless Settle ran out of passes.                                        *)
SettledOrCapped ==
    pc = "idle" /\ (caller = "Init" \/ code = 1)
        => ~ThreeInLine(candies) \/ counter >= MaxSettle

(* A swap that is refused (-1) or that makes nothing fire (0) leaves no    *)
(* trace, although Settle scanned the exchanged board in place.            *)
RejectedRestores ==
    pc = "idle" /\ caller = "Swap" /\ code < 1 => Snapshot = entry

(* Swap accepts exactly the moves that put three equal candies in a line:  *)
(* what the probe of GenerateMoves, Settle(false), finds beforehand is     *)
(* what the move does later.                                               *)
AcceptedIffLine ==
    pc = "idle" /\ caller = "Swap" /\ code # -1
        => (code = 1 <=> ThreeInLine(Exchange(entry.candies, pair[1], pair[2])))

(* The moves GenerateMoves lists are accepted, and it lists every move     *)
(* that is, but for those along the top row or the last column.            *)
GeneratedIsAccepted ==
    pc = "idle" /\ caller = "Swap" /\ code # -1 =>
        LET listed == \E m \in GenerateMoves(entry.candies) :
                          {m[1], Neighbour(m[1], m[2])} = {pair[1], pair[2]}
            atEdge == \/ pair[1][1] = Rows - 1 /\ pair[2][1] = Rows - 1
                      \/ pair[1][2] = Cols - 1 /\ pair[2][2] = Cols - 1
        IN  IF atEdge THEN ~listed ELSE code = 1 <=> listed

(* Every point scored was taken off a square, at any moment of a call.     *)
ScoreAccounts ==
    pc # "new" =>
        score + SumFunction(squares) = entry.score + SumFunction(entry.squares)

(* What the solver maximises follows the score: each point of a call, in   *)
(* whatever cascade it was scored, is worth between one and Rows to        *)
(* Evaluate, so a move that scores is better than one that does not.       *)
EvaluationFollowsScore ==
    pc # "new" =>
        LET points == score - entry.score
        IN  Evaluate(squares) - Evaluate(entry.squares)
                \in points..(Rows * points)

(* The comment on the break of ApplyGravity's row loop: "everything above  *)
(* cap is from the extension board and so cannot be -1".                   *)
BreakSkipsNoHole ==
    pc = "fall" /\ col < Cols /\ candies[<<row, col>>] # Hole
        /\ row + 1 < Rows /\ row + 1 >= cap
    => \A r \in RowIds : r > row => candies[<<r, col>>] # Hole

(* Every call returns: gravity fills its holes and Settle bounds its       *)
(* passes, even on boards that match for ever.                             *)
CallReturns == (pc \in {"scan", "fall"}) ~> (pc = "idle")

-----------------------------------------------------------------------------
(* The invariants of the loops, from which the properties above follow on  *)
(* boards of every size.                                                   *)

(* The candies gravity takes are candies. *)
ExtensionRead == pc # "new" => extBoard \in [ExtCell -> Colors]

(* ApplyGravity has filled the columns left of col, the rows of col below  *)
(* row, and, cap having counted the ShiftDowns, as many rows at the top.   *)
GravityFills ==
    pc = "fall" =>
        /\ col <= Cols /\ cap <= Cols /\ (col < Cols => row < Rows)
        /\ \A x \in Cell :
              \/ x[2] < col
              \/ x[2] = col /\ (x[1] < row \/ x[1] >= Rows - (Cols - cap))
              => candies[x] # Hole

(* Only firing makes holes. *)
FullTillFired == pc = "scan" /\ ~fired => Full(candies)

(* The scan has left position <<u, r, c>> behind. *)
Behind(u, r, c) ==
    \/ u < t
    \/ u = t /\ r < row
    \/ u = t /\ r = row /\ c < col

(* A pass that has fired nothing yet has found no match so far. *)
NoMatchBehind ==
    pc = "scan" =>
        /\ col = 0 \/ (t \in Templates /\ col < ScanCols(t))
        /\ ~fired =>
             \A u \in Templates, r \in RowIds, c \in ColIds :
                InScan(u, r, c) /\ Behind(u, r, c) => ~Matches(candies, u, r, c)

(* What a swap has done so far: nothing but the exchange until something   *)
(* fires, and something only fires when the exchange made a line.          *)
SwapSoFar ==
    caller = "Swap" /\ pc # "idle" =>
        LET exchanged == Exchange(entry.candies, pair[1], pair[2]) IN
        /\ pc \in {"scan", "fall"} /\ (pc = "fall" => counter > 0)
        /\ IF ~fired /\ counter = 0
           THEN Snapshot = [entry EXCEPT !.candies = exchanged]
           ELSE ThreeInLine(exchanged)

(* Two cells side by side. *)
Adjacent(a, b) ==
    \/ a[1] = b[1] /\ (b[2] = a[2] + 1 \/ a[2] = b[2] + 1)
    \/ a[2] = b[2] /\ (b[1] = a[1] + 1 \/ a[1] = b[1] + 1)

(* The cells of a swap under way, or of the last one, are side by side. *)
PairAdjacent ==
    caller = "Swap" /\ (pc # "idle" \/ code # -1) => Adjacent(pair[1], pair[2])

FillInv == ExtensionRead /\ GravityFills /\ FullTillFired /\ FullAtRest
SettleInv ==
    /\ NoMatchBehind /\ SwapSoFar
    /\ SettledOrCapped /\ RejectedRestores /\ AcceptedIffLine
==============================================================================
