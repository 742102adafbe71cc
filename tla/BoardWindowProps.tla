--------------------------- MODULE BoardWindowProps ---------------------------
(***************************************************************************)
(* What the user of the hw3 window sees, with one window or with several.  *)
(***************************************************************************)
EXTENDS BoardWindow

Pointers == {Pointer(file, k) : k \in 1..Len(file.data)}
Colors == UNION {{f.data[k] : k \in 1..Len(f.data)} : f \in Files}
Showing == windows # <<>>

(* Every variable keeps its range; a board that was read is filled.        *)
TypeOK ==
    /\ IF Showing THEN /\ board.rows = file.rows /\ board.cols = file.columns
                       /\ DOMAIN board.arr = 0..(file.rows * file.columns - 1)
                       /\ \A i \in DOMAIN board.arr : board.arr[i] \in Pointers
       ELSE board = NULL
    /\ Len(windows) <= MaxOpens
    /\ \A w \in DOMAIN windows :
          /\ windows[w].open \in BOOLEAN /\ windows[w].label \in 0..moves
          /\ \A b \in DOMAIN windows[w].image : windows[w].image[b] \in Colors
    /\ selected = NoButton \/ selected.window \in DOMAIN windows
    /\ moves \in 0..MaxMoves /\ running \in {"running", "exited", "ended"}
    /\ file \in Files /\ elsewhere \in BOOLEAN

(* Swaps neither lose nor repeat a candy, so that Array2D_destroy frees    *)
(* each of them, and none of them twice.                                   *)
EachFreedOnce ==
    Showing => \A p \in Pointers : \E i \in DOMAIN board.arr : FreedOf(board, p) = {i}

(* Although a swap draws two buttons only, the newest window shows the     *)
(* whole board, unless another window has been used since it was opened;   *)
(* its label counts the swaps of all windows.                              *)
WindowShowsBoard ==
    Opened(Newest) =>
        LET new == windows[Newest] IN
        /\ new.label = moves
        /\ ~elsewhere => \A b \in DOMAIN new.image :
                            new.image[b] = ColorFor(board, b[1], b[2])

(* In the window in use, the candy that was selected moves to the button   *)
(* the arrow points at, as the user sees it, and the candy there to the    *)
(* button that was selected.                                               *)
Beside(b, arrow) ==
    CASE arrow = "left" -> <<b[1], b[2] - 1>>
      [] arrow = "right" -> <<b[1], b[2] + 1>>
      [] arrow = "up" -> <<b[1] - 1, b[2]>>
      [] arrow = "down" -> <<b[1] + 1, b[2]>>
MovesAsPointed(arrow) ==
    LET b == selected.button
        before == windows[Newest].image
        after == windows'[Newest].image
    IN  Swap(Newest, arrow) /\ selected.window = Newest /\ ~elsewhere =>
            /\ Beside(b, arrow) \in DOMAIN before
            /\ after = [before EXCEPT ![b] = before[Beside(b, arrow)],
                                      ![Beside(b, arrow)] = before[b]]
SwapMovesAsPointed == [][\A arrow \in Arrows : MovesAsPointed(arrow)]_vars
==============================================================================
