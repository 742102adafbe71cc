------------------------------ MODULE BoardWindow ------------------------------
(***************************************************************************)
(* The window program of hw3: it shows a board read from a file and swaps  *)
(* the candy the user selected with the one an arrow points at, without    *)
(* any rules of the game.  After a swap only two buttons are drawn again.  *)
(*                                                                         *)
(* board, selected, moves and label are global variables.  GTK keeps one   *)
(* process per application: starting the program once more hands the file  *)
(* to the running process, whose open handler replaces the board and opens *)
(* another window next to the ones there are.                              *)
(*                                                                         *)
(* hw3.c connects the handler as `activate`, its header declares it as     *)
(* activatecc and hw3Callbacks.c defines it as ccactivate; the model takes *)
(* the definition.                                                         *)
(***************************************************************************)
EXTENDS Array2D, Sequences

CONSTANTS Files,     \* boards a file may hold: [rows, columns, data]
          MaxOpens, MaxMoves,  \* bounds of the model
          NoButton

ASSUME BoardWindowAssumption ==
    /\ \A f \in Files : /\ f.rows \in Nat \ {0} /\ f.columns \in Nat \ {0}
                        /\ Len(f.data) = f.rows * f.columns
    /\ MaxOpens \in Nat /\ MaxMoves \in Nat

VARIABLES board,     \* Array2D of pointers to candies
          windows,   \* the windows there have been: open, image, label
          selected,  \* the button selected, and its window
          moves,
          running,   \* "running", "exited", or "ended" after undefined behaviour
          file,      \* history variable: what the board was read from
          elsewhere  \* history variable: swaps came from another window

vars == <<board, windows, selected, moves, running, file, elsewhere>>

-----------------------------------------------------------------------------
(* The pointer to the k-th number of a file; its candy keeps its colour.   *)
Pointer(f, k) == [at |-> k, color |-> f.data[k]]

(* deserialize_array: the loop sets cell i / columns, i % columns.         *)
ReadIn(f, width) ==
    LET after[i \in 0..Len(f.data)] ==
            IF i = 0 THEN Array2D_create(f.rows, f.columns)
            ELSE Array2D_set(after[i - 1], (i - 1) \div width, (i - 1) % width,
                             Pointer(f, i)).array
    IN  after[Len(f.data)]
deserialize_arrayByRows(f) ==  \* fault: the rows are taken for the columns
    ReadIn(f, f.rows)
deserialize_array(f) == ReadIn(f, f.columns)

(* The button in row i and column j of a window shows the candy there,     *)
(* counted from the bottom.                                                *)
ColorFor(a, i, j) == Array2D_get(a, a.rows - i - 1, j).color

(* The "bits" of the arrows, and the masks that make steps of them. *)
Arrows == {"up", "left", "right", "down"}
bitsMirrored(arrow) ==  \* fault: left and right are interchanged
    CASE arrow = "up" -> 8 [] arrow = "right" -> 4
      [] arrow = "down" -> 2 [] arrow = "left" -> 1
bits(arrow) ==
    CASE arrow = "up" -> 8 [] arrow = "left" -> 4
      [] arrow = "down" -> 2 [] arrow = "right" -> 1
Bit(b, w) == (b \div w) % 2
ud(arrow) == Bit(bits(arrow), 8) - Bit(bits(arrow), 2)
lr(arrow) == Bit(bits(arrow), 1) - Bit(bits(arrow), 4)

Opened(w) == w \in DOMAIN windows /\ windows[w].open
Stale == selected # NoButton /\ ~Opened(selected.window)
Newest == Len(windows)

Init ==
    /\ board = NULL /\ windows = <<>> /\ selected = NoButton /\ moves = 0
    /\ running = "running" /\ file \in Files /\ elsewhere = FALSE

-----------------------------------------------------------------------------
(* open, and the window activate makes. *)
Open(f) ==
    /\ running = "running" /\ Len(windows) < MaxOpens
    /\ board' = deserialize_array(f) /\ file' = f /\ elsewhere' = FALSE
    /\ windows' = Append(windows,
          [open |-> TRUE, label |-> moves,
           image |-> [b \in (0..(f.rows - 1)) \X (0..(f.columns - 1)) |->
                         ColorFor(board', b[1], b[2])]])
    /\ UNCHANGED <<selected, moves, running>>

(* The relief of a button that was destroyed may be written. *)
Select(w, b) ==
    /\ running = "running" /\ Opened(w) /\ b \in DOMAIN windows[w].image
    /\ \/ selected' = [window |-> w, button |-> b] /\ UNCHANGED running
       \/ Stale /\ running' = "ended" /\ UNCHANGED selected
    /\ UNCHANGED <<board, windows, moves, file, elsewhere>>

(* Where the grid of window w says the selected button is.  The button of  *)
(* another window has no place in it: both values stay 0.  A button that   *)
(* was destroyed may be anywhere.                                          *)
PlaceIn(w) ==
    IF Stale THEN DOMAIN windows[w].image
    ELSE IF selected.window = w THEN {selected.button} ELSE {<<0, 0>>}

SwapAt(b, arrow) ==
    LET r == board.rows - b[1] - 1 IN
    Array2D_swap(board, r, b[2], r + ud(arrow), b[2] + lr(arrow))
Other(b, arrow) == <<b[1] - ud(arrow), b[2] + lr(arrow)>>

(* redraw of the two buttons in the grid of w, where it has them, and      *)
(* writeMoves to the label made last, if it is still there.                *)
redrawOne(w, b, c) ==  \* fault: only the first button is drawn again
    [windows EXCEPT ![w].image =
        [x \in DOMAIN @ |-> IF x = b THEN ColorFor(board', x[1], x[2]) ELSE @[x]]]
redraw(w, b, c) ==
    [windows EXCEPT ![w].image =
        [x \in DOMAIN @ |-> IF x \in {b, c} THEN ColorFor(board', x[1], x[2])
                                            ELSE @[x]]]

Swap(w, arrow) ==
    /\ running = "running" /\ Opened(w) /\ selected # NoButton
    /\ moves < MaxMoves /\ moves' = moves + 1
    /\ \E b \in PlaceIn(w) :
          /\ SwapAt(b, arrow).code = 1
          /\ board' = SwapAt(b, arrow).array
          /\ windows' = [redraw(w, b, Other(b, arrow)) EXCEPT
                ![Newest].label = IF Opened(Newest) THEN moves' ELSE @]
    /\ selected' = NoButton
    /\ running' \in IF Stale \/ ~Opened(Newest) THEN {"running", "ended"}
                                                ELSE {"running"}
    /\ elsewhere' = (elsewhere \/ w # Newest)
    /\ UNCHANGED file

(* "Error: cannot swap candy off board!", "Error: no candy selected!" *)
RefuseSwap(w, arrow) ==
    /\ running = "running" /\ Opened(w)
    /\ selected # NoButton => \E b \in PlaceIn(w) : SwapAt(b, arrow).code # 1
    /\ running' \in IF Stale THEN {"running", "ended"} ELSE {"running"}
    /\ UNCHANGED <<board, windows, selected, moves, file, elsewhere>>

(* With the last window the application ends, and main frees the board. *)
Close(w) ==
    /\ running = "running" /\ Opened(w)
    /\ windows' = [windows EXCEPT ![w].open = FALSE]
    /\ running' = IF \E v \in DOMAIN windows : v # w /\ Opened(v)
                  THEN "running" ELSE "exited"
    /\ UNCHANGED <<board, selected, moves, file, elsewhere>>

-----------------------------------------------------------------------------
Next ==
    \/ \E f \in Files : Open(f)
    \/ \E w \in DOMAIN windows :
          \/ Close(w)
          \/ \E b \in DOMAIN windows[w].image : Select(w, b)
          \/ \E arrow \in Arrows : Swap(w, arrow) \/ RefuseSwap(w, arrow)

Spec == Init /\ [][Next]_vars
==============================================================================
