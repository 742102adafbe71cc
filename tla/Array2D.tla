-------------------------------- MODULE Array2D --------------------------------
(***************************************************************************)
(* The two-dimensional array of hw2, which every program of the repository *)
(* keeps its boards in: a block of rows * cols pointers addressed by row   *)
(* and column.  NULL stands for the null pointer, as an array and as data. *)
(* A call that may change the array returns its code and the array after.  *)
(***************************************************************************)
EXTENDS Integers

CONSTANTS NULL,
          Uninit   \* what malloc leaves in the block

Array2D_create(rows, cols) ==
    IF rows < 1 \/ cols < 1 THEN NULL
    ELSE [rows |-> rows, cols |-> cols,
          arr |-> [i \in 0..(rows * cols - 1) |-> Uninit]]

VerifyArray2D(a, row, col) ==
    CASE a = NULL -> 0
      [] a # NULL /\ row \notin 0..(a.rows - 1) -> -1
      [] a # NULL /\ row \in 0..(a.rows - 1) /\ col \notin 0..(a.cols - 1) -> -2
      [] OTHER -> 1

At(a, row, col) == row * a.cols + col

Array2D_get(a, row, col) == a.arr[At(a, row, col)]

Result(code, a) == [code |-> code, array |-> a]

Array2D_set(a, row, col, data) ==
    LET v == VerifyArray2D(a, row, col) IN
    IF v < 1 THEN Result(v, a)
    ELSE IF data = NULL THEN Result(-3, a)
    ELSE Result(1, [a EXCEPT !.arr[At(a, row, col)] = data])

Array2D_swapHalf(a, r1, c1, r2, c2) ==  \* fault: the second cell is not written
    LET v1 == VerifyArray2D(a, r1, c1)
        v2 == VerifyArray2D(a, r2, c2)
    IN  IF v1 < 1 THEN Result(v1, a)
        ELSE IF v2 < 1 THEN Result(v2, a)
        ELSE Result(1, [a EXCEPT !.arr[At(a, r1, c1)] = Array2D_get(a, r2, c2)])

Array2D_swap(a, r1, c1, r2, c2) ==
    LET v1 == VerifyArray2D(a, r1, c1)
        v2 == VerifyArray2D(a, r2, c2)
    IN  IF v1 < 1 THEN Result(v1, a)
        ELSE IF v2 < 1 THEN Result(v2, a)
        ELSE IF Array2D_get(a, r1, c1) = NULL THEN Result(-3, a)
        ELSE IF Array2D_get(a, r2, c2) = NULL THEN Result(-4, a)
        ELSE Result(1, [a EXCEPT !.arr[At(a, r1, c1)] = Array2D_get(a, r2, c2),
                                 !.arr[At(a, r2, c2)] = Array2D_get(a, r1, c1)])

(* The places for which Array2D_destroy calls its function with pointer p. *)
FreedOf(a, p) == {i \in DOMAIN a.arr : a.arr[i] = p}
==============================================================================
