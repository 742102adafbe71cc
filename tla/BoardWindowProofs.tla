-------------------------- MODULE BoardWindowProofs ---------------------------
(***************************************************************************)
(* Theorems about the window of hw3, for any files, any number of windows  *)
(* and any number of swaps.                                                *)
(***************************************************************************)
EXTENDS BoardWindowProps, SequenceTheorems, WellFoundedInduction, TLAPS

-----------------------------------------------------------------------------
(* Where a cell lies in the block of an array.                             *)

LEMMA MoreIsMore ==
    ASSUME NEW a \in Nat, NEW b \in Nat, NEW c \in Nat, a <= b
    PROVE  a * c <= b * c
<1>1. PICK d \in Nat : b = a + d
  <2>1. b - a \in Nat /\ b = a + (b - a)
    OBVIOUS
  <2> QED
    BY <2>1
<1>2. b * c = a * c + d * c /\ d * c \in Nat /\ a * c \in Nat
  BY <1>1
<1> QED
  BY <1>2

LEMMA CellInBlock ==
    ASSUME NEW rows \in Nat \ {0}, NEW cols \in Nat \ {0},
           NEW r \in 0..(rows - 1), NEW c \in 0..(cols - 1)
    PROVE  r * cols + c \in 0..(rows * cols - 1)
<1>1. (r + 1) * cols <= rows * cols
  BY MoreIsMore
<1>2. (r + 1) * cols = r * cols + cols /\ r * cols \in Nat /\ rows * cols \in Nat
  OBVIOUS
<1> QED
  BY <1>1, <1>2

LEMMA CellsApart ==
    ASSUME NEW cols \in Nat \ {0}, NEW r \in Nat, NEW s \in Nat,
           NEW c \in 0..(cols - 1), NEW d \in 0..(cols - 1),
           r * cols + c = s * cols + d
    PROVE  r = s /\ c = d
<1>1. ASSUME NEW p \in Nat, NEW q \in Nat, p < q,
             NEW x \in 0..(cols - 1), NEW y \in 0..(cols - 1)
      PROVE  p * cols + x < q * cols + y
  <2>1. (p + 1) * cols <= q * cols
    BY <1>1, MoreIsMore
  <2>2. (p + 1) * cols = p * cols + cols /\ p * cols \in Nat /\ q * cols \in Nat
    OBVIOUS
  <2> QED
    BY <2>1, <2>2
<1>2. r * cols + c \in Nat /\ s * cols + d \in Nat
  OBVIOUS
<1>3. ~ (r < s) /\ ~ (s < r)
  BY <1>1, <1>2
<1>4. r = s
  BY <1>3
<1> QED
  BY <1>4, <1>2

(* The k-th number of a file goes to row k / columns, column k % columns.  *)
LEMMA PlaceOfNumber ==
    ASSUME NEW rows \in Nat \ {0}, NEW cols \in Nat \ {0},
           NEW k \in 0..(rows * cols - 1)
    PROVE  /\ k \div cols \in 0..(rows - 1) /\ k % cols \in 0..(cols - 1)
           /\ (k \div cols) * cols + (k % cols) = k
<1>0. k \in Nat
  OBVIOUS
<1>1. /\ k \div cols \in Nat /\ k % cols \in 0..(cols - 1)
      /\ (k \div cols) * cols + (k % cols) = k
  <2>1. k \div cols \in Nat /\ k % cols \in 0..(cols - 1)
    BY <1>0
  <2>2. k = cols * (k \div cols) + (k % cols)
    BY <1>0, SMTT(30)
  <2>3. \A q, x \in Int : k = cols * q + x => q * cols + x = k
    OBVIOUS
  <2>4. k \div cols \in Int /\ k % cols \in Int
    BY <2>1
  <2>5. (k \div cols) * cols + (k % cols) = k
    BY <2>2, <2>3, <2>4, Zenon
  <2> QED
    BY <2>1, <2>5, Zenon
<1>2. ASSUME rows <= k \div cols PROVE FALSE
  <2>1. rows * cols <= (k \div cols) * cols
    BY <1>1, <1>2, MoreIsMore
  <2> QED
    BY <1>1, <2>1
<1> QED
  BY <1>1, <1>2

-----------------------------------------------------------------------------
(* Reading a file.                                                         *)

(* The null pointer is neither an array nor a candy.                       *)
NullApart ==
    /\ \A rows, cols, arr : [rows |-> rows, cols |-> cols, arr |-> arr] # NULL
    /\ \A f \in Files : \A k \in 1..Len(f.data) : Pointer(f, k) # NULL

(* The array after the first i numbers of a file. *)
Filled(f, i) ==
    [rows |-> f.rows, cols |-> f.columns,
     arr |-> [c \in 0..(f.rows * f.columns - 1) |->
                 IF c < i THEN Pointer(f, c + 1) ELSE Uninit]]

LEMMA FillNone ==
    ASSUME NEW f \in Files
    PROVE  Array2D_create(f.rows, f.columns) = Filled(f, 0)
<1>1. f.rows \in Nat \ {0} /\ f.columns \in Nat \ {0}
  BY BoardWindowAssumption
<1>2. f.rows * f.columns \in Nat
  BY <1>1
<1>3. [c \in 0..(f.rows * f.columns - 1) |-> Uninit] = Filled(f, 0).arr
  BY <1>2 DEF Filled
<1>4. ~ (f.rows < 1 \/ f.columns < 1)
  BY <1>1
<1> QED
  BY <1>3, <1>4, Zenon DEF Array2D_create, Filled

LEMMA FillNext ==
    ASSUME NullApart, NEW f \in Files, NEW i \in 1..Len(f.data)
    PROVE  Array2D_set(Filled(f, i - 1), (i - 1) \div f.columns,
                       (i - 1) % f.columns, Pointer(f, i)).array = Filled(f, i)
<1> DEFINE a == Filled(f, i - 1)
           r == (i - 1) \div f.columns
           c == (i - 1) % f.columns
<1>1. /\ f.rows \in Nat \ {0} /\ f.columns \in Nat \ {0}
      /\ Len(f.data) = f.rows * f.columns
  BY BoardWindowAssumption
<1>2. f.rows * f.columns \in Nat /\ i - 1 \in 0..(f.rows * f.columns - 1)
  BY <1>1
<1>3. r \in 0..(f.rows - 1) /\ c \in 0..(f.columns - 1) /\ r * f.columns + c = i - 1
  BY <1>1, <1>2, PlaceOfNumber
<1> HIDE DEF r, c
<1>4. a.rows = f.rows /\ a.cols = f.columns /\ a # NULL
  BY DEF Filled, NullApart
<1>5. VerifyArray2D(a, r, c) = 1
  BY <1>3, <1>4 DEF VerifyArray2D
<1>6. Array2D_set(a, r, c, Pointer(f, i)) =
          Result(1, [a EXCEPT !.arr = [a.arr EXCEPT ![i - 1] = Pointer(f, i)]])
  <2>1. Pointer(f, i) # NULL
    BY DEF NullApart
  <2>2. At(a, r, c) = i - 1
    BY <1>3, <1>4 DEF At
  <2>3. ~ (1 < 1)
    OBVIOUS
  <2> HIDE DEF a
  <2> QED
    BY <1>5, <2>1, <2>2, <2>3, Zenon DEF Array2D_set
<1>7. [a EXCEPT !.arr = [a.arr EXCEPT ![i - 1] = Pointer(f, i)]] = Filled(f, i)
  <2> DEFINE cells == 0..(f.rows * f.columns - 1)
             old == [k \in cells |->
                        IF k < i - 1 THEN Pointer(f, k + 1) ELSE Uninit]
             new == [k \in cells |->
                        IF k < i THEN Pointer(f, k + 1) ELSE Uninit]
  <2>1. a = [rows |-> f.rows, cols |-> f.columns, arr |-> old]
        /\ Filled(f, i) = [rows |-> f.rows, cols |-> f.columns, arr |-> new]
        /\ a.arr = old
    BY DEF Filled
  <2>2. ASSUME NEW k \in cells
        PROVE  new[k] = IF k = i - 1 THEN Pointer(f, i) ELSE old[k]
    <3>1. (k < i <=> k < i - 1 \/ k = i - 1) /\ (k = i - 1 => k + 1 = i)
      BY <1>2
    <3> QED
      BY <3>1
  <2>3. [old EXCEPT ![i - 1] = Pointer(f, i)] = new
    <3> HIDE DEF cells
    <3>1. new = [k \in cells |-> IF k = i - 1 THEN Pointer(f, i) ELSE old[k]]
      BY <2>2, Zenon
    <3> QED
      BY <3>1, Zenon
  <2> HIDE DEF old, new
  <2> QED
    BY <2>1, <2>3
<1>8. \A x : Result(1, x).array = x
  BY DEF Result
<1> QED
  BY <1>6, <1>7, <1>8 DEF r, c

(* After each number of a file the cells it has set hold their candies.    *)
LEMMA BoardIsFile ==
    ASSUME NullApart, NEW f \in Files
    PROVE  deserialize_array(f) = Filled(f, Len(f.data))
<1> DEFINE n == Len(f.data)
           Step(g) == [i \in 0..n |->
               IF i = 0 THEN Array2D_create(f.rows, f.columns)
               ELSE Array2D_set(g[i - 1], (i - 1) \div f.columns,
                                (i - 1) % f.columns, Pointer(f, i)).array]
           after == CHOOSE g : g = Step(g)
           wrong == {i \in 0..n : after[i] # Filled(f, i)}
           R == OpToRel(<, Nat)
<1>1. n \in Nat
  BY BoardWindowAssumption
<1>2. deserialize_array(f) = after[n]
  BY Zenon DEF deserialize_array, ReadIn
<1>3. after = Step(after)
  <2> DEFINE known == [i \in 0..n |-> Filled(f, i)]
  <2>1. ASSUME NEW i \in 0..n, i # 0
        PROVE  Array2D_set(known[i - 1], (i - 1) \div f.columns,
                           (i - 1) % f.columns, Pointer(f, i)).array = Filled(f, i)
    <3>1. i \in 1..n /\ i - 1 \in 0..n
      BY <1>1, <2>1
    <3>2. known[i - 1] = Filled(f, i - 1)
      BY <3>1
    <3> QED
      BY <3>1, <3>2, FillNext, Zenon
  <2>2. known = Step(known)
    BY <2>1, FillNone, Zenon
  <2> QED
    BY <2>2, Zenon
<1> HIDE DEF after
<1>4. ASSUME NEW i \in wrong, \A j \in wrong : ~ (<<j, i>> \in R) PROVE FALSE
  <2>1. i \in 0..n /\ after[i] # Filled(f, i)
    OBVIOUS
  <2>2. CASE i = 0
    BY <1>3, <2>1, <2>2, FillNone
  <2>3. CASE i # 0
    <3>1. i \in 1..n /\ i - 1 \in 0..n /\ i - 1 \in Nat /\ i \in Nat /\ i - 1 < i
      BY <1>1, <2>1, <2>3
    <3>2. <<i - 1, i>> \in R
      BY <3>1, Zenon DEF OpToRel
    <3>3. after[i - 1] = Filled(f, i - 1)
      BY <1>4, <3>1, <3>2
    <3>4. after[i] = Array2D_set(after[i - 1], (i - 1) \div f.columns,
                                 (i - 1) % f.columns, Pointer(f, i)).array
      BY <1>3, <2>1, <2>3, Zenon
    <3> QED
      BY <2>1, <3>1, <3>3, <3>4, FillNext, Zenon
  <2> QED
    BY <2>2, <2>3
<1> HIDE DEF R
<1>5. wrong = {}
  <2>1. IsWellFoundedOn(R, Nat) /\ wrong \subseteq Nat
    <3>1. IsWellFoundedOn(R, Nat)
      BY NatLessThanWellFounded DEF R
    <3>2. 0..n \subseteq Nat
      BY <1>1
    <3> QED
      BY <3>1, <3>2
  <2> SUFFICES ASSUME wrong # {} PROVE FALSE
    OBVIOUS
  <2> HIDE DEF wrong
  <2>2. PICK i \in wrong : \A j \in wrong : ~ (<<j, i>> \in R)
    BY <2>1, WFMin
  <2> QED
    BY <1>4, <2>2
<1>6. n \in 0..n
  BY <1>1
<1> QED
  BY <1>2, <1>5, <1>6

-----------------------------------------------------------------------------
(* What a swap does to an array.                                           *)

(* Exchanging two values of a function keeps each value once. *)
LEMMA ExchangeKeepsOnce ==
    ASSUME NEW S, NEW T, NEW a \in [S -> T], NEW i \in S, NEW j \in S, NEW p,
           NEW k \in S, {x \in S : a[x] = p} = {k}
    PROVE  LET b == [a EXCEPT ![i] = a[j], ![j] = a[i]] IN
           \E m \in S : {x \in S : b[x] = p} = {m}
<1> DEFINE b == [a EXCEPT ![i] = a[j], ![j] = a[i]]
           m == IF k = i THEN j ELSE IF k = j THEN i ELSE k
<1>1. b = [x \in S |-> IF x = j THEN a[i] ELSE IF x = i THEN a[j] ELSE a[x]]
  OBVIOUS
<1>2. m \in S
  OBVIOUS
<1>3. a[k] = p /\ \A x \in S : a[x] = p => x = k
  OBVIOUS
<1>4. ASSUME NEW x \in S PROVE b[x] = p <=> x = m
  BY <1>1, <1>3
<1> QED
  BY <1>2, <1>4

(* A swap that is accepted exchanges two cells of the array. *)
Exchanged(a, i, j) ==
    [a EXCEPT !.arr = [a.arr EXCEPT ![i] = a.arr[j], ![j] = a.arr[i]]]

LEMMA SwapExchanges ==
    ASSUME NEW a, NEW r1, NEW c1, NEW r2, NEW c2,
           Array2D_swap(a, r1, c1, r2, c2).code = 1
    PROVE  /\ r1 \in 0..(a.rows - 1) /\ c1 \in 0..(a.cols - 1)
           /\ r2 \in 0..(a.rows - 1) /\ c2 \in 0..(a.cols - 1)
           /\ Array2D_swap(a, r1, c1, r2, c2).array =
                 Exchanged(a, At(a, r1, c1), At(a, r2, c2))
<1> DEFINE v1 == VerifyArray2D(a, r1, c1)
           v2 == VerifyArray2D(a, r2, c2)
<1>1. \A x, y : Result(x, y).code = x /\ Result(x, y).array = y
  BY DEF Result
<1>2. ~ (v1 < 1) /\ ~ (v2 < 1) /\ Array2D_get(a, r1, c1) # NULL
      /\ Array2D_get(a, r2, c2) # NULL
  <2> HIDE DEF v1, v2
  <2>1. ~ (v1 < 1)
    BY <1>1, v1 < 1 => v1 # 1 DEF Array2D_swap, v1, v2
  <2>2. ~ (v2 < 1)
    BY <1>1, <2>1 DEF Array2D_swap, v1, v2
  <2> QED
    BY <1>1, <2>1, <2>2, -3 # 1, -4 # 1 DEF Array2D_swap, v1, v2
<1>3. ASSUME NEW r, NEW c, ~ (VerifyArray2D(a, r, c) < 1)
      PROVE  r \in 0..(a.rows - 1) /\ c \in 0..(a.cols - 1)
  BY <1>3 DEF VerifyArray2D
<1>4. Array2D_swap(a, r1, c1, r2, c2).array =
          [a EXCEPT !.arr[At(a, r1, c1)] = Array2D_get(a, r2, c2),
                    !.arr[At(a, r2, c2)] = Array2D_get(a, r1, c1)]
  <2> HIDE DEF v1, v2
  <2> QED
    BY <1>1, <1>2, Zenon DEF Array2D_swap, v1, v2
<1>5. @ = [a EXCEPT !.arr =
             [a.arr EXCEPT ![At(a, r1, c1)] = Array2D_get(a, r2, c2),
                           ![At(a, r2, c2)] = Array2D_get(a, r1, c1)]]
  BY Zenon
<1>6. @ = Exchanged(a, At(a, r1, c1), At(a, r2, c2))
  BY Zenon DEF Array2D_get, Exchanged
<1> QED
  BY <1>2, <1>3, <1>4, <1>5, <1>6, Zenon

-----------------------------------------------------------------------------
(* The inductive invariant.                                                *)

Grid(f) == (0..(f.rows - 1)) \X (0..(f.columns - 1))
Images == UNION {[Grid(f) -> Colors] : f \in Files}
Windows == Seq([open : BOOLEAN, label : Nat, image : Images])

(* The newest window has the buttons of the board, and the button selected *)
(* is one of its window's.                                                 *)
Frames ==
    /\ windows \in Windows
    /\ Showing =>
          /\ windows[Newest].image \in [Grid(file) -> Colors]
          /\ board \in [rows : Nat, cols : Nat,
                        arr : [0..(file.rows * file.columns - 1) -> Pointers]]
    /\ selected # NoButton =>
          selected.button \in DOMAIN windows[selected.window].image

WindowInv == TypeOK /\ Frames /\ EachFreedOnce /\ WindowShowsBoard

(* The steps of the arrows. *)
LEMMA Steps ==
    ASSUME NEW arrow \in Arrows
    PROVE  /\ ud(arrow) \in {-1, 0, 1} /\ lr(arrow) \in {-1, 0, 1}
           /\ ud(arrow) # 0 \/ lr(arrow) # 0
           /\ \A i, j \in Int :
                 Beside(<<i, j>>, arrow) = <<i - ud(arrow), j + lr(arrow)>>
<1>1. /\ bits("up") = 8 /\ bits("left") = 4 /\ bits("down") = 2 /\ bits("right") = 1
  BY DEF bits
<1>2. /\ ud("up") = 1 /\ ud("left") = 0 /\ ud("down") = -1 /\ ud("right") = 0
      /\ lr("up") = 0 /\ lr("left") = -1 /\ lr("down") = 0 /\ lr("right") = 1
  BY <1>1 DEF ud, lr, Bit
<1>3. \A i, j \in Int :
          /\ Beside(<<i, j>>, "left") = <<i, j - 1>>
          /\ Beside(<<i, j>>, "right") = <<i, j + 1>>
          /\ Beside(<<i, j>>, "up") = <<i - 1, j>>
          /\ Beside(<<i, j>>, "down") = <<i + 1, j>>
  BY DEF Beside
<1>4. \A i, j \in Int : /\ i - 0 = i /\ j + 0 = j
                          /\ i - (-1) = i + 1 /\ j + (-1) = j - 1
  OBVIOUS
<1>5. CASE arrow = "up"
  BY <1>2, <1>3, <1>4, <1>5
<1>6. CASE arrow = "left"
  BY <1>2, <1>3, <1>4, <1>6
<1>7. CASE arrow = "down"
  BY <1>2, <1>3, <1>4, <1>7
<1>8. CASE arrow = "right"
  BY <1>2, <1>3, <1>4, <1>8
<1> QED
  BY <1>5, <1>6, <1>7, <1>8 DEF Arrows

(* Where the candy of a button lies. *)
Place(f, x) == (f.rows - x[1] - 1) * f.columns + x[2]

LEMMA PlaceOfButton ==
    ASSUME NEW f \in Files, NEW x \in Grid(f)
    PROVE  /\ Place(f, x) \in 0..(f.rows * f.columns - 1)
           /\ \A y \in Grid(f) : Place(f, x) = Place(f, y) => x = y
           /\ x = <<x[1], x[2]>> /\ x[1] \in Int /\ x[2] \in Int
<1>1. f.rows \in Nat \ {0} /\ f.columns \in Nat \ {0}
  BY BoardWindowAssumption
<1>2. ASSUME NEW y \in Grid(f)
      PROVE  /\ y = <<y[1], y[2]>> /\ y[1] \in 0..(f.rows - 1)
             /\ y[2] \in 0..(f.columns - 1)
             /\ f.rows - y[1] - 1 \in 0..(f.rows - 1) /\ f.rows - y[1] - 1 \in Nat
  BY <1>1 DEF Grid
<1>3. Place(f, x) \in 0..(f.rows * f.columns - 1)
  BY <1>1, <1>2, CellInBlock DEF Place
<1>4. ASSUME NEW y \in Grid(f), Place(f, x) = Place(f, y) PROVE x = y
  <2>1. f.rows - x[1] - 1 = f.rows - y[1] - 1 /\ x[2] = y[2]
    BY <1>1, <1>2, <1>4, CellsApart DEF Place
  <2>2. x[1] = y[1]
    BY <2>1, <1>1, <1>2
  <2> QED
    BY <2>1, <2>2, <1>2
<1> QED
  BY <1>1, <1>2, <1>3, <1>4

LEMMA ColorOfButton ==
    ASSUME NEW f \in Files, NEW a, a.rows = f.rows, a.cols = f.columns,
           NEW x \in Grid(f)
    PROVE  ColorFor(a, x[1], x[2]) = a.arr[Place(f, x)].color
BY DEF ColorFor, Array2D_get, At, Place

LEMMA ColorOfCandy ==
    ASSUME NEW f \in Files, NEW k \in 1..Len(f.data)
    PROVE  Pointer(f, k).color \in Colors /\ Pointer(f, k).at = k
BY DEF Pointer, Colors

-----------------------------------------------------------------------------
(* Two candies of the board were exchanged, those of two buttons, and each *)
(* other button still shows its candy.                                     *)
BoardExchanged(b, c) ==
    /\ b \in Grid(file) /\ c \in Grid(file) /\ b # c
    /\ board' \in [rows : Nat, cols : Nat,
                   arr : [0..(file.rows * file.columns - 1) -> Pointers]]
    /\ board'.rows = board.rows /\ board'.cols = board.cols
    /\ \A p \in Pointers : \E k \in DOMAIN board'.arr : FreedOf(board', p) = {k}
    /\ \A x \in Grid(file) :
          ColorFor(board', x[1], x[2]) =
             CASE x = b -> ColorFor(board, c[1], c[2])
               [] x = c -> ColorFor(board, b[1], b[2])
               [] OTHER -> ColorFor(board, x[1], x[2])

LEMMA SwapOfBoard ==
    ASSUME WindowInv, Showing, NEW arrow \in Arrows, NEW i \in Int, NEW j \in Int,
           SwapAt(<<i, j>>, arrow).code = 1, board' = SwapAt(<<i, j>>, arrow).array
    PROVE  /\ BoardExchanged(<<i, j>>, Other(<<i, j>>, arrow))
           /\ Other(<<i, j>>, arrow) = Beside(<<i, j>>, arrow)
<1> DEFINE b == <<i, j>>
           c == Other(b, arrow)
           r == board.rows - i - 1
           cells == 0..(file.rows * file.columns - 1)
           at == Place(file, b)
           to == Place(file, c)
           swapped == [board.arr EXCEPT ![at] = board.arr[to],
                                        ![to] = board.arr[at]]
<1>1. /\ board.rows = file.rows /\ board.cols = file.columns /\ file \in Files
      /\ board \in [rows : Nat, cols : Nat, arr : [cells -> Pointers]]
      /\ \A p \in Pointers : \E k \in DOMAIN board.arr : FreedOf(board, p) = {k}
  BY DEF WindowInv, TypeOK, Frames, EachFreedOnce
<1>2. file.rows \in Nat \ {0} /\ file.columns \in Nat \ {0}
  BY <1>1, BoardWindowAssumption
<1>3. /\ ud(arrow) \in {-1, 0, 1} /\ lr(arrow) \in {-1, 0, 1}
      /\ ud(arrow) # 0 \/ lr(arrow) # 0
      /\ c = <<i - ud(arrow), j + lr(arrow)>> /\ c = Beside(b, arrow)
  BY Steps DEF Other
<1>4. SwapAt(b, arrow) =
          Array2D_swap(board, r, j, r + ud(arrow), j + lr(arrow))
  BY DEF SwapAt
<1>5. /\ r \in 0..(board.rows - 1) /\ j \in 0..(board.cols - 1)
      /\ r + ud(arrow) \in 0..(board.rows - 1)
      /\ j + lr(arrow) \in 0..(board.cols - 1)
      /\ board' = Exchanged(board, At(board, r, j),
                           At(board, r + ud(arrow), j + lr(arrow)))
  <2>1. Array2D_swap(board, r, j, r + ud(arrow), j + lr(arrow)).code = 1
    BY <1>4
  <2> DEFINE s == r + ud(arrow)
             d == j + lr(arrow)
  <2> HIDE DEF r, s, d
  <2>2. Array2D_swap(board, r, j, s, d).code = 1
    BY <2>1 DEF s, d
  <2>3. /\ r \in 0..(board.rows - 1) /\ j \in 0..(board.cols - 1)
        /\ s \in 0..(board.rows - 1) /\ d \in 0..(board.cols - 1)
        /\ Array2D_swap(board, r, j, s, d).array =
              Exchanged(board, At(board, r, j), At(board, s, d))
    BY <2>2, SwapExchanges
  <2> QED
    BY <1>4, <2>3, Zenon DEF s, d
<1>6. b \in Grid(file) /\ c \in Grid(file) /\ b # c
  <2>1. i \in 0..(file.rows - 1) /\ j \in 0..(file.columns - 1)
    BY <1>1, <1>2, <1>5
  <2>2. /\ i - ud(arrow) \in 0..(file.rows - 1)
        /\ j + lr(arrow) \in 0..(file.columns - 1)
    <3>1. /\ r + ud(arrow) \in 0..(file.rows - 1)
          /\ j + lr(arrow) \in 0..(file.columns - 1)
          /\ r = file.rows - i - 1 /\ ud(arrow) \in Int
      BY <1>1, <1>3, <1>5
    <3> HIDE DEF r
    <3> QED
      BY <1>2, <3>1
  <2>3. i - ud(arrow) # i \/ j + lr(arrow) # j
    BY <1>3
  <2> QED
    BY <1>3, <2>1, <2>2, <2>3 DEF Grid
<1>7. At(board, r, j) = at /\ At(board, r + ud(arrow), j + lr(arrow)) = to
  <2>1. b[1] = i /\ b[2] = j /\ c[1] = i - ud(arrow) /\ c[2] = j + lr(arrow)
    BY <1>3
  <2>2. r + ud(arrow) = board.rows - (i - ud(arrow)) - 1
    BY <1>1, <1>2, <1>3
  <2> HIDE DEF b, c
  <2> QED
    BY <1>1, <2>1, <2>2, Zenon DEF At, Place, at, to
<1>8. at \in cells /\ to \in cells
  BY <1>1, <1>6, PlaceOfButton
<1>9. board' = [board EXCEPT !.arr = swapped]
  BY <1>5, <1>7, Zenon DEF Exchanged
<1> HIDE DEF at, to, cells
<1>10. /\ swapped \in [cells -> Pointers]
       /\ \A x \in cells : swapped[x] = IF x = at THEN board.arr[to]
                                        ELSE IF x = to THEN board.arr[at]
                                        ELSE board.arr[x]
  BY <1>1, <1>8
<1>11. /\ board'.arr = swapped /\ board'.rows = board.rows
       /\ board'.cols = board.cols
       /\ board' \in [rows : Nat, cols : Nat, arr : [cells -> Pointers]]
  <2> HIDE DEF swapped
  <2> QED
    BY <1>1, <1>9, <1>10
<1>12. ASSUME NEW p \in Pointers
       PROVE  \E k \in DOMAIN board'.arr : FreedOf(board', p) = {k}
  <2>1. PICK k \in cells : {x \in cells : board.arr[x] = p} = {k}
    BY <1>1 DEF FreedOf
  <2>2. \E m \in cells : {x \in cells : swapped[x] = p} = {m}
    <3>1. board.arr \in [cells -> Pointers]
      BY <1>1
    <3> QED
      BY <1>8, <2>1, <3>1, ExchangeKeepsOnce DEF swapped
  <2>3. DOMAIN board'.arr = cells
    BY <1>10, <1>11
  <2> QED
    BY <2>2, <2>3, <1>11 DEF FreedOf
<1>13. ASSUME NEW x \in Grid(file)
       PROVE  ColorFor(board', x[1], x[2]) =
                  CASE x = b -> ColorFor(board, c[1], c[2])
                    [] x = c -> ColorFor(board, b[1], b[2])
                    [] OTHER -> ColorFor(board, x[1], x[2])
  <2> HIDE DEF b, c, swapped
  <2>1. ColorFor(board', x[1], x[2]) = swapped[Place(file, x)].color
    BY <1>1, <1>11, ColorOfButton
  <2>2. /\ ColorFor(board, x[1], x[2]) = board.arr[Place(file, x)].color
        /\ ColorFor(board, b[1], b[2]) = board.arr[at].color
        /\ ColorFor(board, c[1], c[2]) = board.arr[to].color
    BY <1>1, <1>6, ColorOfButton DEF at, to
  <2>3. /\ Place(file, x) \in cells
        /\ Place(file, x) = at <=> x = b
        /\ Place(file, x) = to <=> x = c
    BY <1>1, <1>6, PlaceOfButton DEF at, to, cells
  <2>4. swapped[Place(file, x)] = IF x = b THEN board.arr[to]
                                  ELSE IF x = c THEN board.arr[at]
                                  ELSE board.arr[Place(file, x)]
    BY <1>10, <2>3
  <2> QED
    BY <2>1, <2>2, <2>4
<1> QED
  BY <1>3, <1>6, <1>11, <1>12, <1>13, Zenon DEF cells, BoardExchanged

-----------------------------------------------------------------------------
(* The invariant holds at first, and every action keeps it.                *)

LEMMA InvInit == Init => WindowInv
<1> SUFFICES ASSUME Init PROVE WindowInv
  OBVIOUS
<1>1. windows = <<>> /\ Len(windows) = 0 /\ DOMAIN windows = {} /\ <<>> \in Windows
  BY DEF Init, Windows
<1>2. MaxOpens \in Nat /\ MaxMoves \in Nat
  BY BoardWindowAssumption
<1>3. ~Showing /\ ~Opened(Newest)
  BY <1>1 DEF Showing, Opened
<1>4. TypeOK
  <2>1. Len(windows) <= MaxOpens /\ moves \in 0..MaxMoves
    BY <1>1, <1>2 DEF Init
  <2>2. /\ board = NULL /\ selected = NoButton /\ running = "running"
        /\ file \in Files /\ elsewhere \in BOOLEAN
    BY DEF Init
  <2> QED
    BY <1>1, <1>3, <2>1, <2>2, Zenon DEF TypeOK
<1>5. Frames
  BY <1>1, <1>3 DEF Init, Frames
<1> QED
  BY <1>3, <1>4, <1>5 DEF WindowInv, EachFreedOnce, WindowShowsBoard

(* The windows there have been. *)
LEMMA WindowsThere ==
    ASSUME WindowInv
    PROVE  /\ windows \in Seq([open : BOOLEAN, label : Nat, image : Images])
           /\ Newest \in Nat /\ DOMAIN windows = 1..Newest
           /\ Showing => Newest \in DOMAIN windows
           /\ ~Showing => DOMAIN windows = {}
           /\ \A w \in DOMAIN windows :
                 /\ windows[w] \in [open : BOOLEAN, label : Nat, image : Images]
                 /\ Showing
<1>1. windows \in Seq([open : BOOLEAN, label : Nat, image : Images])
  BY DEF WindowInv, Frames, Windows
<1>2. Newest \in Nat /\ DOMAIN windows = 1..Newest
  BY <1>1 DEF Newest
<1>3. Showing => Newest \in DOMAIN windows
  BY <1>1, <1>2 DEF Showing, Newest
<1>4. ~Showing => DOMAIN windows = {}
  BY DEF Showing
<1>5. ASSUME NEW w \in DOMAIN windows
      PROVE  /\ windows[w] \in [open : BOOLEAN, label : Nat, image : Images]
             /\ Showing
  <2> DEFINE W == [open : BOOLEAN, label : Nat, image : Images]
  <2>1. \A V : windows \in Seq(V) => windows[w] \in V
    BY <1>5
  <2>2. windows[w] \in W
    BY <1>1, <2>1, Zenon
  <2>3. Showing
    BY <1>4, <1>5, Zenon
  <2> QED
    BY <2>2, <2>3
<1> QED
  BY <1>1, <1>2, <1>3, <1>4, <1>5, Zenon

(* The buttons of a window are pairs of numbers. *)
LEMMA ButtonIsPair ==
    ASSUME WindowInv, NEW w \in DOMAIN windows, NEW b \in DOMAIN windows[w].image
    PROVE  \E i, j \in Int : b = <<i, j>>
<1>1. windows[w].image \in Images
  BY WindowsThere
<1>2. PICK f \in Files : windows[w].image \in [Grid(f) -> Colors]
  BY <1>1 DEF Images
<1>3. b \in Grid(f)
  BY <1>2
<1> QED
  BY <1>3, PlaceOfButton

LEMMA OpenKeeps ==
    ASSUME NullApart, WindowInv, NEW f \in Files, Open(f)
    PROVE  WindowInv'
<1> DEFINE image == [b \in Grid(f) |-> ColorFor(board', b[1], b[2])]
           new == [open |-> TRUE, label |-> moves, image |-> image]
           n == Len(windows)
<1>1. /\ f.rows \in Nat \ {0} /\ f.columns \in Nat \ {0}
      /\ Len(f.data) = f.rows * f.columns /\ f.rows * f.columns \in Nat
  BY BoardWindowAssumption
<1>2. /\ board' = Filled(f, Len(f.data)) /\ file' = f
      /\ Pointers' = {Pointer(f, k) : k \in 1..Len(f.data)}
  BY BoardIsFile DEF Open, Pointers
<1>3. /\ board'.rows = f.rows /\ board'.cols = f.columns
      /\ DOMAIN board'.arr = 0..(f.rows * f.columns - 1)
      /\ \A c \in 0..(f.rows * f.columns - 1) : board'.arr[c] = Pointer(f, c + 1)
      /\ board' \in [rows : Nat, cols : Nat,
                     arr : [0..(f.rows * f.columns - 1) -> Pointers']]
  <2> DEFINE cells == 0..(f.rows * f.columns - 1)
             arr == [c \in cells |->
                        IF c < Len(f.data) THEN Pointer(f, c + 1) ELSE Uninit]
  <2>1. board' = [rows |-> f.rows, cols |-> f.columns, arr |-> arr]
    BY <1>2 DEF Filled
  <2>2. \A c \in cells : c < Len(f.data) /\ c + 1 \in 1..Len(f.data)
    BY <1>1
  <2>3. \A c \in cells : arr[c] = Pointer(f, c + 1) /\ arr[c] \in Pointers'
    BY <1>2, <2>2
  <2>4. arr \in [cells -> Pointers'] /\ DOMAIN arr = cells
    BY <2>3
  <2> HIDE DEF arr, cells
  <2> QED
    BY <1>1, <2>1, <2>3, <2>4 DEF cells
<1>4. \A b \in Grid(f) : image[b] \in Colors
  <2> SUFFICES ASSUME NEW b \in Grid(f) PROVE image[b] \in Colors
    OBVIOUS
  <2>1. ColorFor(board', b[1], b[2]) = board'.arr[Place(f, b)].color
    BY <1>3, ColorOfButton
  <2>2. Place(f, b) \in 0..(f.rows * f.columns - 1)
    BY PlaceOfButton
  <2>3. Place(f, b) + 1 \in 1..Len(f.data)
    BY <1>1, <2>2
  <2> QED
    BY <1>3, <2>1, <2>2, <2>3, ColorOfCandy
<1>5. /\ windows' = Append(windows, new) /\ n < MaxOpens
      /\ selected' = selected /\ moves' = moves /\ running' = running
      /\ elsewhere' = FALSE
  BY DEF Open, Grid
<1>6. image \in [Grid(f) -> Colors] /\ image \in Images
  BY <1>4 DEF Images
<1>7. moves \in Nat /\ new \in [open : BOOLEAN, label : Nat, image : Images]
  <2>1. moves \in Nat
    BY BoardWindowAssumption DEF WindowInv, TypeOK
  <2> HIDE DEF image
  <2> QED
    BY <1>6, <2>1
<1> HIDE DEF new
<1>8. /\ windows' \in Windows /\ Len(windows') = n + 1 /\ n \in Nat
      /\ DOMAIN windows' = 1..(n + 1) /\ DOMAIN windows = 1..n
      /\ windows'[n + 1] = new /\ \A w \in 1..n : windows'[w] = windows[w]
  BY <1>5, <1>7, WindowsThere DEF Windows
<1>9. Newest' = n + 1 /\ Showing'
  BY <1>8 DEF Newest, Showing
<1>10. new.open = TRUE /\ new.label = moves /\ new.image = image
  BY DEF new
<1>11. \A k \in 1..Len(f.data) :
          FreedOf(board', Pointer(f, k)) = {k - 1} /\ k - 1 \in DOMAIN board'.arr
  <2> SUFFICES ASSUME NEW k \in 1..Len(f.data)
               PROVE  /\ k - 1 \in DOMAIN board'.arr
                      /\ FreedOf(board', Pointer(f, k)) = {k - 1}
    OBVIOUS
  <2>1. k - 1 \in DOMAIN board'.arr
    BY <1>1, <1>3
  <2>2. ASSUME NEW c \in DOMAIN board'.arr
        PROVE  board'.arr[c] = Pointer(f, k) <=> c = k - 1
    <3>1. c \in 0..(f.rows * f.columns - 1) /\ c + 1 \in 1..Len(f.data)
      BY <1>1, <1>3
    <3>2. Pointer(f, c + 1).at = c + 1 /\ Pointer(f, k).at = k
      BY <3>1, ColorOfCandy
    <3>3. c = k - 1 <=> c + 1 = k
      BY <3>1
    <3> QED
      BY <1>3, <3>1, <3>2, <3>3
  <2> QED
    BY <2>1, <2>2 DEF FreedOf
<1>12. TypeOK'
  <2>1. MaxOpens \in Nat /\ n + 1 <= MaxOpens
    BY <1>5, <1>8, BoardWindowAssumption
  <2>2. \A w \in DOMAIN windows' :
            /\ windows'[w].open \in BOOLEAN /\ windows'[w].label \in 0..moves'
            /\ \A b \in DOMAIN windows'[w].image : windows'[w].image[b] \in Colors
    <3> SUFFICES ASSUME NEW w \in 1..(n + 1)
                 PROVE  /\ windows'[w].open \in BOOLEAN
                        /\ windows'[w].label \in 0..moves'
                        /\ \A b \in DOMAIN windows'[w].image :
                              windows'[w].image[b] \in Colors
      BY <1>8
    <3>1. CASE w = n + 1
      BY <1>4, <1>5, <1>7, <1>8, <1>10, <3>1
    <3>2. CASE w # n + 1
      <4>1. w \in 1..n
        BY <1>8, <3>2
      <4> QED
        BY <1>5, <1>8, <4>1 DEF WindowInv, TypeOK
    <3> QED
      BY <3>1, <3>2
  <2>3. selected' = NoButton \/ selected'.window \in DOMAIN windows'
    BY <1>5, <1>8 DEF WindowInv, TypeOK
  <2>4. /\ moves' \in 0..MaxMoves /\ running' \in {"running", "exited", "ended"}
        /\ file' \in Files /\ elsewhere' \in BOOLEAN
    BY <1>2, <1>5 DEF WindowInv, TypeOK
  <2>5. \A i \in DOMAIN board'.arr : board'.arr[i] \in Pointers'
    BY <1>3
  <2> QED
    BY <1>2, <1>3, <1>8, <1>9, <2>1, <2>2, <2>3, <2>4, <2>5, Zenon DEF TypeOK
<1>13. Frames'
  <2>1. windows'[Newest'].image \in [Grid(file') -> Colors]
    BY <1>2, <1>6, <1>8, <1>9, <1>10
  <2>2. selected' # NoButton =>
            selected'.button \in DOMAIN windows'[selected'.window].image
    BY <1>5, <1>8 DEF WindowInv, TypeOK, Frames
  <2> QED
    BY <1>2, <1>3, <1>8, <2>1, <2>2, Zenon DEF Frames, Grid
<1>14. EachFreedOnce'
  BY <1>2, <1>11 DEF EachFreedOnce
<1>15. WindowShowsBoard'
  <2>1. /\ new.label = moves'
        /\ \A b \in DOMAIN new.image :
              new.image[b] = ColorFor(board', b[1], b[2])
    BY <1>5, <1>10
  <2> QED
    BY <1>8, <1>9, <2>1 DEF WindowShowsBoard
<1> QED
  BY <1>12, <1>13, <1>14, <1>15 DEF WindowInv

(* Steps that neither draw nor move anything. *)
LEMMA StillKeeps ==
    ASSUME WindowInv, UNCHANGED <<board, windows, moves, file, elsewhere>>,
           running' \in {"running", "exited", "ended"},
           selected' # NoButton =>
              /\ selected'.window \in DOMAIN windows
              /\ selected'.button \in DOMAIN windows[selected'.window].image
    PROVE  WindowInv'
<1>1. TypeOK'
  BY DEF WindowInv, TypeOK, Showing, Pointers, Colors
<1>2. Frames'
  BY DEF WindowInv, Frames, Showing, Newest, Windows, Images, Grid, Colors, Pointers
<1>3. EachFreedOnce' /\ WindowShowsBoard'
  BY DEF WindowInv, EachFreedOnce, WindowShowsBoard, Showing, Newest, Opened,
         Pointers
<1> QED
  BY <1>1, <1>2, <1>3 DEF WindowInv

LEMMA SelectKeeps ==
    ASSUME WindowInv, NEW w \in DOMAIN windows, NEW b \in DOMAIN windows[w].image,
           Select(w, b)
    PROVE  WindowInv'
<1>1. /\ UNCHANGED <<board, windows, moves, file, elsewhere>>
      /\ running' \in {"running", "exited", "ended"}
  BY DEF Select
<1>2. selected' = [window |-> w, button |-> b] \/ selected' = selected
  BY DEF Select
<1>3. selected' # NoButton =>
          /\ selected'.window \in DOMAIN windows
          /\ selected'.button \in DOMAIN windows[selected'.window].image
  <2>1. CASE selected' = selected
    BY <2>1 DEF WindowInv, TypeOK, Frames
  <2>2. CASE selected' = [window |-> w, button |-> b]
    BY <2>2
  <2> QED
    BY <1>2, <2>1, <2>2
<1> QED
  BY <1>1, <1>3, StillKeeps

LEMMA RefuseSwapKeeps ==
    ASSUME WindowInv, NEW w \in DOMAIN windows, NEW arrow \in Arrows,
           RefuseSwap(w, arrow)
    PROVE  WindowInv'
<1>1. /\ UNCHANGED <<board, windows, moves, file, elsewhere, selected>>
      /\ running' \in {"running", "exited", "ended"}
  BY DEF RefuseSwap
<1> QED
  BY <1>1, StillKeeps DEF WindowInv, TypeOK, Frames

LEMMA CloseKeeps ==
    ASSUME WindowInv, NEW w \in DOMAIN windows, Close(w)
    PROVE  WindowInv'
<1>1. /\ UNCHANGED <<board, selected, moves, file, elsewhere>>
      /\ running' \in {"running", "exited", "ended"}
      /\ windows' = [windows EXCEPT ![w].open = FALSE]
  BY DEF Close
<1>2. /\ DOMAIN windows' = DOMAIN windows /\ Len(windows') = Len(windows)
      /\ windows' \in Windows
  <2>1. [windows[w] EXCEPT !.open = FALSE]
            \in [open : BOOLEAN, label : Nat, image : Images]
    BY WindowsThere
  <2>2. windows' = [windows EXCEPT ![w] = [windows[w] EXCEPT !.open = FALSE]]
    BY <1>1, Zenon
  <2>3. windows \in Windows
    BY WindowsThere DEF Windows
  <2>4. \A W, e : e \in W /\ windows \in Seq(W) =>
            LET s == [windows EXCEPT ![w] = e] IN
            s \in Seq(W) /\ DOMAIN s = DOMAIN windows /\ Len(s) = Len(windows)
    OBVIOUS
  <2> QED
    BY <2>1, <2>2, <2>3, <2>4, Zenon DEF Windows
<1>3. \A v \in DOMAIN windows :
          /\ windows'[v].label = windows[v].label
          /\ windows'[v].image = windows[v].image
          /\ windows'[v].open = IF v = w THEN FALSE ELSE windows[v].open
  <2>1. windows[w] \in [open : BOOLEAN, label : Nat, image : Images]
    BY WindowsThere
  <2> QED
    BY <1>1, <2>1
<1>4. Newest' = Newest /\ Showing' = Showing /\ Pointers' = Pointers
  <2>1. windows' = <<>> <=> windows = <<>>
    BY <1>2, WindowsThere DEF Windows
  <2> QED
    BY <1>1, <1>2, <2>1 DEF Newest, Showing, Pointers
<1>5. TypeOK'
  <2>1. \A v \in DOMAIN windows' :
            /\ windows'[v].open \in BOOLEAN /\ windows'[v].label \in 0..moves'
            /\ \A b \in DOMAIN windows'[v].image : windows'[v].image[b] \in Colors
    BY <1>1, <1>2, <1>3 DEF WindowInv, TypeOK
  <2> QED
    BY <1>1, <1>2, <1>4, <2>1 DEF WindowInv, TypeOK
<1>6. Frames'
  <2>1. Showing => Newest \in DOMAIN windows
    BY WindowsThere
  <2>2. Showing' => windows'[Newest'].image \in [Grid(file') -> Colors]
    BY <1>1, <1>3, <1>4, <2>1 DEF WindowInv, Frames
  <2>3. selected' # NoButton =>
            selected'.button \in DOMAIN windows'[selected'.window].image
    BY <1>1, <1>3 DEF WindowInv, TypeOK, Frames
  <2>4. Showing' => board' \in [rows : Nat, cols : Nat,
                       arr : [0..(file'.rows * file'.columns - 1) -> Pointers']]
    BY <1>1, <1>4 DEF WindowInv, Frames
  <2> QED
    BY <1>2, <2>2, <2>3, <2>4, Zenon DEF Frames, Grid
<1>7. EachFreedOnce'
  BY <1>1, <1>4 DEF WindowInv, EachFreedOnce
<1>8. WindowShowsBoard'
  <2> SUFFICES ASSUME Opened(Newest)'
               PROVE  /\ windows'[Newest'].label = moves'
                      /\ ~elsewhere' => \A b \in DOMAIN windows'[Newest'].image :
                            windows'[Newest'].image[b]
                                = ColorFor(board', b[1], b[2])
    BY DEF WindowShowsBoard
  <2>1. Newest \in DOMAIN windows /\ windows'[Newest].open
    BY <1>2, <1>4 DEF Opened
  <2>2. Opened(Newest)
    BY <1>3, <2>1 DEF Opened
  <2> QED
    BY <1>1, <1>3, <1>4, <2>1, <2>2 DEF WindowInv, WindowShowsBoard
<1> QED
  BY <1>5, <1>6, <1>7, <1>8 DEF WindowInv

(* The windows after a swap: one image and one label. *)
WindowsDrawn(w, b, c, label) ==
    /\ DOMAIN windows' = DOMAIN windows /\ Newest' = Newest
    /\ Showing' = Showing
    /\ \E R : windows' \in Seq(R)
    /\ \A v \in DOMAIN windows :
          /\ windows'[v].open = windows[v].open
          /\ windows'[v] = [open |-> windows'[v].open,
                            label |-> windows'[v].label,
                            image |-> windows'[v].image]
          /\ windows'[v].label = IF v = Newest /\ Opened(Newest) THEN label
                                 ELSE windows[v].label
          /\ v # w => windows'[v].image = windows[v].image
    /\ windows'[w].image =
          [x \in DOMAIN windows[w].image |->
              IF x \in {b, c} THEN ColorFor(board', x[1], x[2])
              ELSE windows[w].image[x]]

LEMMA WindowsAfterSwap ==
    ASSUME WindowInv, NEW w \in DOMAIN windows, NEW b, NEW c, NEW label \in Nat,
           windows' = [redraw(w, b, c) EXCEPT
                          ![Newest].label = IF Opened(Newest) THEN label ELSE @]
    PROVE  WindowsDrawn(w, b, c, label)
<1> DEFINE image == [x \in DOMAIN windows[w].image |->
                        IF x \in {b, c} THEN ColorFor(board', x[1], x[2])
                        ELSE windows[w].image[x]]
           drawn == [windows EXCEPT ![w].image = image]
           n == Newest
<1>1. /\ windows \in Seq([open : BOOLEAN, label : Nat, image : Images])
      /\ n \in DOMAIN windows /\ DOMAIN windows = 1..n /\ n \in Nat /\ Showing
  BY WindowsThere
<1>2. windows' = [drawn EXCEPT ![n].label =
                     IF Opened(n) THEN label ELSE drawn[n].label]
  BY Zenon DEF redraw
<1>3. \A v \in DOMAIN windows :
          windows[v] \in [open : BOOLEAN, label : Nat, image : Images]
  BY WindowsThere
<1> HIDE DEF image, n
<1>4. /\ DOMAIN drawn = DOMAIN windows
      /\ \A v \in DOMAIN windows :
            drawn[v] = [open |-> windows[v].open, label |-> windows[v].label,
                        image |-> IF v = w THEN image ELSE windows[v].image]
  <2>1. drawn = [windows EXCEPT ![w] = [windows[w] EXCEPT !.image = image]]
    BY Zenon
  <2> HIDE DEF drawn
  <2>2. DOMAIN drawn = DOMAIN windows
    BY <2>1
  <2>3. ASSUME NEW v \in DOMAIN windows
        PROVE  drawn[v] = [open |-> windows[v].open, label |-> windows[v].label,
                           image |-> IF v = w THEN image ELSE windows[v].image]
    <3>1. windows[v] = [open |-> windows[v].open, label |-> windows[v].label,
                        image |-> windows[v].image]
      BY <1>3
    <3>2. CASE v = w
      BY <2>1, <3>1, <3>2
    <3>3. CASE v # w
      BY <2>1, <3>1, <3>3
    <3> QED
      BY <3>2, <3>3
  <2> QED
    BY <2>2, <2>3
<1> HIDE DEF drawn
<1> DEFINE after == [v \in 1..n |->
              [open |-> windows[v].open,
               label |-> IF v = n /\ Opened(n) THEN label ELSE windows[v].label,
               image |-> IF v = w THEN image ELSE windows[v].image]]
<1>5. /\ DOMAIN windows' = DOMAIN windows
      /\ \A v \in DOMAIN windows : windows'[v] = after[v]
      /\ windows' = after
  <2>1. windows' = [drawn EXCEPT ![n] =
            [drawn[n] EXCEPT !.label = IF Opened(n) THEN label ELSE drawn[n].label]]
    BY <1>2, Zenon
  <2>2. DOMAIN windows' = 1..n
    BY <1>1, <1>4, <2>1
  <2>3. ASSUME NEW v \in 1..n PROVE windows'[v] = after[v]
    <3>1. CASE v = n
      <4> DEFINE l == IF Opened(n) THEN label ELSE drawn[n].label
      <4> HIDE DEF l
      <4>1. drawn[n] = [open |-> windows[n].open, label |-> windows[n].label,
                        image |-> IF n = w THEN image ELSE windows[n].image]
        BY <1>1, <1>4
      <4>2. windows'[n] = [drawn[n] EXCEPT !.label = l]
        BY <1>1, <1>4, <2>1 DEF l
      <4>3. windows'[n] = [open |-> windows[n].open, label |-> l,
                           image |-> IF n = w THEN image ELSE windows[n].image]
        BY <4>1, <4>2
      <4>4. l = IF n = n /\ Opened(n) THEN label ELSE windows[n].label
        BY <4>1 DEF l
      <4> QED
        BY <1>1, <3>1, <4>3, <4>4
    <3>2. CASE v # n
      BY <1>1, <1>4, <2>1, <3>2
    <3> QED
      BY <3>1, <3>2
  <2>4. windows' = [v \in 1..n |-> windows'[v]]
    BY <1>1, <1>4, <2>1
  <2> HIDE DEF after
  <2>5. after = [v \in 1..n |-> after[v]]
    BY DEF after
  <2> QED
    BY <1>1, <2>2, <2>3, <2>4, <2>5
<1>6. windows' \in Seq({after[v] : v \in 1..n}) /\ Len(windows') = n
  <2> DEFINE R == {after[v] : v \in 1..n}
  <2>2. after \in [1..n -> R]
    <3>1. after = [v \in 1..n |-> after[v]]
      OBVIOUS
    <3> HIDE DEF after
    <3> QED
      BY <3>1
  <2> HIDE DEF R, after
  <2>3. after \in Seq(R)
    BY <1>1, <2>2, SeqDef
  <2>4. DOMAIN after = 1..Len(after) /\ Len(after) \in Nat
    BY <2>3
  <2>5. DOMAIN after = 1..n
    BY <2>2
  <2>6. Len(after) = n
    BY <1>1, <2>4, <2>5
  <2> QED
    BY <1>5, <2>3, <2>6 DEF R
<1>7. Newest' = Newest /\ Showing' = Showing
  <2>1. Len(windows') = n /\ Len(windows) = n /\ n # 0
    BY <1>1, <1>6 DEF n, Newest
  <2>2. windows' # <<>>
    BY <2>1
  <2> QED
    BY <1>1, <2>1, <2>2 DEF Newest, Showing
<1>8. windows'[w].image = image
  BY <1>1, <1>5
<1>9. ASSUME NEW v \in DOMAIN windows
      PROVE  /\ windows'[v].open = windows[v].open
             /\ windows'[v] = [open |-> windows'[v].open,
                               label |-> windows'[v].label,
                               image |-> windows'[v].image]
             /\ windows'[v].label = IF v = Newest /\ Opened(Newest) THEN label
                                    ELSE windows[v].label
             /\ v # w => windows'[v].image = windows[v].image
  BY <1>1, <1>3, <1>5 DEF n
<1> QED
  BY <1>1, <1>5, <1>6, <1>7, <1>8, <1>9, Zenon DEF image, WindowsDrawn

(* The swap of the button b, from window w.                                *)
SwapsAt(b, w, arrow) ==
    /\ b \in PlaceIn(w)
    /\ SwapAt(b, arrow).code = 1
    /\ board' = SwapAt(b, arrow).array
    /\ windows' = [redraw(w, b, Other(b, arrow)) EXCEPT
          ![Newest].label = IF Opened(Newest) THEN moves + 1 ELSE @]

LEMMA SwapStep ==
    ASSUME WindowInv, NEW w \in DOMAIN windows, NEW arrow \in Arrows,
           Swap(w, arrow)
    PROVE  \E i, j \in Int : SwapsAt(<<i, j>>, w, arrow)
<1>1. moves' = moves + 1 /\ selected # NoButton
  BY DEF Swap
<1>2. PICK b : SwapsAt(b, w, arrow)
  BY <1>1, Zenon DEF Swap, SwapsAt
<1>3. b = <<0, 0>> \/ b \in DOMAIN windows[w].image
  <2>1. selected.button \in DOMAIN windows[selected.window].image
    BY <1>1 DEF WindowInv, Frames
  <2> QED
    BY <1>2, <2>1 DEF PlaceIn, SwapsAt
<1>4. \E i, j \in Int : b = <<i, j>>
  BY <1>3, ButtonIsPair
<1> QED
  BY <1>2, <1>4, Zenon

LEMMA SwapKeeps ==
    ASSUME WindowInv, NEW w \in DOMAIN windows, NEW arrow \in Arrows,
           Swap(w, arrow)
    PROVE  WindowInv'
<1>1. PICK i, j \in Int : SwapsAt(<<i, j>>, w, arrow)
  BY SwapStep, Zenon
<1> DEFINE b == <<i, j>>
           c == Other(b, arrow)
<1>2. /\ running' \in {"running", "exited", "ended"} /\ selected' = NoButton
      /\ moves' = moves + 1 /\ moves < MaxMoves /\ file' = file
      /\ elsewhere' = (elsewhere \/ w # Newest)
  BY DEF Swap
<1>3. /\ file \in Files /\ moves \in Nat /\ moves + 1 \in Nat /\ MaxMoves \in Nat
      /\ elsewhere \in BOOLEAN
      /\ Showing /\ Newest \in DOMAIN windows
  BY WindowsThere, BoardWindowAssumption DEF WindowInv, TypeOK
<1>4. /\ b \in Grid(file) /\ c \in Grid(file)
      /\ board' \in [rows : Nat, cols : Nat,
                     arr : [0..(file.rows * file.columns - 1) -> Pointers]]
      /\ board'.rows = file.rows /\ board'.cols = file.columns
      /\ \A p \in Pointers : \E k \in DOMAIN board'.arr : FreedOf(board', p) = {k}
      /\ \A x \in Grid(file) : x \notin {b, c} =>
            ColorFor(board', x[1], x[2]) = ColorFor(board, x[1], x[2])
  <2>1. board.rows = file.rows /\ board.cols = file.columns
    BY <1>3 DEF WindowInv, TypeOK
  <2>2. BoardExchanged(b, c)
    BY <1>1, <1>3, SwapOfBoard DEF SwapsAt
  <2> HIDE DEF b, c
  <2> QED
    BY <2>1, <2>2 DEF BoardExchanged
<1>5. WindowsDrawn(w, b, c, moves + 1)
  <2> HIDE DEF b, c
  <2>1. windows' = [redraw(w, b, c) EXCEPT
           ![Newest].label = IF Opened(Newest) THEN moves + 1 ELSE @]
    BY <1>1, Zenon DEF b, c, SwapsAt
  <2> QED
    BY <1>3, <2>1, WindowsAfterSwap
<1> HIDE DEF b, c
<1> USE DEF WindowsDrawn
<1>6. \A x \in {b, c} : ColorFor(board', x[1], x[2]) \in Colors
  <2> SUFFICES ASSUME NEW x \in Grid(file)
               PROVE  ColorFor(board', x[1], x[2]) \in Colors
    BY <1>4
  <2>1. ColorFor(board', x[1], x[2]) = board'.arr[Place(file, x)].color
    BY <1>3, <1>4, ColorOfButton
  <2>2. Place(file, x) \in 0..(file.rows * file.columns - 1)
    BY <1>3, PlaceOfButton
  <2>3. board'.arr[Place(file, x)] \in Pointers
    BY <1>4, <2>2
  <2> QED
    BY <1>3, <2>1, <2>3, ColorOfCandy DEF Pointers
<1>7. \A v \in DOMAIN windows :
          /\ windows'[v].label \in 0..(moves + 1)
          /\ DOMAIN windows'[v].image = DOMAIN windows[v].image
          /\ \A x \in DOMAIN windows'[v].image : windows'[v].image[x] \in Colors
  <2> SUFFICES ASSUME NEW v \in DOMAIN windows
               PROVE  /\ windows'[v].label \in 0..(moves + 1)
                      /\ DOMAIN windows'[v].image = DOMAIN windows[v].image
                      /\ \A x \in DOMAIN windows'[v].image :
                            windows'[v].image[x] \in Colors
    OBVIOUS
  <2>1. windows[v].label \in 0..moves
        /\ \A x \in DOMAIN windows[v].image : windows[v].image[x] \in Colors
    BY DEF WindowInv, TypeOK
  <2>2. windows'[v].label \in 0..(moves + 1)
    BY <1>3, <1>5, <2>1
  <2>3. CASE v = w
    BY <1>5, <1>6, <2>1, <2>2, <2>3
  <2>4. CASE v # w
    BY <1>5, <2>1, <2>2, <2>4
  <2> QED
    BY <2>3, <2>4
<1>8. TypeOK'
  <2>1. Pointers' = Pointers /\ moves' \in 0..MaxMoves
    BY <1>2, <1>3 DEF Pointers
  <2>2. \A k \in DOMAIN board'.arr : board'.arr[k] \in Pointers'
    BY <1>4, <2>1
  <2>3. Len(windows') <= MaxOpens
    BY <1>5 DEF WindowInv, TypeOK, Newest
  <2>4. \A v \in DOMAIN windows' :
            /\ windows'[v].open \in BOOLEAN /\ windows'[v].label \in 0..moves'
            /\ \A x \in DOMAIN windows'[v].image : windows'[v].image[x] \in Colors
    BY <1>2, <1>5, <1>7 DEF WindowInv, TypeOK
  <2>5. Showing' /\ board'.rows = file'.rows /\ board'.cols = file'.columns
        /\ DOMAIN board'.arr = 0..(file'.rows * file'.columns - 1)
    BY <1>2, <1>3, <1>4, <1>5
  <2>6. elsewhere' \in BOOLEAN /\ file' \in Files
    BY <1>2, <1>3
  <2> QED
    BY <1>2, <2>1, <2>2, <2>3, <2>4, <2>5, <2>6, Zenon DEF TypeOK
<1>9. Frames'
  <2> DEFINE W == [open : BOOLEAN, label : Nat, image : Images]
  <2>1. ASSUME NEW v \in DOMAIN windows, NEW f,
               windows[v].image \in [Grid(f) -> Colors]
        PROVE  windows'[v].image \in [Grid(f) -> Colors]
    <3>1. DOMAIN windows'[v].image = Grid(f)
      BY <1>7, <2>1
    <3>2. windows'[v].image =
              [x \in DOMAIN windows'[v].image |-> windows'[v].image[x]]
      <4>1. CASE v = w
        BY <1>5, <4>1
      <4>2. CASE v # w
        BY <1>5, <2>1, <4>2
      <4> QED
        BY <4>1, <4>2
    <3> QED
      BY <1>7, <3>1, <3>2
  <2>2. ASSUME NEW v \in DOMAIN windows PROVE windows'[v] \in W
    <3>1. windows[v] \in W
      BY WindowsThere
    <3>2. windows'[v].image \in Images
      BY <2>1, <3>1 DEF Images
    <3>3. windows'[v].open \in BOOLEAN /\ windows'[v].label \in Nat
      BY <1>3, <1>5, <3>1
    <3> QED
      BY <1>5, <3>2, <3>3
  <2> HIDE DEF W
  <2>3. windows' \in Seq(W)
    <3>1. PICK R : windows' \in Seq(R)
      BY <1>5
    <3>2. \A v \in 1..Len(windows') : windows'[v] \in W
      BY <1>5, <2>2, <3>1
    <3> QED
      BY <3>1, <3>2, ElementOfSeq, SeqDef
  <2>4. windows'[Newest'].image \in [Grid(file') -> Colors]
    BY <1>2, <1>3, <1>5, <2>1 DEF WindowInv, Frames
  <2>5. Pointers' = Pointers
    BY <1>2 DEF Pointers
  <2> QED
    BY <1>2, <1>4, <2>3, <2>4, <2>5, Zenon DEF Frames, Windows, W, Grid
<1>10. EachFreedOnce'
  <2>1. Pointers' = Pointers
    BY <1>2 DEF Pointers
  <2> QED
    BY <1>4, <2>1, Zenon DEF EachFreedOnce
<1>11. WindowShowsBoard'
  <2> SUFFICES ASSUME Opened(Newest)'
               PROVE  /\ windows'[Newest].label = moves'
                      /\ ~elsewhere' => \A x \in DOMAIN windows'[Newest].image :
                            windows'[Newest].image[x] = ColorFor(board', x[1], x[2])
    BY <1>5 DEF WindowShowsBoard
  <2>1. Opened(Newest)
    BY <1>3, <1>5 DEF Opened
  <2>2. ASSUME ~elsewhere', NEW x \in DOMAIN windows'[Newest].image
        PROVE  windows'[Newest].image[x] = ColorFor(board', x[1], x[2])
    <3>1. ~elsewhere /\ w = Newest
      BY <1>2, <1>3, <2>2
    <3>2. x \in DOMAIN windows[w].image /\ x \in Grid(file)
      BY <1>3, <1>5, <2>2, <3>1 DEF WindowInv, Frames
    <3>3. windows[w].image[x] = ColorFor(board, x[1], x[2])
      BY <2>1, <3>1, <3>2 DEF WindowInv, WindowShowsBoard
    <3> QED
      BY <1>4, <1>5, <3>1, <3>2, <3>3
  <2> QED
    BY <1>2, <1>3, <1>5, <2>1, <2>2
<1> QED
  BY <1>8, <1>9, <1>10, <1>11 DEF WindowInv

LEMMA InvNext ==
    ASSUME NullApart, WindowInv, [Next]_vars
    PROVE  WindowInv'
<1>1. CASE UNCHANGED vars
  BY <1>1, StillKeeps DEF vars, WindowInv, TypeOK, Frames
<1>2. ASSUME NEW f \in Files, Open(f) PROVE WindowInv'
  BY <1>2, OpenKeeps
<1>3. ASSUME NEW w \in DOMAIN windows, Close(w) PROVE WindowInv'
  BY <1>3, CloseKeeps
<1>4. ASSUME NEW w \in DOMAIN windows, NEW b \in DOMAIN windows[w].image,
             Select(w, b)
      PROVE  WindowInv'
  BY <1>4, SelectKeeps
<1>5. ASSUME NEW w \in DOMAIN windows, NEW arrow \in Arrows, Swap(w, arrow)
      PROVE  WindowInv'
  BY <1>5, SwapKeeps
<1>6. ASSUME NEW w \in DOMAIN windows, NEW arrow \in Arrows, RefuseSwap(w, arrow)
      PROVE  WindowInv'
  BY <1>6, RefuseSwapKeeps
<1> QED
  BY <1>1, <1>2, <1>3, <1>4, <1>5, <1>6, Zenon DEF Next

LEMMA InvAlways == NullApart => (Spec => []WindowInv)
<1> SUFFICES ASSUME NullApart PROVE Spec => []WindowInv
  OBVIOUS
<1>1. Init => WindowInv
  BY InvInit
<1>2. WindowInv /\ [Next]_vars => WindowInv'
  BY InvNext
<1> QED
  BY <1>1, <1>2, PTL DEF Spec

-----------------------------------------------------------------------------
(* What the user relies on.                                                *)

(* Every variable keeps its range: a board that was read has a candy in    *)
(* each cell, whatever the size, and a selection names a button there was. *)
THEOREM TypeCorrect == NullApart => (Spec => []TypeOK)
BY InvAlways, PTL DEF WindowInv

(* However many swaps are made, in whatever window, the board holds each   *)
(* candy of the file once: the end of main frees each of them once.        *)
THEOREM EachIsFreedOnce == NullApart => (Spec => []EachFreedOnce)
BY InvAlways, PTL DEF WindowInv

(* Drawing two buttons after a swap is enough: row * cols + col tells all  *)
(* cells apart, so a swap changes no other button's candy.                 *)
THEOREM WindowIsBoard == NullApart => (Spec => []WindowShowsBoard)
BY InvAlways, PTL DEF WindowInv

LEMMA SwapPointed ==
    ASSUME WindowInv, NEW arrow \in Arrows
    PROVE  MovesAsPointed(arrow)
<1> DEFINE b == selected.button
           c == Beside(b, arrow)
           before == windows[Newest].image
           after == windows'[Newest].image
<1> SUFFICES ASSUME Swap(Newest, arrow), selected.window = Newest, ~elsewhere
             PROVE  /\ c \in DOMAIN before
                    /\ after = [before EXCEPT ![b] = before[c], ![c] = before[b]]
  BY Zenon DEF MovesAsPointed
<1>1. /\ Opened(Newest) /\ Newest \in DOMAIN windows /\ selected # NoButton
      /\ moves < MaxMoves
  BY DEF Swap, Opened
<1>2. PlaceIn(Newest) = {b}
  BY <1>1 DEF PlaceIn, Stale
<1>3. Showing /\ moves + 1 \in Nat
  BY <1>1, WindowsThere, BoardWindowAssumption DEF WindowInv, TypeOK
<1>4. PICK i, j \in Int : SwapsAt(<<i, j>>, Newest, arrow)
  BY <1>1, SwapStep
<1>5. b = <<i, j>>
  BY <1>2, <1>4 DEF SwapsAt
<1>6. BoardExchanged(<<i, j>>, Other(<<i, j>>, arrow))
      /\ Other(<<i, j>>, arrow) = Beside(<<i, j>>, arrow)
  BY <1>3, <1>4, SwapOfBoard DEF SwapsAt
<1>7. BoardExchanged(b, c) /\ Other(b, arrow) = c
  BY <1>5, <1>6, Zenon
<1> HIDE DEF b, c
<1>8. windows' = [redraw(Newest, b, c) EXCEPT
         ![Newest].label = IF Opened(Newest) THEN moves + 1 ELSE @]
  BY <1>4, <1>5, <1>7, Zenon DEF SwapsAt
<1>9. WindowsDrawn(Newest, b, c, moves + 1)
  BY <1>1, <1>3, <1>8, WindowsAfterSwap
<1>10. /\ before \in [Grid(file) -> Colors]
       /\ \A x \in Grid(file) : before[x] = ColorFor(board, x[1], x[2])
  BY <1>1, <1>3 DEF WindowInv, Frames, WindowShowsBoard
<1>11. after = [x \in Grid(file) |->
                  IF x \in {b, c} THEN ColorFor(board', x[1], x[2]) ELSE before[x]]
  BY <1>9, <1>10 DEF WindowsDrawn
<1>12. /\ b \in Grid(file) /\ c \in Grid(file) /\ b # c
       /\ ColorFor(board', b[1], b[2]) = before[c]
       /\ ColorFor(board', c[1], c[2]) = before[b]
  BY <1>7, <1>10 DEF BoardExchanged
<1>13. [before EXCEPT ![b] = before[c], ![c] = before[b]] =
          [x \in Grid(file) |-> IF x = c THEN before[b]
                                ELSE IF x = b THEN before[c] ELSE before[x]]
  <2> HIDE DEF before
  <2> QED
    BY <1>10, <1>12
<1> HIDE DEF before, after
<1>14. \A x \in Grid(file) :
           (IF x \in {b, c} THEN ColorFor(board', x[1], x[2]) ELSE before[x])
           = IF x = c THEN before[b] ELSE IF x = b THEN before[c] ELSE before[x]
  BY <1>12
<1>15. c \in DOMAIN before
  BY <1>10, <1>12
<1> QED
  BY <1>11, <1>13, <1>14, <1>15, Zenon

(* The arrow moves the selected candy to the button it points at, as the   *)
(* user sees it: rows are turned over twice, once for the board and once   *)
(* for the step.                                                           *)
THEOREM ArrowsMoveAsPointed == NullApart => (Spec => SwapMovesAsPointed)
<1> SUFFICES ASSUME NullApart PROVE Spec => SwapMovesAsPointed
  OBVIOUS
<1>1. WindowInv /\ [Next]_vars => [\A arrow \in Arrows : MovesAsPointed(arrow)]_vars
  BY SwapPointed
<1>2. NullApart => (Spec => []WindowInv)
  BY InvAlways
<1> QED
  BY <1>1, <1>2, PTL DEF Spec, SwapMovesAsPointed
==============================================================================
