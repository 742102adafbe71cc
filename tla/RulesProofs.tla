------------------------------ MODULE RulesProofs ------------------------------
(***************************************************************************)
(* Lemmas about the operators the models compute whole boards with, for    *)
(* boards of every size: sums over the cells, the loops of Settle, and the *)
(* candies of a column that survive.                                       *)
(*                                                                         *)
(* Induction is over sets: NatSet and FiniteSet below say that a set which *)
(* is closed under one more step holds everything.  A recursive function   *)
(* is the CHOOSE of a solution of its equation; Recursion says that there  *)
(* is one.                                                                 *)
(***************************************************************************)
EXTENDS BoardRules, Evaluator, FiniteSetTheorems, WellFoundedInduction, TLAPS

-----------------------------------------------------------------------------
(* Induction over sets, and functions defined by recursion.                *)

LEMMA LeastNat ==
    ASSUME NEW S, S \subseteq Nat, S # {}
    PROVE  \E m \in S : \A y \in S : m <= y
<1> DEFINE R == OpToRel(<, Nat)
<1>1. IsWellFoundedOn(R, Nat)
  BY NatLessThanWellFounded
<1>2. \A y, m \in Nat : y < m => <<y, m>> \in R
  BY Zenon DEF OpToRel
<1> HIDE DEF R
<1>3. PICK m \in S : \A y \in S : ~ (<<y, m>> \in R)
  BY <1>1, WFMin
<1>4. ASSUME NEW y \in S PROVE m <= y
  <2>1. m \in Nat /\ y \in Nat /\ ~ (y < m)
    BY <1>2, <1>3
  <2> QED
    BY <2>1
<1> QED
  BY <1>4

(* A set of numbers with zero and every successor holds them all.          *)
LEMMA NatSet ==
    ASSUME NEW S, 0 \in S, \A n \in Nat : n \in S => n + 1 \in S
    PROVE  Nat \subseteq S
<1> DEFINE out == Nat \ S
<1>1. ASSUME out # {} PROVE FALSE
  <2>0. out \subseteq Nat
    OBVIOUS
  <2>1. PICK m \in out : \A y \in out : m <= y
    <3> HIDE DEF out
    <3> QED
      BY <1>1, <2>0, LeastNat
  <2>2. m \in Nat /\ m # 0
    OBVIOUS
  <2>3. m - 1 \in Nat /\ m - 1 + 1 = m /\ ~ (m <= m - 1)
    BY <2>2
  <2>4. m - 1 \in S
    BY <2>1, <2>3
  <2>5. m \in S
    BY <2>3, <2>4
  <2> QED
    BY <2>5
<1> QED
  BY <1>1

(* A set of sets with the empty one, and with each subset of S of which it *)
(* holds all that lack one element, holds every subset of S.               *)
LEMMA FiniteSet ==
    ASSUME NEW S, IsFiniteSet(S), NEW C, {} \in C,
           \A T \in SUBSET S :
               T # {} /\ (\A x \in T : T \ {x} \in C) => T \in C
    PROVE  SUBSET S \subseteq C
<1> DEFINE N == {n \in Nat : \A T \in SUBSET S : Cardinality(T) = n => T \in C}
<1>1. \A T \in SUBSET S : IsFiniteSet(T) /\ Cardinality(T) \in Nat
  BY FS_Subset, FS_CardinalityType
<1>2. 0 \in N
  BY <1>1, FS_EmptySet
<1>3. ASSUME NEW n \in Nat, n \in N PROVE n + 1 \in N
  <2> SUFFICES ASSUME NEW T \in SUBSET S, Cardinality(T) = n + 1
               PROVE  T \in C
    OBVIOUS
  <2>1. T # {}
    <3>1. Cardinality(T) # 0
      OBVIOUS
    <3> QED
      BY <3>1, FS_EmptySet, Zenon
  <2>2. ASSUME NEW x \in T PROVE T \ {x} \in C
    <3>1. T \ {x} \in SUBSET S
      OBVIOUS
    <3>2. Cardinality(T \ {x}) = Cardinality(T) - 1
      BY <1>1, FS_RemoveElement
    <3>3. Cardinality(T \ {x}) = n
      BY <3>2
    <3> QED
      BY <1>3, <3>1, <3>3
  <2> QED
    BY <2>1, <2>2
<1>4. Nat \subseteq N
  <2> HIDE DEF N
  <2> QED
    BY <1>2, <1>3, NatSet
<1> QED
  BY <1>1, <1>4

(* A loop that stays in G has a value after every number of iterations.    *)
Loop(G, step, base, h) ==
    h = [n \in Nat |-> IF n = 0 THEN base ELSE step[n - 1][h[n - 1]]]

LEMMA Recursion ==
    ASSUME NEW G, NEW base \in G, NEW step \in [Nat -> [G -> G]]
    PROVE  \E h \in [Nat -> G] : Loop(G, step, base, h)
<1> DEFINE Upto(n, h) ==
               /\ h \in [0..n -> G] /\ h[0] = base
               /\ \A k \in 0..n : k # 0 => h[k] = step[k - 1][h[k - 1]]
           N == {n \in Nat : \E h : Upto(n, h)}
           N2 == {n \in Nat : \A m \in Nat : n <= m =>
                      \A h1, h2 : Upto(n, h1) /\ Upto(m, h2) => h1[n] = h2[n]}
<1>1. 0 \in N
  <2> DEFINE h == [k \in 0..0 |-> base]
  <2>1. Upto(0, h)
    OBVIOUS
  <2> QED
    BY <2>1
<1>2. ASSUME NEW n \in Nat, n \in N PROVE n + 1 \in N
  <2>1. PICK h : Upto(n, h)
    BY <1>2
  <2> DEFINE g == [k \in 0..(n + 1) |-> IF k <= n THEN h[k] ELSE step[n][h[n]]]
  <2>2. g \in [0..(n + 1) -> G] /\ g[0] = base
    BY <2>1
  <2>3. ASSUME NEW k \in 0..(n + 1), k # 0 PROVE g[k] = step[k - 1][g[k - 1]]
    <3>1. k - 1 \in 0..n /\ g[k - 1] = h[k - 1]
      BY <2>3
    <3>2. CASE k <= n
      BY <2>1, <2>3, <3>1, <3>2
    <3>3. CASE k = n + 1
      BY <3>1, <3>3
    <3> QED
      BY <3>2, <3>3
  <2>4. Upto(n + 1, g)
    BY <2>2, <2>3
  <2> HIDE DEF Upto, g
  <2> QED
    BY <2>4
<1>3. \A n \in Nat : \E h : Upto(n, h)
  <2>1. Nat \subseteq N
    <3> HIDE DEF N
    <3> QED
      BY <1>1, <1>2, NatSet
  <2> QED
    BY <2>1
<1>4. \A n, m \in Nat : n <= m =>
          \A h1, h2 : Upto(n, h1) /\ Upto(m, h2) => h1[n] = h2[n]
  <2>1. 0 \in N2
    OBVIOUS
  <2>2. ASSUME NEW n \in Nat, n \in N2 PROVE n + 1 \in N2
    <3> SUFFICES ASSUME NEW m \in Nat, n + 1 <= m, NEW h1, NEW h2,
                        Upto(n + 1, h1), Upto(m, h2)
                 PROVE  h1[n + 1] = h2[n + 1]
      OBVIOUS
    <3> DEFINE h == [k \in 0..n |-> h1[k]]
    <3>1. Upto(n, h)
      OBVIOUS
    <3>2. h[n] = h2[n] /\ h[n] = h1[n]
      <4>1. n <= m /\ n \in 0..n
        OBVIOUS
      <4>2. h[n] = h1[n]
        BY <4>1
      <4> HIDE DEF Upto, h
      <4>3. h[n] = h2[n]
        BY <2>2, <3>1, <4>1
      <4> QED
        BY <4>2, <4>3
    <3>3. h1[n + 1] = step[n][h1[n]] /\ h2[n + 1] = step[n][h2[n]]
      OBVIOUS
    <3> QED
      BY <3>2, <3>3
  <2>3. Nat \subseteq N2
    <3> HIDE DEF N2
    <3> QED
      BY <2>1, <2>2, NatSet
  <2> QED
    BY <2>3
<1> DEFINE part == [n \in Nat |-> CHOOSE h : Upto(n, h)]
           whole == [n \in Nat |-> part[n][n]]
<1>5. \A n \in Nat : Upto(n, part[n])
  BY <1>3
<1>6. whole \in [Nat -> G]
  <2>1. ASSUME NEW n \in Nat PROVE part[n][n] \in G
    <3>1. Upto(n, part[n])
      BY <1>5
    <3> HIDE DEF part
    <3> QED
      BY <3>1
  <2> HIDE DEF part
  <2> QED
    BY <2>1
<1>7. ASSUME NEW n \in Nat
      PROVE  whole[n] = IF n = 0 THEN base ELSE step[n - 1][whole[n - 1]]
  <2>1. CASE n = 0
    BY <1>5, <2>1
  <2>2. CASE n # 0
    <3>1. n - 1 \in Nat /\ n - 1 <= n /\ n \in 0..n
      BY <2>2
    <3>2. part[n][n] = step[n - 1][part[n][n - 1]]
      BY <1>5, <2>2, <3>1
    <3>3. Upto(n - 1, part[n - 1]) /\ Upto(n, part[n])
      <4> HIDE DEF Upto, part
      <4> QED
        BY <1>5, <3>1
    <3>4. part[n - 1][n - 1] = part[n][n - 1]
      <4> HIDE DEF Upto, part
      <4> QED
        BY <1>4, <3>1, <3>3
    <3>5. whole[n] = part[n][n] /\ whole[n - 1] = part[n - 1][n - 1]
      <4> HIDE DEF part
      <4> QED
        BY <3>1
    <3> HIDE DEF whole, part
    <3> QED
      BY <2>2, <3>2, <3>4, <3>5
  <2> QED
    BY <2>1, <2>2
<1>8. whole = [n \in Nat |-> IF n = 0 THEN base ELSE step[n - 1][whole[n - 1]]]
  <2> DEFINE next == [n \in Nat |-> IF n = 0 THEN base ELSE step[n - 1][whole[n - 1]]]
  <2>1. whole = [n \in Nat |-> whole[n]]
    OBVIOUS
  <2> HIDE DEF whole
  <2>2. next = [n \in Nat |-> next[n]]
    OBVIOUS
  <2>3. \A n \in Nat : whole[n] = next[n]
    BY <1>7
  <2> HIDE DEF next
  <2>4. [n \in Nat |-> whole[n]] = [n \in Nat |-> next[n]]
    BY ONLY <2>3, Zenon
  <2>5. whole = next
    BY ONLY <2>1, <2>2, <2>4, Zenon
  <2> QED
    BY <2>5 DEF next
<1> QED
  BY <1>6, <1>8 DEF Loop

-----------------------------------------------------------------------------
(* Sums over finite sets.                                                  *)

(* The element SumFunctionOnSet takes out first.                           *)
First(T) == CHOOSE x \in T : TRUE
SumsOf(f, S, it) ==
    it = [T \in SUBSET S |->
             IF T = {} THEN 0 ELSE f[First(T)] + it[T \ {First(T)}]]

LEMMA SumsExist ==
    ASSUME NEW S, IsFiniteSet(S), NEW f \in [S -> Int]
    PROVE  \E it \in [SUBSET S -> Int] : SumsOf(f, S, it)
<1> DEFINE G == [SUBSET S -> Int]
           next(L) == [T \in SUBSET S |->
                         IF T = {} THEN 0 ELSE f[First(T)] + L[T \ {First(T)}]]
           base == [T \in SUBSET S |-> 0]
           step == [n \in Nat |-> [L \in G |-> next(L)]]
<1>0. \A T \in SUBSET S : T # {} => First(T) \in T
  BY DEF First
<1>1. ASSUME NEW L \in G PROVE next(L) \in G
  BY <1>0
<1>2. base \in G /\ step \in [Nat -> [G -> G]]
  <2>1. base \in G
    OBVIOUS
  <2> HIDE DEF next, G
  <2> QED
    BY <1>1, <2>1
<1>3. PICK h \in [Nat -> G] : Loop(G, step, base, h)
  <2> HIDE DEF G, step, base
  <2> QED
    BY <1>2, Recursion
<1>4. h[0] = base /\ \A n \in Nat : h[n + 1] = next(h[n])
  <2>1. \A n \in Nat : n + 1 \in Nat /\ n + 1 # 0 /\ n + 1 - 1 = n
    OBVIOUS
  <2>2. \A n \in Nat : h[n + 1] = step[n][h[n]]
    <3> HIDE DEF step, G, next, base
    <3> QED
      BY <1>3, <2>1 DEF Loop
  <2>3. h[0] = base
    <3> HIDE DEF step, G, next, base
    <3> QED
      BY <1>3 DEF Loop
  <2>4. ASSUME NEW n \in Nat PROVE step[n][h[n]] = next(h[n])
    <3>1. h[n] \in G
      OBVIOUS
    <3> HIDE DEF next, G
    <3> QED
      BY <3>1
  <2> HIDE DEF step, next, base
  <2> QED
    BY <2>2, <2>3, <2>4
<1>5. \A T \in SUBSET S : IsFiniteSet(T) /\ Cardinality(T) \in Nat
  BY FS_Subset, FS_CardinalityType
<1> DEFINE N == {n \in Nat : \A T \in SUBSET S :
                   Cardinality(T) <= n => h[n + 1][T] = h[n][T]}
<1>6. 0 \in N
  <2> SUFFICES ASSUME NEW T \in SUBSET S, Cardinality(T) <= 0
               PROVE  h[0 + 1][T] = h[0][T]
    OBVIOUS
  <2>1. T = {}
    BY <1>5, FS_EmptySet
  <2> QED
    BY <1>4, <2>1
<1>7. ASSUME NEW n \in Nat, n \in N PROVE n + 1 \in N
  <2> SUFFICES ASSUME NEW T \in SUBSET S, Cardinality(T) <= n + 1
               PROVE  h[n + 1 + 1][T] = h[n + 1][T]
    OBVIOUS
  <2>1. h[n + 1 + 1] = next(h[n + 1]) /\ h[n + 1] = next(h[n])
    <3> HIDE DEF next
    <3> QED
      BY <1>4
  <2>2. CASE T = {}
    BY <2>1, <2>2
  <2>3. CASE T # {}
    <3> DEFINE U == T \ {First(T)}
    <3>1. U \in SUBSET S /\ Cardinality(U) <= n
      <4>1. Cardinality(U) = Cardinality(T) - 1
        BY <1>0, <1>5, <2>3, FS_RemoveElement
      <4> QED
        BY <1>5, <4>1
    <3>2. h[n + 1][U] = h[n][U]
      BY <1>7, <3>1
    <3> QED
      BY <2>1, <2>3, <3>2
  <2> QED
    BY <2>2, <2>3
<1>8. Nat \subseteq N
  <2> HIDE DEF N
  <2> QED
    BY <1>6, <1>7, NatSet
<1> DEFINE n == Cardinality(S)
           it == h[n]
<1>9. S \in SUBSET S /\ n \in Nat
  BY <1>5
<1>10. it \in G
  BY <1>9
<1>11. it = next(it)
  <2>1. \A T \in SUBSET S : h[n + 1][T] = h[n][T]
    BY <1>8, <1>9, FS_Subset
  <2>2. h[n + 1] = next(it)
    BY <1>4, <1>9
  <2>3. next(it) = [T \in SUBSET S |-> next(it)[T]]
    OBVIOUS
  <2>4. it = [T \in SUBSET S |-> it[T]]
    BY <1>10
  <2> HIDE DEF next, n
  <2> QED
    BY <2>1, <2>2, <2>3, <2>4
<1> HIDE DEF it
<1> QED
  BY <1>10, <1>11 DEF SumsOf

(* The equation of SumFunctionOnSet, for every subset of a finite set.     *)
LEMMA SumEquation ==
    ASSUME NEW S, IsFiniteSet(S), NEW f \in [S -> Int]
    PROVE  /\ SumFunctionOnSet(f, {}) = 0
           /\ \A T \in SUBSET S : T # {} =>
                 SumFunctionOnSet(f, T)
                     = f[First(T)] + SumFunctionOnSet(f, T \ {First(T)})
<1> DEFINE it(T) == CHOOSE i : SumsOf(f, T, i)
<1>0. \A T \in SUBSET S : T # {} => First(T) \in T
  BY DEF First
<1>1. ASSUME NEW T PROVE SumFunctionOnSet(f, T) = it(T)[T]
  BY DEF SumFunctionOnSet, FoldFunctionOnSet, MapThenFoldSet, SumsOf, First
<1>2. ASSUME NEW T \in SUBSET S PROVE SumsOf(f, T, it(T))
  <2> DEFINE g == [x \in T |-> f[x]]
  <2>1. IsFiniteSet(T) /\ g \in [T -> Int]
    BY FS_Subset
  <2>2. PICK i : SumsOf(g, T, i)
    <3> HIDE DEF g
    <3> QED
      BY <2>1, SumsExist
  <2>3. \A U \in SUBSET T : U # {} => g[First(U)] = f[First(U)]
    BY <1>0
  <2>4. SumsOf(f, T, i)
    <3> HIDE DEF g
    <3> QED
      BY <2>2, <2>3 DEF SumsOf
  <2> QED
    BY <2>4
<1> HIDE DEF it
<1>3. \A T, V \in SUBSET S : V \subseteq T =>
          /\ V = {} => it(T)[V] = 0
          /\ V # {} => it(T)[V] = f[First(V)] + it(T)[V \ {First(V)}]
  BY <1>2 DEF SumsOf
<1> DEFINE C == {V \in SUBSET S :
                   \A T \in SUBSET S : V \subseteq T => it(T)[V] = it(V)[V]}
<1>4. {} \in C
  BY <1>3
<1>5. ASSUME NEW V \in SUBSET S, V # {}, \A x \in V : V \ {x} \in C
      PROVE  V \in C
  <2> DEFINE U == V \ {First(V)}
  <2>1. U \in C /\ U \in SUBSET S
    BY <1>0, <1>5
  <2>2. ASSUME NEW T \in SUBSET S, V \subseteq T PROVE it(T)[V] = it(V)[V]
    <3>1. it(T)[U] = it(U)[U] /\ it(V)[U] = it(U)[U]
      BY <2>1, <2>2
    <3>2. it(T)[V] = f[First(V)] + it(T)[U] /\ it(V)[V] = f[First(V)] + it(V)[U]
      BY <1>3, <1>5, <2>2
    <3> QED
      BY <3>1, <3>2
  <2> QED
    BY <2>2
<1>6. SUBSET S \subseteq C
  <2> HIDE DEF C
  <2> QED
    BY <1>4, <1>5, FiniteSet
<1>7. \A T, V \in SUBSET S : V \subseteq T => it(T)[V] = it(V)[V]
  BY <1>6
<1>8. ASSUME NEW T \in SUBSET S, T # {}
      PROVE  it(T)[T] = f[First(T)] + it(T \ {First(T)})[T \ {First(T)}]
  <2>1. T \ {First(T)} \in SUBSET S /\ T \ {First(T)} \subseteq T
    OBVIOUS
  <2> QED
    BY <1>3, <1>7, <1>8, <2>1
<1>9. {} \in SUBSET S /\ it({})[{}] = 0
  BY <1>3
<1> QED
  BY <1>1, <1>8, <1>9

(* A sum of integers is one, and any element may be taken out of it first. *)
LEMMA SumOut ==
    ASSUME NEW S, IsFiniteSet(S), NEW f \in [S -> Int]
    PROVE  \A T \in SUBSET S :
              /\ SumFunctionOnSet(f, T) \in Int
              /\ \A x \in T : SumFunctionOnSet(f, T)
                                 = f[x] + SumFunctionOnSet(f, T \ {x})
<1> DEFINE Sum(T) == SumFunctionOnSet(f, T)
           C == {T \in SUBSET S :
                   /\ Sum(T) \in Int
                   /\ \A x \in T : /\ Sum(T \ {x}) \in Int
                                    /\ Sum(T) = f[x] + Sum(T \ {x})}
<1>1. /\ Sum({}) = 0
      /\ \A T \in SUBSET S :
            T # {} => Sum(T) = f[First(T)] + Sum(T \ {First(T)})
  BY SumEquation
<1>2. \A T \in SUBSET S : T # {} => First(T) \in T
  BY DEF First
<1> HIDE DEF Sum
<1>3. {} \in C
  BY <1>1
<1>4. ASSUME NEW T \in SUBSET S, T # {}, \A x \in T : T \ {x} \in C
      PROVE  T \in C
  <2> DEFINE y == First(T)
  <2>1. y \in T /\ f[y] \in Int /\ Sum(T) = f[y] + Sum(T \ {y})
    BY <1>1, <1>2, <1>4
  <2>2. Sum(T \ {y}) \in Int
    BY <1>4, <2>1
  <2>3. ASSUME NEW x \in T PROVE Sum(T) = f[x] + Sum(T \ {x})
    <3>1. CASE x = y
      BY <2>1, <3>1
    <3>2. CASE x # y
      <4>1. Sum(T \ {y}) = f[x] + Sum((T \ {y}) \ {x})
        BY <1>4, <2>1, <3>2
      <4>2. Sum(T \ {x}) = f[y] + Sum((T \ {x}) \ {y})
        BY <1>4, <2>1, <3>2
      <4>3. (T \ {y}) \ {x} = (T \ {x}) \ {y}
        OBVIOUS
      <4>4. Sum(T \ {x}) \in Int /\ Sum(T \ {y}) \in Int /\ f[x] \in Int
        BY <1>4, <2>1, <3>2
      <4>5. PICK rest : rest = Sum((T \ {x}) \ {y})
        OBVIOUS
      <4>6. Sum(T \ {y}) = f[x] + rest /\ Sum(T \ {x}) = f[y] + rest
        BY <4>1, <4>2, <4>3, <4>5
      <4>7. rest \in Int
        BY <1>4, <2>1, <3>2, <4>5
      <4> QED
        BY <2>1, <4>4, <4>6, <4>7
    <3> QED
      BY <3>1, <3>2
  <2> QED
    BY <1>4, <2>1, <2>2, <2>3
<1>5. SUBSET S \subseteq C
  <2> HIDE DEF C
  <2> QED
    BY <1>3, <1>4, FiniteSet
<1> QED
  BY <1>5 DEF Sum

(* Two sums that differ at the elements of P only, and there by lo to hi,  *)
(* differ by lo to hi for each of those.                                   *)
LEMMA SumsBetween ==
    ASSUME NEW S, IsFiniteSet(S), NEW f \in [S -> Int], NEW g \in [S -> Int],
           NEW P \in SUBSET S, NEW lo \in Int, NEW hi \in Int,
           \A x \in S : IF x \in P THEN f[x] - g[x] \in lo..hi ELSE f[x] = g[x]
    PROVE  /\ SumFunctionOnSet(f, S) \in Int /\ SumFunctionOnSet(g, S) \in Int
           /\ SumFunctionOnSet(f, S) - SumFunctionOnSet(g, S)
                 \in (lo * Cardinality(P))..(hi * Cardinality(P))
<1> DEFINE F(T) == SumFunctionOnSet(f, T)
           G(T) == SumFunctionOnSet(g, T)
           n(T) == Cardinality(P \cap T)
           C == {T \in SUBSET S : F(T) - G(T) \in (lo * n(T))..(hi * n(T))}
<1>1. \A T \in SUBSET S :
          /\ F(T) \in Int /\ G(T) \in Int
          /\ \A x \in T : F(T) = f[x] + F(T \ {x}) /\ G(T) = g[x] + G(T \ {x})
  BY SumOut
<1>2. F({}) = 0 /\ G({}) = 0
  BY SumEquation
<1>3. \A T \in SUBSET S : IsFiniteSet(P \cap T) /\ n(T) \in Nat
  <2>1. \A T \in SUBSET S : P \cap T \in SUBSET S
    OBVIOUS
  <2> QED
    BY <2>1, FS_Subset, FS_CardinalityType
<1>4. {} \in C
  <2>1. n({}) = 0
    <3>1. P \cap {} = {}
      OBVIOUS
    <3> QED
      BY <3>1, FS_EmptySet
  <2> HIDE DEF F, G, n
  <2>2. lo * 0 = 0 /\ hi * 0 = 0
    OBVIOUS
  <2> QED
    BY <1>2, <2>1, <2>2
<1>5. ASSUME NEW T \in SUBSET S, T # {}, \A x \in T : T \ {x} \in C
      PROVE  T \in C
  <2>1. PICK x \in T : TRUE
    BY <1>5
  <2> DEFINE U == T \ {x}
  <2>2. U \in SUBSET S /\ U \in C
    BY <1>5
  <2>3. /\ F(T) = f[x] + F(U) /\ G(T) = g[x] + G(U)
        /\ F(U) \in Int /\ G(U) \in Int /\ n(U) \in Nat
        /\ f[x] \in Int /\ g[x] \in Int
    BY <1>1, <1>3, <2>2
  <2>4. F(U) - G(U) >= lo * n(U) /\ F(U) - G(U) <= hi * n(U)
    <3> HIDE DEF F, G, n
    <3>1. \A V \in C : F(V) - G(V) \in (lo * n(V))..(hi * n(V))
      OBVIOUS
    <3> HIDE DEF C, U
    <3> QED
      BY <2>2, <3>1
  <2>5. F(T) - G(T) = (f[x] - g[x]) + (F(U) - G(U))
    <3> HIDE DEF F, G, U
    <3> QED
      BY <2>3
  <2>6. n(T) = IF x \in P THEN n(U) + 1 ELSE n(U)
    <3>1. CASE x \in P
      <4>1. P \cap T = (P \cap U) \cup {x} /\ x \notin P \cap U
        BY <3>1
      <4> QED
        BY <1>3, <2>2, <3>1, <4>1, FS_AddElement
    <3>2. CASE x \notin P
      <4>1. P \cap T = P \cap U
        BY <3>2
      <4> QED
        BY <3>2, <4>1
    <3> QED
      BY <3>1, <3>2
  <2>7. \A m \in Nat : lo * (m + 1) = lo * m + lo /\ hi * (m + 1) = hi * m + hi
    OBVIOUS
  <2>8. lo * n(U) \in Int /\ hi * n(U) \in Int
    BY <2>3
  <2> HIDE DEF F, G, n, U
  <2>9. F(T) - G(T) \in (lo * n(T))..(hi * n(T))
    <3>1. CASE x \in P
      <4>1. /\ lo * n(T) = lo * n(U) + lo /\ hi * n(T) = hi * n(U) + hi
        BY <2>3, <2>6, <2>7, <3>1
      <4>2. f[x] - g[x] \in lo..hi
        BY <3>1
      <4> HIDE DEF C
      <4> QED
        BY <2>3, <2>4, <2>5, <2>8, <4>1, <4>2
    <3>2. CASE x \notin P
      <4>1. lo * n(T) = lo * n(U) /\ hi * n(T) = hi * n(U) /\ f[x] = g[x]
        BY <2>6, <3>2
      <4> HIDE DEF C
      <4> QED
        BY <2>3, <2>4, <2>5, <2>8, <4>1
    <3> QED
      BY <3>1, <3>2
  <2> QED
    BY <2>9
<1>6. SUBSET S \subseteq C
  <2> HIDE DEF C
  <2> QED
    BY <1>4, <1>5, FiniteSet
<1>7. S \in C /\ P \cap S = P
  BY <1>6
<1> QED
  BY <1>1, <1>7

-----------------------------------------------------------------------------
(* The loops of Settle.                                                    *)

(* A loop whose body stays in G does.                                      *)
LEMMA LoopType ==
    ASSUME NEW G, NEW h, h = [n \in Nat |-> h[n]], h[0] \in G,
           \A n \in Nat : h[n] \in G => h[n + 1] \in G
    PROVE  h \in [Nat -> G]
<1> DEFINE S == {n \in Nat : h[n] \in G}
<1>1. Nat \subseteq S
  <2>1. 0 \in S
    OBVIOUS
  <2>2. ASSUME NEW n \in Nat, n \in S PROVE n + 1 \in S
    <3>1. h[n] \in G /\ n + 1 \in Nat
      BY <2>2
    <3>2. h[n + 1] \in G
      BY <3>1
    <3> QED
      BY <3>1, <3>2
  <2> HIDE DEF S
  <2> QED
    BY <2>1, <2>2, NatSet
<1>2. \A n \in Nat : h[n] \in G
  BY <1>1
<1> HIDE DEF S
<1> QED
  BY <1>2

(* Whatever the position and the template, MatchTemplate stays in G.       *)
Keeps(G) == \A g \in G : \A u, r, c \in Nat : Tried(g, u, r, c) \in G

(* The loop over the columns of a row.                                     *)
LEMMA ColumnsLoop ==
    ASSUME NEW G, Keeps(G), NEW g \in G, NEW u \in Nat, NEW r \in Nat
    PROVE  /\ Columns(g, u, r) \in [Nat -> G] /\ Columns(g, u, r)[0] = g
           /\ \A n \in Nat :
                 Columns(g, u, r)[n + 1]
                    = Tried(Columns(g, u, r)[n], u, r, n)
<1> DEFINE F(h) == [n \in Nat |->
                      IF n = 0 THEN g ELSE Tried(h[n - 1], u, r, n - 1)]
           step == [n \in Nat |-> [h \in G |-> Tried(h, u, r, n)]]
           after == CHOOSE h : h = F(h)
<1>1. \A n \in Nat, h \in G : Tried(h, u, r, n) \in G
  BY DEF Keeps
<1>2. PICK h \in [Nat -> G] : Loop(G, step, g, h)
  <2>1. step \in [Nat -> [G -> G]]
    BY <1>1
  <2> HIDE DEF step
  <2> QED
    BY <2>1, Recursion
<1>3. h = F(h)
  <2>1. \A n \in Nat : n # 0 => n - 1 \in Nat /\ h[n - 1] \in G
    OBVIOUS
  <2>2. \A n \in Nat : n # 0 =>
            step[n - 1][h[n - 1]] = Tried(h[n - 1], u, r, n - 1)
    BY <2>1
  <2> HIDE DEF step
  <2> QED
    BY <1>2, <2>2 DEF Loop
<1>4. after = F(after)
  BY <1>3
<1>5. Columns(g, u, r) = after
  BY DEF Columns
<1> HIDE DEF after
<1>6. /\ after[0] = g /\ after = [n \in Nat |-> after[n]]
      /\ \A n \in Nat : after[n + 1] = Tried(after[n], u, r, n)
  BY <1>4
<1>7. \A n \in Nat : after[n] \in G => after[n + 1] \in G
  BY <1>1, <1>6
<1>8. after \in [Nat -> G]
  BY <1>6, <1>7, LoopType
<1> QED
  BY <1>5, <1>6, <1>8

(* How often a loop runs is a number. *)
LEMMA TimesType ==
    /\ \A n \in Int : Times(n) \in Nat
    /\ \A u : ScanCols(u) \in Int /\ ScanRows(u) \in Int
    /\ \A u : Times(ScanCols(u)) \in Nat /\ Times(ScanRows(u)) \in Nat
  BY BoardAssumption DEF Times, ScanCols, ScanRows, Extent

(* The loop over the rows of the board.                                    *)
LEMMA RowsLoop ==
    ASSUME NEW G, Keeps(G), NEW g \in G, NEW u \in Nat
    PROVE  /\ RowsOf(g, u) \in [Nat -> G] /\ RowsOf(g, u)[0] = g
           /\ \A n \in Nat :
                 RowsOf(g, u)[n + 1]
                    = Columns(RowsOf(g, u)[n], u, n)[Times(ScanCols(u))]
<1> DEFINE F(h) == [n \in Nat |->
                      IF n = 0 THEN g ELSE Columns(h[n - 1], u, n - 1)[Times(ScanCols(u))]]
           step == [n \in Nat |-> [h \in G |-> Columns(h, u, n)[Times(ScanCols(u))]]]
           after == CHOOSE h : h = F(h)
<1>1. \A n \in Nat, h \in G : Columns(h, u, n)[Times(ScanCols(u))] \in G
  <2> SUFFICES ASSUME NEW n \in Nat, NEW h \in G
               PROVE  Columns(h, u, n)[Times(ScanCols(u))] \in G
    OBVIOUS
  <2>1. Columns(h, u, n) \in [Nat -> G]
    BY ColumnsLoop
  <2> QED
    BY <2>1, TimesType
<1>2. PICK h \in [Nat -> G] : Loop(G, step, g, h)
  <2>1. step \in [Nat -> [G -> G]]
    BY <1>1
  <2> HIDE DEF step
  <2> QED
    BY <2>1, Recursion
<1>3. h = F(h)
  <2>1. \A n \in Nat : n # 0 => n - 1 \in Nat /\ h[n - 1] \in G
    OBVIOUS
  <2>2. \A n \in Nat : n # 0 =>
            step[n - 1][h[n - 1]] = Columns(h[n - 1], u, n - 1)[Times(ScanCols(u))]
    BY <2>1
  <2> HIDE DEF step
  <2> QED
    BY <1>2, <2>2 DEF Loop
<1>4. after = F(after)
  BY <1>3
<1>5. RowsOf(g, u) = after
  BY DEF RowsOf
<1> HIDE DEF after
<1>6. /\ after[0] = g /\ after = [n \in Nat |-> after[n]]
      /\ \A n \in Nat : after[n + 1] = Columns(after[n], u, n)[Times(ScanCols(u))]
  BY <1>4
<1>7. \A n \in Nat : after[n] \in G => after[n + 1] \in G
  BY <1>1, <1>6
<1>8. after \in [Nat -> G]
  BY <1>6, <1>7, LoopType
<1> QED
  BY <1>5, <1>6, <1>8

(* The loop over the templates.                                            *)
LEMMA TemplatesLoop ==
    ASSUME NEW G, Keeps(G), NEW g \in G
    PROVE  /\ TemplatesOf(g) \in [Nat -> G] /\ TemplatesOf(g)[0] = g
           /\ \A n \in Nat :
                 TemplatesOf(g)[n + 1]
                    = RowsOf(TemplatesOf(g)[n], n)[Times(ScanRows(n))]
<1> DEFINE F(h) == [n \in Nat |->
                      IF n = 0 THEN g ELSE RowsOf(h[n - 1], n - 1)[Times(ScanRows(n - 1))]]
           step == [n \in Nat |-> [h \in G |-> RowsOf(h, n)[Times(ScanRows(n))]]]
           after == CHOOSE h : h = F(h)
<1>1. \A n \in Nat, h \in G : RowsOf(h, n)[Times(ScanRows(n))] \in G
  <2> SUFFICES ASSUME NEW n \in Nat, NEW h \in G
               PROVE  RowsOf(h, n)[Times(ScanRows(n))] \in G
    OBVIOUS
  <2>1. RowsOf(h, n) \in [Nat -> G]
    BY RowsLoop
  <2> QED
    BY <2>1, TimesType
<1>2. PICK h \in [Nat -> G] : Loop(G, step, g, h)
  <2>1. step \in [Nat -> [G -> G]]
    BY <1>1
  <2> HIDE DEF step
  <2> QED
    BY <2>1, Recursion
<1>3. h = F(h)
  <2>1. \A n \in Nat : n # 0 => n - 1 \in Nat /\ h[n - 1] \in G
    OBVIOUS
  <2>2. \A n \in Nat : n # 0 =>
            step[n - 1][h[n - 1]] = RowsOf(h[n - 1], n - 1)[Times(ScanRows(n - 1))]
    BY <2>1
  <2> HIDE DEF step
  <2> QED
    BY <1>2, <2>2 DEF Loop
<1>4. after = F(after)
  BY <1>3
<1>5. TemplatesOf(g) = after
  BY DEF TemplatesOf
<1> HIDE DEF after
<1>6. /\ after[0] = g /\ after = [n \in Nat |-> after[n]]
      /\ \A n \in Nat : after[n + 1] = RowsOf(after[n], n)[Times(ScanRows(n))]
  BY <1>4
<1>7. \A n \in Nat : after[n] \in G => after[n + 1] \in G
  BY <1>1, <1>6
<1>8. after \in [Nat -> G]
  BY <1>6, <1>7, LoopType
<1> QED
  BY <1>5, <1>6, <1>8

(* A pass stays in G. *)
LEMMA PassKeeps ==
    ASSUME NEW G, Keeps(G), NEW g \in G
    PROVE  Pass(g) \in G
  BY TemplatesLoop DEF Pass

(* A firing scores a number of points wherever it is: a template has three *)
(* or four cells.                                                          *)
LEMMA SpanPoints ==
    ASSUME NEW s, NEW u, NEW r, NEW c
    PROVE  Points(s, Span(u, r, c)) \in Nat
<1> DEFINE A(k) == Along(u, r, c, k)
           S == {A(0)} \cup {A(1)} \cup {A(2)} \cup {A(3)}
           P == {x \in Span(u, r, c) : s[x] > 0}
<1>1. Span(u, r, c) \subseteq S
  <2>1. \A k \in 0..Extent(u) : k \in {0, 1, 2, 3}
    BY DEF Extent
  <2>2. \A k \in {0, 1, 2, 3} : A(k) \in S
    OBVIOUS
  <2> QED
    BY <2>1, <2>2 DEF Span
<1>2. IsFiniteSet(S)
  <2> HIDE DEF A
  <2> QED
    BY FS_Singleton, FS_Union
<1>3. P \in SUBSET S
  BY <1>1
<1> HIDE DEF S
<1>4. Cardinality(P) \in Nat
  <2> HIDE DEF P
  <2> QED
    BY <1>2, <1>3, FS_Subset, FS_CardinalityType
<1> QED
  BY <1>4 DEF Points

(* What MatchTemplate leaves is a board again. *)
Changed(g, f, s, n) == [g EXCEPT !.candies = f, !.squares = s, !.score = n]

LEMMA TriedType ==
    ASSUME NEW g, g.candies \in [Cell -> Candy], g.squares \in [Cell -> Nat],
           g.score \in Int, NEW u, NEW r, NEW c
    PROVE  \/ Tried(g, u, r, c) = g
           \/ \E f \in [Cell -> Candy], s \in [Cell -> Nat], n \in Int :
                 Tried(g, u, r, c) = Changed(g, f, s, n)
<1> DEFINE S == Span(u, r, c)
<1>1. Erased(g.candies, S) \in [Cell -> Candy]
  BY DEF Erased, Candy
<1>2. Worn(g.squares, S) \in [Cell -> Nat]
  BY DEF Worn
<1>3. g.score + Points(g.squares, S) \in Int
  BY SpanPoints
<1>4. Tried(g, u, r, c) = g
      \/ Tried(g, u, r, c) = Changed(g, Erased(g.candies, S), Worn(g.squares, S),
                                     g.score + Points(g.squares, S))
  BY DEF Tried, Changed
<1> QED
  BY <1>1, <1>2, <1>3, <1>4

-----------------------------------------------------------------------------
(* The candies of a column that survive.                                   *)

(* The rows of a column that hold a candy, and those among them below r.   *)
LEMMA SurvivorsType ==
    ASSUME NEW f, NEW c
    PROVE  /\ Survivors(f, c) \subseteq RowIds /\ IsFiniteSet(Survivors(f, c))
           /\ Cardinality(Survivors(f, c)) \in 0..Rows
           /\ \A r \in Int :
                 /\ {s \in Survivors(f, c) : s < r} \in SUBSET Survivors(f, c)
                 /\ IsFiniteSet({s \in Survivors(f, c) : s < r})
                 /\ Rank(f, c, r) \in 0..Cardinality(Survivors(f, c))
<1>1. IsFiniteSet(RowIds) /\ Cardinality(RowIds) = Rows
  BY BoardAssumption, FS_Interval DEF RowIds
<1>2. Survivors(f, c) \in SUBSET RowIds
  BY DEF Survivors
<1>3. /\ IsFiniteSet(Survivors(f, c)) /\ Cardinality(Survivors(f, c)) <= Rows
      /\ Cardinality(Survivors(f, c)) \in Nat
  BY <1>1, <1>2, FS_Subset, FS_CardinalityType
<1>4. ASSUME NEW r \in Int
      PROVE  /\ {s \in Survivors(f, c) : s < r} \in SUBSET Survivors(f, c)
             /\ IsFiniteSet({s \in Survivors(f, c) : s < r})
             /\ Rank(f, c, r) \in 0..Cardinality(Survivors(f, c))
  <2> DEFINE below == {s \in Survivors(f, c) : s < r}
  <2>1. below \in SUBSET Survivors(f, c)
    OBVIOUS
  <2>2. IsFiniteSet(below) /\ Cardinality(below) <= Cardinality(Survivors(f, c))
        /\ Cardinality(below) \in Nat
    <3> HIDE DEF below
    <3> QED
      BY <1>3, <2>1, FS_Subset, FS_CardinalityType
  <2> QED
    BY <1>3, <2>1, <2>2 DEF Rank
<1> QED
  BY <1>2, <1>3, <1>4, BoardAssumption

LEMMA SurvivorRow ==
    ASSUME NEW f, NEW c, NEW r \in Survivors(f, c)
    PROVE  r \in Nat /\ r < Rows /\ r \in Int /\ Rank(f, c, r) \in Nat
<1>1. r \in Int /\ r \in Nat /\ r < Rows
  BY BoardAssumption DEF Survivors, RowIds
<1>2. Rank(f, c, r) \in 0..Cardinality(Survivors(f, c))
  BY <1>1, SurvivorsType
<1> QED
  BY <1>1, <1>2

(* Counting the survivors from the bottom up. *)
LEMMA RankSteps ==
    ASSUME NEW f, NEW c
    PROVE  /\ Rank(f, c, 0) = 0
           /\ \A r \in Nat : Rank(f, c, r + 1) = IF r \in Survivors(f, c)
                                                 THEN Rank(f, c, r) + 1
                                                 ELSE Rank(f, c, r)
           /\ Rank(f, c, Rows) = Cardinality(Survivors(f, c))
<1> DEFINE S == Survivors(f, c)
           below(r) == {s \in S : s < r}
<1>0. \A s \in S : s \in Nat /\ s < Rows
  BY SurvivorRow
<1>1. Rank(f, c, 0) = 0
  <2>1. below(0) = {}
    BY <1>0
  <2> QED
    BY <2>1, FS_EmptySet DEF Rank
<1>2. ASSUME NEW r \in Nat
      PROVE  Rank(f, c, r + 1) = IF r \in S THEN Rank(f, c, r) + 1
                                 ELSE Rank(f, c, r)
  <2>1. IsFiniteSet(below(r)) /\ r \notin below(r)
    BY SurvivorsType
  <2>2. CASE r \in S
    <3>1. below(r + 1) = below(r) \cup {r}
      <4>1. \A s \in S : s < r + 1 <=> s < r \/ s = r
        BY <1>0
      <4> HIDE DEF S
      <4> QED
        BY <2>2, <4>1
    <3>2. Cardinality(below(r) \cup {r}) = Cardinality(below(r)) + 1
      <4> HIDE DEF below
      <4> QED
        BY <2>1, FS_AddElement
    <3> QED
      BY <2>2, <3>1, <3>2 DEF Rank
  <2>3. CASE r \notin S
    <3>1. below(r + 1) = below(r)
      BY <1>0, <2>3
    <3> QED
      BY <2>3, <3>1 DEF Rank
  <2> QED
    BY <2>2, <2>3
<1>3. Rank(f, c, Rows) = Cardinality(S)
  <2>1. below(Rows) = S
    BY <1>0
  <2> QED
    BY <2>1 DEF Rank
<1> QED
  BY <1>1, <1>2, <1>3

(* A survivor has more survivors below it than one further down.           *)
LEMMA RankGrows ==
    ASSUME NEW f, NEW c, NEW r \in Survivors(f, c), NEW s \in Int, r < s
    PROVE  Rank(f, c, r) < Rank(f, c, s)
<1> DEFINE S == Survivors(f, c)
           low == {x \in S : x < r}
           high == {x \in S : x < s}
<1>0. r \in Int /\ \A x \in S : x \in Int
  BY SurvivorRow
<1>1. /\ IsFiniteSet(low) /\ IsFiniteSet(high) /\ r \notin low
      /\ low \cup {r} \in SUBSET high
  <2>1. IsFiniteSet(low) /\ IsFiniteSet(high)
    BY <1>0, SurvivorsType
  <2>2. \A x \in S : x < r => x < s
    BY <1>0
  <2>3. r \notin low
    BY <1>0
  <2> HIDE DEF S
  <2>4. low \cup {r} \in SUBSET high
    BY <2>2 DEF S
  <2> QED
    BY <2>1, <2>3, <2>4
<1>2. Cardinality(low) = Rank(f, c, r) /\ Cardinality(high) = Rank(f, c, s)
  BY DEF Rank
<1>3. Cardinality(low) \in Nat /\ Cardinality(high) \in Nat
  BY <1>1, FS_CardinalityType
<1> HIDE DEF low, high
<1>4. Cardinality(low \cup {r}) = Cardinality(low) + 1
  BY <1>1, FS_AddElement
<1>5. Cardinality(low \cup {r}) <= Cardinality(high)
  BY <1>1, FS_Subset
<1> QED
  BY <1>2, <1>3, <1>4, <1>5

(* Of each rank there is one survivor, and Survivor is its candy.          *)
LEMMA RankOnto ==
    ASSUME NEW f, NEW c, NEW i \in Nat, i < Cardinality(Survivors(f, c))
    PROVE  \E r \in Survivors(f, c) : Rank(f, c, r) = i
<1> DEFINE S == Survivors(f, c)
           n == Cardinality(S)
           T == 0..(n - 1)
           rank == [r \in S |-> Rank(f, c, r)]
<1>0. n \in Nat /\ IsFiniteSet(S)
  BY SurvivorsType, FS_CardinalityType
<1>1. ASSUME NEW r \in S PROVE Rank(f, c, r) \in T
  <2>1. r < Rows /\ Rows \in Int /\ Rank(f, c, r) \in Nat
    BY SurvivorRow, BoardAssumption
  <2>2. Rank(f, c, r) < Rank(f, c, Rows)
    BY <2>1, RankGrows
  <2>3. Rank(f, c, r) < n
    BY <2>2, RankSteps
  <2> HIDE DEF n
  <2> QED
    BY <1>0, <2>1, <2>3
<1>2. ASSUME NEW r \in S, NEW s \in S, Rank(f, c, r) = Rank(f, c, s)
      PROVE  r = s
  <2>1. r \in Int /\ s \in Int /\ Rank(f, c, r) \in Nat
    BY SurvivorRow
  <2>2. ~ (r < s) /\ ~ (s < r)
    <3>1. ASSUME r < s PROVE FALSE
      <4>1. Rank(f, c, r) < Rank(f, c, s)
        BY <2>1, <3>1, RankGrows
      <4> QED
        BY <1>2, <2>1, <4>1
    <3>2. ASSUME s < r PROVE FALSE
      <4>1. Rank(f, c, s) < Rank(f, c, r)
        BY <2>1, <3>2, RankGrows
      <4> QED
        BY <1>2, <2>1, <4>1
    <3> QED
      BY <3>1, <3>2
  <2> QED
    BY <2>1, <2>2
<1>3. rank \in Injection(S, T)
  <2> HIDE DEF S, T
  <2> QED
    BY <1>1, <1>2 DEF Injection, IsInjective
<1>4. IsFiniteSet(T) /\ Cardinality(T) = n
  <2> HIDE DEF n
  <2>1. 0 \in Int /\ n - 1 \in Int
    BY <1>0
  <2> QED
    BY <1>0, <2>1, FS_Interval
<1>5. rank \in Surjection(S, T)
  <2> HIDE DEF rank, T
  <2> QED
    BY <1>3, <1>4, FS_Injection
<1>6. i \in T
  BY <1>0
<1> QED
  BY <1>5, <1>6 DEF Surjection

(* The survivor that has i below it holds the i-th candy.                  *)
LEMMA SurvivorIs ==
    ASSUME NEW f, NEW c, NEW r \in Survivors(f, c)
    PROVE  Survivor(f, c, Rank(f, c, r)) = f[<<r, c>>]
<1> DEFINE i == Rank(f, c, r)
           s == CHOOSE x \in Survivors(f, c) : Rank(f, c, x) = i
<1>1. s \in Survivors(f, c) /\ Rank(f, c, s) = i
  OBVIOUS
<1>2. r \in Int /\ s \in Int /\ i \in Nat
  BY <1>1, SurvivorRow
<1> HIDE DEF s
<1>3. ~ (r < s) /\ ~ (s < r)
  <2>1. ASSUME r < s PROVE FALSE
    <3>1. i < Rank(f, c, s)
      BY <1>2, <2>1, RankGrows
    <3> QED
      BY <1>1, <1>2, <3>1
  <2>2. ASSUME s < r PROVE FALSE
    <3>1. Rank(f, c, s) < i
      BY <1>1, <1>2, <2>2, RankGrows
    <3> QED
      BY <1>1, <1>2, <3>1
  <2> QED
    BY <2>1, <2>2
<1>4. r = s
  BY <1>2, <1>3
<1> QED
  BY <1>4 DEF s, Survivor

(* Every survivor is a candy of the column. *)
LEMMA SurvivorType ==
    ASSUME NEW f \in [Cell -> Candy], NEW c \in ColIds, NEW i \in Nat,
           i < Cardinality(Survivors(f, c))
    PROVE  Survivor(f, c, i) \in Candy /\ Survivor(f, c, i) # Hole
<1>1. PICK r \in Survivors(f, c) : Rank(f, c, r) = i
  BY RankOnto
<1>2. Survivor(f, c, i) = f[<<r, c>>]
  BY <1>1, SurvivorIs
<1>3. <<r, c>> \in Cell /\ f[<<r, c>>] # Hole
  BY DEF Survivors, Cell
<1> QED
  BY <1>2, <1>3
==============================================================================
