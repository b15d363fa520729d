---------------------------- MODULE LeastElement ----------------------------
(***************************************************************************)
(* Induction without an operator parameter: a property of every natural    *)
(* number is proved by taking the least number that does not have it.      *)
(***************************************************************************)
EXTENDS Integers, WellFoundedInduction, TLAPS

\* A set of natural numbers that is not empty has a least element.
LEMMA LeastElementOf ==
    ASSUME NEW T, T \subseteq Nat, T # {}
    PROVE  \E x \in T : \A y \in T : x <= y
<1> DEFINE R == OpToRel(<, Nat)
<1>1. IsWellFoundedOn(R, Nat)
  BY NatLessThanWellFounded, Zenon
<1>2. \A x, y \in Nat : <<y, x>> \in R <=> y < x
  BY SMT DEF OpToRel
<1> HIDE DEF R
<1>3. PICK x \in T : \A y \in T : ~ (<<y, x>> \in R)
  BY <1>1, WFMin
<1>4. ASSUME NEW y \in T PROVE x <= y
  <2>1. x \in Nat /\ y \in Nat
    OBVIOUS
  <2>2. ~(y < x)
    BY <1>2, <1>3, <2>1
  <2> QED
    BY <2>1, <2>2
<1> QED
  BY <1>4

\* f is the recursion over 0 .. n that starts with base, in V.
Recursion(f, V, n, base, step) ==
    /\ f \in [0 .. n -> V] /\ f[0] = base
    /\ \A i \in 1 .. n : f[i] = step[i][f[i - 1]]

\* A recursion over 0 .. n whose step stays in a set has a solution in that set ...
LEMMA RecursionExists ==
  ASSUME NEW V, NEW n \in Nat, NEW base \in V, NEW step \in [1 .. n -> [V -> V]]
  PROVE  \E f : Recursion(f, V, n, base, step)
<1> DEFINE Solves(f, m) == Recursion(f, V, m, base, step)
           T == {m \in 0 .. n : ~\E f : Solves(f, m)}
<1>1. SUFFICES ASSUME T # {} PROVE FALSE
  <2>1. n \in 0 .. n
    OBVIOUS
  <2> QED
    BY <2>1
<1>2. T \subseteq Nat
  OBVIOUS
<1>3. PICK m \in T : \A y \in T : m <= y
  BY <1>1, <1>2, LeastElementOf
<1>4. m # 0
  <2>1. Solves([i \in 0 .. 0 |-> base], 0)
    BY DEF Recursion
  <2> QED
    BY <2>1
<1>5. m - 1 \in 0 .. n /\ m - 1 \notin T
  <2>1. m \in 0 .. n
    OBVIOUS
  <2>2. m - 1 \in 0 .. n /\ ~(m <= m - 1)
    BY <2>1, <1>4
  <2> QED
    BY <2>2, <1>3
<1>6. PICK h : Solves(h, m - 1)
  BY <1>5
<1> DEFINE g == [i \in 0 .. m |-> IF i = m THEN step[m][h[m - 1]] ELSE h[i]]
<1>7. h[m - 1] \in V /\ m \in 1 .. n
  BY <1>4, <1>5, <1>6 DEF Recursion
<1>8. step[m][h[m - 1]] \in V
  BY <1>7
<1>9. g \in [0 .. m -> V]
  BY <1>4, <1>6, <1>8 DEF Recursion
<1>10. g[0] = base
  BY <1>4, <1>5, <1>6 DEF Recursion
<1>11. ASSUME NEW i \in 1 .. m PROVE g[i] = step[i][g[i - 1]]
  <2>1. CASE i = m
    BY <2>1, <1>4, <1>5
  <2>2. CASE i # m
    <3>1. i \in 1 .. m - 1 /\ i - 1 \in 0 .. m - 1
      BY <2>2, <1>4, <1>5
    <3> QED
      BY <3>1, <1>6 DEF Recursion
  <2> QED
    BY <2>1, <2>2
<1>12. Recursion(g, V, m, base, step)
  <2> HIDE DEF g
  <2> QED
    BY <1>9, <1>10, <1>11 DEF Recursion
<1> QED
  BY <1>12

\* ... and every solution of it is in that set.
LEMMA RecursionType ==
  ASSUME NEW V, NEW n \in Nat, NEW u, u[0] \in V,
         \A i \in 1 .. n : u[i - 1] \in V => u[i] \in V
  PROVE  \A i \in 0 .. n : u[i] \in V
<1> DEFINE T == {i \in 0 .. n : u[i] \notin V}
<1>1. SUFFICES ASSUME T # {} PROVE FALSE
  OBVIOUS
<1>2. T \subseteq Nat
  OBVIOUS
<1>3. PICK i \in T : \A y \in T : i <= y
  BY <1>1, <1>2, LeastElementOf
<1>4. i # 0
  OBVIOUS
<1>5. i - 1 \in 0 .. n /\ i - 1 \notin T /\ i \in 1 .. n
  BY <1>3, <1>4
<1> QED
  BY <1>5
=============================================================================
