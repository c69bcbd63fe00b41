--------------------------- MODULE HistogramProofs ---------------------------
(***************************************************************************)
(* For every pair of parameters of the histogram: THistogram and the       *)
(* consolidation lay the buckets out alike, and a histogram that holds a   *)
(* bag of values, however it was recorded, added up and merged, passes     *)
(* Validate and reports the percentiles of those values.                   *)
(*                                                                         *)
(* The provers cannot instantiate the induction theorems of the library,   *)
(* whose parameter is an operator.  Induction is done here over sets: the  *)
(* set of the numbers that satisfy a formula holds every number, because   *)
(* the set of the others has no least element.                             *)
(***************************************************************************)
EXTENDS RawHistogram, Functions, FiniteSetTheorems, TLAPS

-----------------------------------------------------------------------------
(* Induction and recursion.                                                *)

\* A set of natural numbers has a least element.
LEMMA NatMin ==
  ASSUME NEW T \in SUBSET Nat, T # {}
  PROVE  \E m \in T : \A k \in T : m <= k
  <1>1. PICK x \in T : \A y \in T : ~ (<<y, x>> \in OpToRel(<, Nat))
    BY NatLessThanWellFounded, WFMin
  <1>2. \A y \in T : ~(y < x)
    BY <1>1 DEF OpToRel
  <1> QED BY <1>2

\* Induction over the natural numbers, for the elements of a set.
LEMMA SetInduction ==
  ASSUME NEW T, 0 \in T, \A n \in Nat : n \in T => n + 1 \in T
  PROVE  Nat \subseteq T
  <1> DEFINE C == Nat \ T
  <1> SUFFICES ASSUME C # {} PROVE FALSE
    OBVIOUS
  <1>1. PICK m \in C : \A k \in C : m <= k
    BY NatMin
  <1>2. m # 0 /\ m \in Nat
    OBVIOUS
  <1>3. m - 1 \in Nat /\ m - 1 \notin C
    BY <1>1, <1>2
  <1> QED BY <1>3

\* g starts with v0 and goes on, from n to n + 1, by F[n].
Iterates(g, V, v0, F) ==
    g \in [Nat -> V] /\ g[0] = v0 /\ \A n \in Nat : g[n + 1] = F[n][g[n]]
IteratesTo(g, V, v0, F, m) ==
    /\ g \in [0..m -> V] /\ g[0] = v0
    /\ \A n \in 0..m : n # 0 => g[n] = F[n - 1][g[n - 1]]

\* A step function can be iterated.
LEMMA Iteration ==
  ASSUME NEW V, NEW v0 \in V, NEW F \in [Nat -> [V -> V]]
  PROVE  \E g : Iterates(g, V, v0, F)
  <1> DEFINE Good(n, g) == g[0] = v0 /\ \A k \in 0..(n - 1) : g[k + 1] = F[k][g[k]]
             T == {n \in Nat : \E g \in [0..n -> V] : Good(n, g)}
  <1>1. 0 \in T
    <2> DEFINE g == [k \in 0..0 |-> v0]
    <2> g \in [0..0 -> V] /\ Good(0, g)
      OBVIOUS
    <2> QED OBVIOUS
  <1>2. ASSUME NEW n \in Nat, n \in T PROVE n + 1 \in T
    <2>1. PICK g \in [0..n -> V] : Good(n, g)
      BY <1>2
    <2> DEFINE h == [k \in 0..(n + 1) |-> IF k = n + 1 THEN F[n][g[n]] ELSE g[k]]
    <2>2. h \in [0..(n + 1) -> V]
      OBVIOUS
    <2>3. Good(n + 1, h)
      BY <2>1
    <2>4. \E f \in [0..(n + 1) -> V] : Good(n + 1, f)
      <3> HIDE DEF h, Good
      <3> QED BY <2>2, <2>3
    <2> QED BY <2>4
  <1>3. Nat \subseteq T
    <2> HIDE DEF T
    <2> QED BY <1>1, <1>2, SetInduction
  <1>4. ASSUME NEW n \in Nat, NEW m \in Nat, NEW g \in [0..n -> V], NEW h \in [0..m -> V],
               Good(n, g), Good(m, h)
        PROVE  \A k \in Nat : k <= n /\ k <= m => g[k] = h[k]
    <2> DEFINE U == {k \in Nat : k <= n /\ k <= m => g[k] = h[k]}
    <2>1. 0 \in U
      BY <1>4
    <2>2. ASSUME NEW k \in Nat, k \in U PROVE k + 1 \in U
      BY <2>2, <1>4
    <2>3. Nat \subseteq U
      <3> HIDE DEF U
      <3> QED BY <2>1, <2>2, SetInduction
    <2> QED BY <2>3
  <1> DEFINE G(n) == CHOOSE g \in [0..n -> V] : Good(n, g)
             limit == [n \in Nat |-> G(n)[n]]
  <1>5. \A n \in Nat : G(n) \in [0..n -> V] /\ Good(n, G(n))
    BY <1>3
  <1>6. limit \in [Nat -> V]
    <2> HIDE DEF G, Good
    <2>1. \A n \in Nat : G(n)[n] \in V
      BY <1>5
    <2> QED BY <2>1
  <1>7. limit[0] = v0
    BY <1>5
  <1>8. ASSUME NEW n \in Nat PROVE limit[n + 1] = F[n][limit[n]]
    <2> HIDE DEF G
    <2>1. G(n + 1)[n + 1] = F[n][G(n + 1)[n]]
      BY <1>5
    <2>2. G(n + 1)[n] = G(n)[n]
      <3> HIDE DEF Good
      <3>1. /\ G(n) \in [0..n -> V] /\ Good(n, G(n))
            /\ G(n + 1) \in [0..(n + 1) -> V] /\ Good(n + 1, G(n + 1))
        BY <1>5
      <3>2. n + 1 \in Nat
        OBVIOUS
      <3>3. \A k \in Nat : k <= n + 1 /\ k <= n => G(n + 1)[k] = G(n)[k]
        BY <1>4, <3>1, <3>2, Zenon
      <3> QED BY <3>3
    <2> QED BY <2>1, <2>2
  <1>9. Iterates(limit, V, v0, F)
    <2> HIDE DEF limit
    <2> QED BY <1>6, <1>7, <1>8 DEF Iterates
  <1> QED BY <1>9

\* A function defined by recursion over 0..m exists.
LEMMA Recursion ==
  ASSUME NEW V, NEW v0 \in V, NEW F \in [Nat -> [V -> V]], NEW m \in Nat
  PROVE  \E g : IteratesTo(g, V, v0, F, m)
  <1>1. PICK g : Iterates(g, V, v0, F)
    BY Iteration
  <1>2. g \in [Nat -> V] /\ g[0] = v0 /\ \A n \in Nat : g[n + 1] = F[n][g[n]]
    BY <1>1 DEF Iterates
  <1> DEFINE f == [n \in 0..m |-> g[n]]
  <1>3. f \in [0..m -> V] /\ f[0] = v0
    BY <1>2
  <1>4. ASSUME NEW n \in 0..m, n # 0 PROVE f[n] = F[n - 1][f[n - 1]]
    <2>1. n - 1 \in Nat /\ n - 1 \in 0..m /\ (n - 1) + 1 = n
      BY <1>4
    <2>2. g[n] = F[n - 1][g[n - 1]]
      BY <1>2, <2>1
    <2> QED BY <2>1, <2>2
  <1>5. IteratesTo(f, V, v0, F, m)
    <2> HIDE DEF f
    <2> QED BY <1>3, <1>4 DEF IteratesTo
  <1> QED BY <1>5

\* Induction over the subsets of a finite set.
LEMMA FiniteInduction ==
  ASSUME NEW S, IsFiniteSet(S), NEW P, {} \in P,
         \A T \in SUBSET S : \A x \in S : T \in P /\ x \notin T => T \cup {x} \in P
  PROVE  \A T \in SUBSET S : T \in P
  <1> DEFINE N == {n \in Nat : \A T \in SUBSET S : Cardinality(T) = n => T \in P}
  <1>1. \A T \in SUBSET S : IsFiniteSet(T) /\ Cardinality(T) \in Nat
    BY FS_Subset, FS_CardinalityType
  <1>2. 0 \in N
    BY <1>1, FS_EmptySet
  <1>3. ASSUME NEW n \in Nat, n \in N PROVE n + 1 \in N
    <2> SUFFICES ASSUME NEW T \in SUBSET S, Cardinality(T) = n + 1 PROVE T \in P
      OBVIOUS
    <2>1. T # {}
      <3>1. Cardinality({}) = 0
        BY FS_EmptySet
      <3>2. n + 1 # 0
        OBVIOUS
      <3> QED BY <3>1, <3>2, Zenon
    <2>2. PICK x \in T : TRUE
      BY <2>1
    <2>3. Cardinality(T \ {x}) = n
      <3>1. IsFiniteSet(T)
        BY <1>1
      <3>2. Cardinality(T \ {x}) = Cardinality(T) - 1
        BY <2>2, <3>1, FS_RemoveElement
      <3> QED BY <3>2
    <2>4. T \ {x} \in SUBSET S /\ T \ {x} \in P /\ x \notin T \ {x} /\ x \in S
      BY <1>3, <2>2, <2>3
    <2>5. (T \ {x}) \cup {x} \in P
      BY <2>4
    <2>6. (T \ {x}) \cup {x} = T
      BY <2>2
    <2> QED BY <2>5, <2>6
  <1>4. Nat \subseteq N
    <2> HIDE DEF N
    <2> QED BY <1>2, <1>3, SetInduction
  <1> QED BY <1>1, <1>4

-----------------------------------------------------------------------------
(* Sums.                                                                   *)

Choice(s) == CHOOSE x \in s : TRUE
SumStep(f, g, s) == IF s = {} THEN 0 ELSE f[Choice(s)] + g[s \ {Choice(s)}]
Sums(g, f, S) == g = [s \in SUBSET S |-> SumStep(f, g, s)]

\* The sum of the library, in these words.
LEMMA SumUnfolded ==
  ASSUME NEW f, NEW S
  PROVE  SumFunctionOnSet(f, S) = (CHOOSE g : Sums(g, f, S))[S]
  BY DEF SumFunctionOnSet, FoldFunctionOnSet, MapThenFoldSet, Sums, SumStep, Choice

\* An element of a set that has one.
LEMMA ChoiceIn ==
  ASSUME NEW s, s # {}
  PROVE  Choice(s) \in s
  BY DEF Choice

\* The table of the sums over the subsets of a finite set exists.
LEMMA SumsExist ==
  ASSUME NEW S, IsFiniteSet(S), NEW f, \A x \in S : f[x] \in Nat
  PROVE  \E g : Sums(g, f, S) /\ g \in [SUBSET S -> Nat]
  <1> DEFINE V == [SUBSET S -> Nat]
             F == [n \in Nat |-> [g \in V |-> [s \in SUBSET S |-> SumStep(f, g, s)]]]
             v0 == [s \in SUBSET S |-> 0]
             m == Cardinality(S)
  <1>1. m \in Nat /\ \A s \in SUBSET S : IsFiniteSet(s) /\ Cardinality(s) \in 0..m
    BY FS_CardinalityType, FS_Subset
  <1>2. ASSUME NEW g \in V, NEW s \in SUBSET S PROVE SumStep(f, g, s) \in Nat
    <2>1. CASE s = {}
      BY <2>1 DEF SumStep
    <2>2. CASE s # {}
      <3>1. Choice(s) \in s /\ s \ {Choice(s)} \in SUBSET S
        BY <2>2, ChoiceIn
      <3>2. f[Choice(s)] \in Nat /\ g[s \ {Choice(s)}] \in Nat
        BY <3>1
      <3> QED BY <3>2 DEF SumStep
    <2> QED BY <2>1, <2>2
  <1>3. v0 \in V /\ F \in [Nat -> [V -> V]]
    <2>1. \A g \in V : [s \in SUBSET S |-> SumStep(f, g, s)] \in V
      BY <1>2
    <2> QED BY <2>1
  <1>4. PICK g : Iterates(g, V, v0, F)
    <2> HIDE DEF V, F, v0
    <2> QED BY <1>3, Iteration
  <1>5. /\ \A n \in Nat : g[n] \in V
        /\ \A n \in Nat : g[n + 1] = [s \in SUBSET S |-> SumStep(f, g[n], s)]
    <2> HIDE DEF V
    <2>1. g \in [Nat -> V] /\ \A n \in Nat : g[n + 1] = F[n][g[n]]
      BY <1>4 DEF Iterates
    <2> QED BY <2>1
  \* Set by set the iteration comes to a rest.
  <1> DEFINE R == {n \in Nat : \A s \in SUBSET S : Cardinality(s) <= n =>
                                  g[n + 1][s] = g[n + 2][s]}
  <1> HIDE DEF V, F, v0
  <1>6. 0 \in R
    <2> SUFFICES ASSUME NEW s \in SUBSET S, Cardinality(s) <= 0 PROVE g[1][s] = g[2][s]
      BY DEF R
    <2>1. Cardinality(s) = 0
      BY <1>1
    <2>2. s = {}
      BY <1>1, <2>1, FS_EmptySet
    <2>3. g[0 + 1][s] = SumStep(f, g[0], s) /\ g[1 + 1][s] = SumStep(f, g[1], s)
      BY <1>5
    <2> QED BY <2>2, <2>3 DEF SumStep
  <1>7. ASSUME NEW n \in Nat, n \in R PROVE n + 1 \in R
    <2> SUFFICES ASSUME NEW s \in SUBSET S, Cardinality(s) <= n + 1
                 PROVE  g[(n + 1) + 1][s] = g[(n + 1) + 2][s]
      BY DEF R
    <2>0. n + 1 \in Nat /\ n + 2 \in Nat
      OBVIOUS
    <2>1. g[(n + 1) + 1][s] = SumStep(f, g[n + 1], s) /\ g[(n + 2) + 1][s] = SumStep(f, g[n + 2], s)
      <3>1. /\ g[(n + 1) + 1] = [r \in SUBSET S |-> SumStep(f, g[n + 1], r)]
            /\ g[(n + 2) + 1] = [r \in SUBSET S |-> SumStep(f, g[n + 2], r)]
        BY <1>5, <2>0, Zenon
      <3> QED BY <3>1
    <2>2. (n + 1) + 2 = (n + 2) + 1
      OBVIOUS
    <2>3. CASE s = {}
      BY <2>1, <2>2, <2>3 DEF SumStep
    <2>4. CASE s # {}
      <3> DEFINE r == s \ {Choice(s)}
      <3>1. Choice(s) \in s /\ r \in SUBSET S
        BY <2>4, ChoiceIn
      <3>2. Cardinality(r) = Cardinality(s) - 1
        BY <1>1, <3>1, FS_RemoveElement
      <3>3. Cardinality(r) <= n
        BY <1>1, <3>2
      <3>4. g[n + 1][r] = g[n + 2][r]
        BY <1>7, <3>1, <3>3 DEF R
      <3> QED BY <2>1, <2>2, <3>4 DEF SumStep
    <2> QED BY <2>3, <2>4
  <1>8. Nat \subseteq R
    <2> HIDE DEF R
    <2> QED BY <1>6, <1>7, SetInduction
  <1>9. m \in R
    BY <1>1, <1>8
  <1> DEFINE h == g[m + 1]
  <1>10. h \in V
    BY <1>1, <1>5
  <1>11. g[m + 2] = [s \in SUBSET S |-> SumStep(f, h, s)]
    <2>1. (m + 1) + 1 = m + 2 /\ m + 1 \in Nat
      BY <1>1
    <2> QED BY <1>5, <2>1
  <1>12. \A s \in SUBSET S : h[s] = SumStep(f, h, s)
    <2> SUFFICES ASSUME NEW s \in SUBSET S PROVE h[s] = SumStep(f, h, s)
      OBVIOUS
    <2>1. Cardinality(s) <= m
      BY <1>1
    <2>2. g[m + 1][s] = g[m + 2][s]
      BY <1>9, <2>1 DEF R
    <2> QED BY <1>11, <2>2
  <1> HIDE DEF h
  <1>13. h = [s \in SUBSET S |-> SumStep(f, h, s)]
    BY <1>10, <1>12 DEF V
  <1>14. Sums(h, f, S) /\ h \in [SUBSET S -> Nat]
    BY <1>10, <1>13 DEF V, Sums
  <1> QED BY <1>14

\* Two tables of sums agree where both are defined.
LEMMA SumsAgree ==
  ASSUME NEW S, IsFiniteSet(S), NEW T \in SUBSET S, NEW f,
         NEW g, NEW h, Sums(g, f, S), Sums(h, f, T)
  PROVE  \A s \in SUBSET T : g[s] = h[s]
  <1> DEFINE P == {n \in Nat : \A s \in SUBSET T : Cardinality(s) = n => g[s] = h[s]}
  <1>1. \A s \in SUBSET T : IsFiniteSet(s) /\ Cardinality(s) \in Nat /\ s \in SUBSET S
    BY FS_CardinalityType, FS_Subset
  <1>2. \A s \in SUBSET T : g[s] = SumStep(f, g, s) /\ h[s] = SumStep(f, h, s)
    BY DEF Sums
  <1>3. 0 \in P
    <2> SUFFICES ASSUME NEW s \in SUBSET T, Cardinality(s) = 0 PROVE g[s] = h[s]
      OBVIOUS
    <2>1. s = {}
      BY <1>1, FS_EmptySet
    <2> QED BY <1>2, <2>1 DEF SumStep
  <1>4. ASSUME NEW n \in Nat, n \in P PROVE n + 1 \in P
    <2> SUFFICES ASSUME NEW s \in SUBSET T, Cardinality(s) = n + 1 PROVE g[s] = h[s]
      OBVIOUS
    <2>1. CASE s = {}
      BY <1>2, <2>1 DEF SumStep
    <2>2. CASE s # {}
      <3> DEFINE r == s \ {Choice(s)}
      <3>1. Choice(s) \in s /\ r \in SUBSET T
        BY <2>2, ChoiceIn
      <3>2. Cardinality(r) = Cardinality(s) - 1
        BY <1>1, <3>1, FS_RemoveElement
      <3>3. Cardinality(r) = n
        BY <3>2
      <3>4. g[r] = h[r]
        BY <1>4, <3>1, <3>3
      <3> QED BY <1>2, <2>2, <3>4 DEF SumStep
    <2> QED BY <2>1, <2>2
  <1>5. Nat \subseteq P
    <2> HIDE DEF P
    <2> QED BY <1>3, <1>4, SetInduction
  <1> QED BY <1>1, <1>5

\* A sum of natural numbers is one, and drops the element that comes first.
LEMMA SumFirst ==
  ASSUME NEW S, IsFiniteSet(S), NEW f, \A x \in S : f[x] \in Nat
  PROVE  /\ SumFunctionOnSet(f, S) \in Nat
         /\ S = {} => SumFunctionOnSet(f, S) = 0
         /\ S # {} => /\ Choice(S) \in S
                      /\ SumFunctionOnSet(f, S)
                            = f[Choice(S)] + SumFunctionOnSet(f, S \ {Choice(S)})
  <1>1. PICK g : Sums(g, f, S) /\ g \in [SUBSET S -> Nat]
    BY SumsExist
  <1>2. ASSUME NEW T \in SUBSET S PROVE SumFunctionOnSet(f, T) = g[T]
    <2>1. IsFiniteSet(T) /\ \A x \in T : f[x] \in Nat
      BY FS_Subset
    <2>2. \E h : Sums(h, f, T)
      BY <2>1, SumsExist
    <2> DEFINE h == CHOOSE h : Sums(h, f, T)
    <2>3. Sums(h, f, T)
      <3> QED BY <2>2
    <2>4. SumFunctionOnSet(f, T) = h[T]
      BY SumUnfolded
    <2> HIDE DEF h
    <2>5. \A s \in SUBSET T : g[s] = h[s]
      BY <1>1, <2>3, SumsAgree
    <2> QED BY <2>4, <2>5
  <1>3. SumFunctionOnSet(f, S) = g[S] /\ g[S] \in Nat /\ g[S] = SumStep(f, g, S)
    BY <1>1, <1>2 DEF Sums
  <1>4. CASE S = {}
    BY <1>3, <1>4 DEF SumStep
  <1>5. CASE S # {}
    <2>1. Choice(S) \in S
      BY <1>5, ChoiceIn
    <2>2. SumFunctionOnSet(f, S \ {Choice(S)}) = g[S \ {Choice(S)}]
      BY <1>2
    <2> QED BY <1>3, <1>5, <2>1, <2>2 DEF SumStep
  <1> QED BY <1>4, <1>5

\* A sum drops whatever element is taken out.
LEMMA SumRemove ==
  ASSUME NEW S, IsFiniteSet(S), NEW f, \A x \in S : f[x] \in Nat, NEW x \in S
  PROVE  /\ SumFunctionOnSet(f, S) = f[x] + SumFunctionOnSet(f, S \ {x})
         /\ SumFunctionOnSet(f, S) \in Nat /\ SumFunctionOnSet(f, S \ {x}) \in Nat
  <1> DEFINE sum(T) == SumFunctionOnSet(f, T)
             P == {n \in Nat : \A T \in SUBSET S : Cardinality(T) = n =>
                       \A y \in T : sum(T) = f[y] + sum(T \ {y})}
  <1>1. \A T \in SUBSET S : IsFiniteSet(T) /\ Cardinality(T) \in Nat
    BY FS_CardinalityType, FS_Subset
  <1>2. \A T \in SUBSET S : sum(T) \in Nat
    BY <1>1, SumFirst
  <1>3. 0 \in P
    <2>1. \A T \in SUBSET S : Cardinality(T) = 0 => T = {}
      BY <1>1, FS_EmptySet
    <2> QED BY <2>1
  <1>4. ASSUME NEW n \in Nat, n \in P PROVE n + 1 \in P
    <2> SUFFICES ASSUME NEW T \in SUBSET S, Cardinality(T) = n + 1, NEW y \in T
                 PROVE  sum(T) = f[y] + sum(T \ {y})
      OBVIOUS
    <2> DEFINE c == Choice(T)
    <2>1. c \in T /\ sum(T) = f[c] + sum(T \ {c})
      BY <1>1, SumFirst
    <2>2. CASE y = c
      BY <2>1, <2>2
    <2>3. CASE y # c
      <3>1. /\ T \ {c} \in SUBSET S /\ T \ {y} \in SUBSET S
            /\ y \in T \ {c} /\ c \in T \ {y}
        BY <2>1, <2>3
      <3>2. Cardinality(T \ {c}) = Cardinality(T) - 1
        BY <1>1, <2>1, FS_RemoveElement
      <3>3. Cardinality(T \ {y}) = Cardinality(T) - 1
        BY <1>1, FS_RemoveElement
      <3>4. Cardinality(T \ {c}) = n /\ Cardinality(T \ {y}) = n
        BY <3>2, <3>3
      <3>5. sum(T \ {c}) = f[y] + sum((T \ {c}) \ {y})
        BY <1>4, <3>1, <3>4
      <3>6. sum(T \ {y}) = f[c] + sum((T \ {y}) \ {c})
        BY <1>4, <3>1, <3>4
      <3>7. (T \ {y}) \ {c} = (T \ {c}) \ {y}
        OBVIOUS
      <3>8. sum((T \ {y}) \ {c}) = sum((T \ {c}) \ {y})
        BY <3>7, Zenon
      <3>9. /\ f[c] \in Nat /\ f[y] \in Nat
            /\ sum((T \ {c}) \ {y}) \in Nat
        BY <1>2, <2>1
      <3> HIDE DEF sum
      <3> QED BY <2>1, <3>5, <3>6, <3>8, <3>9
    <2> QED BY <2>2, <2>3
  <1>5. Nat \subseteq P
    <2> HIDE DEF P
    <2> QED BY <1>3, <1>4, SetInduction
  <1> QED BY <1>1, <1>2, <1>5

\* A sum depends on the summands only.
LEMMA SumCongruence ==
  ASSUME NEW S, IsFiniteSet(S), NEW f, NEW g, \A x \in S : f[x] \in Nat /\ g[x] = f[x]
  PROVE  SumFunctionOnSet(g, S) = SumFunctionOnSet(f, S)
  <1> DEFINE P == {T \in SUBSET S : SumFunctionOnSet(g, T) = SumFunctionOnSet(f, T)}
  <1>1. \A T \in SUBSET S : IsFiniteSet(T)
    BY FS_Subset
  <1>2. {} \in P
    <2>1. SumFunctionOnSet(g, {}) = 0 /\ SumFunctionOnSet(f, {}) = 0
      BY <1>1, SumFirst
    <2> QED BY <2>1
  <1>3. ASSUME NEW T \in SUBSET S, NEW x \in S, T \in P, x \notin T PROVE T \cup {x} \in P
    <2> DEFINE U == T \cup {x}
    <2>1. U \in SUBSET S /\ IsFiniteSet(U) /\ x \in U /\ U \ {x} = T
      BY <1>1, <1>3
    <2>2. \A y \in U : f[y] \in Nat /\ g[y] \in Nat
      BY <2>1
    <2> HIDE DEF U
    <2>3. SumFunctionOnSet(f, U) = f[x] + SumFunctionOnSet(f, T)
      BY <2>1, <2>2, SumRemove
    <2>4. SumFunctionOnSet(g, U) = g[x] + SumFunctionOnSet(g, T)
      BY <2>1, <2>2, SumRemove
    <2>5. SumFunctionOnSet(g, U) = SumFunctionOnSet(f, U)
      BY <1>3, <2>3, <2>4
    <2> QED BY <2>1, <2>5 DEF U
  <1>4. \A T \in SUBSET S : T \in P
    <2> HIDE DEF P
    <2> QED BY <1>2, <1>3, FiniteInduction
  <1>5. S \in P
    BY <1>4
  <1> QED BY <1>5

\* The sum over the part of a domain that lies in U.
Total(f, U) == SumFunctionOnSet(f, DOMAIN f \cap U)
\* A table of natural numbers with finitely many entries.
Table(f) == IsFiniteSet(DOMAIN f) /\ \A x \in DOMAIN f : f[x] \in Nat

\* A total is a number, and 0 over nothing.
LEMMA TotalType ==
  ASSUME NEW f, Table(f), NEW U
  PROVE  Total(f, U) \in Nat /\ (DOMAIN f \cap U = {} => Total(f, U) = 0)
  <1>1. IsFiniteSet(DOMAIN f \cap U) /\ \A x \in DOMAIN f \cap U : f[x] \in Nat
    BY FS_Subset DEF Table
  <1> QED BY <1>1, SumFirst DEF Total

\* A total only looks at what is in the domain.
LEMMA TotalSame ==
  ASSUME NEW f, NEW U, NEW W, \A x \in DOMAIN f : x \in U <=> x \in W
  PROVE  Total(f, U) = Total(f, W)
  <1>1. DOMAIN f \cap U = DOMAIN f \cap W
    OBVIOUS
  <1> QED BY <1>1, Zenon DEF Total

\* One more element of the domain.
LEMMA TotalInsert ==
  ASSUME NEW f, Table(f), NEW U, NEW x \in DOMAIN f, x \notin U
  PROVE  Total(f, U \cup {x}) = f[x] + Total(f, U)
  <1> DEFINE S == DOMAIN f \cap (U \cup {x})
  <1>1. IsFiniteSet(S) /\ (\A y \in S : f[y] \in Nat) /\ x \in S
    BY FS_Subset DEF Table
  <1>2. S \ {x} = DOMAIN f \cap U
    OBVIOUS
  <1> HIDE DEF S
  <1>3. SumFunctionOnSet(f, S) = f[x] + SumFunctionOnSet(f, S \ {x})
    BY <1>1, SumRemove
  <1>4. SumFunctionOnSet(f, S) = f[x] + SumFunctionOnSet(f, DOMAIN f \cap U)
    BY <1>2, <1>3, Zenon
  <1> QED BY <1>4 DEF S, Total

\* Totals over disjoint sets add up.
LEMMA TotalUnion ==
  ASSUME NEW f, Table(f), NEW U, NEW W, \A x \in DOMAIN f : ~(x \in U /\ x \in W)
  PROVE  /\ Total(f, U \cup W) = Total(f, U) + Total(f, W)
         /\ Total(f, U) \in Nat /\ Total(f, W) \in Nat
  <1> DEFINE D == DOMAIN f \cap W
             P == {T \in SUBSET D : Total(f, U \cup T) = Total(f, U) + Total(f, T)}
  <1>0. IsFiniteSet(D) /\ Total(f, U) \in Nat /\ Total(f, W) \in Nat
    BY TotalType, FS_Subset DEF Table
  <1>1. {} \in P
    <2>1. U \cup {} = U
      OBVIOUS
    <2>2. Total(f, {}) = 0
      BY TotalType
    <2>3. Total(f, U \cup {}) = Total(f, U)
      BY <2>1, Zenon
    <2> QED BY <1>0, <2>2, <2>3
  <1>2. ASSUME NEW T \in SUBSET D, NEW x \in D, T \in P, x \notin T PROVE T \cup {x} \in P
    <2>1. x \in DOMAIN f /\ x \notin U /\ x \notin U \cup T
      BY <1>2
    <2>2. Total(f, (U \cup T) \cup {x}) = f[x] + Total(f, U \cup T)
      BY <2>1, TotalInsert
    <2>3. Total(f, T \cup {x}) = f[x] + Total(f, T)
      BY <1>2, <2>1, TotalInsert
    <2>4. U \cup (T \cup {x}) = (U \cup T) \cup {x}
      OBVIOUS
    <2>5. Total(f, U \cup (T \cup {x})) = f[x] + Total(f, U \cup T)
      BY <2>2, <2>4, Zenon
    <2>6. Total(f, U \cup T) = Total(f, U) + Total(f, T)
      BY <1>2
    <2>7. f[x] \in Nat /\ Total(f, T) \in Nat
      BY <2>1, TotalType DEF Table
    <2>8. Total(f, U \cup (T \cup {x})) = Total(f, U) + Total(f, T \cup {x})
      BY <1>0, <2>3, <2>5, <2>6, <2>7
    <2> QED BY <2>8
  <1>3. \A T \in SUBSET D : T \in P
    <2> HIDE DEF P, D
    <2> QED BY <1>0, <1>1, <1>2, FiniteInduction
  <1>4. Total(f, U \cup D) = Total(f, U) + Total(f, D)
    BY <1>3
  <1>5. Total(f, D) = Total(f, W) /\ Total(f, U \cup D) = Total(f, U \cup W)
    BY TotalSame
  <1> QED BY <1>0, <1>4, <1>5

\* A total over less is less.
LEMMA TotalMonotone ==
  ASSUME NEW f, Table(f), NEW U, NEW W, \A x \in DOMAIN f : x \in U => x \in W
  PROVE  Total(f, U) <= Total(f, W)
  <1>1. /\ Total(f, U \cup (W \ U)) = Total(f, U) + Total(f, W \ U)
        /\ Total(f, U) \in Nat /\ Total(f, W \ U) \in Nat
    <2>1. \A x \in DOMAIN f : ~(x \in U /\ x \in W \ U)
      OBVIOUS
    <2> DEFINE R == W \ U
    <2> HIDE DEF R
    <2>2. \A x \in DOMAIN f : ~(x \in U /\ x \in R)
      BY <2>1 DEF R
    <2>3. /\ Total(f, U \cup R) = Total(f, U) + Total(f, R)
          /\ Total(f, U) \in Nat /\ Total(f, R) \in Nat
      BY <2>2, TotalUnion
    <2> QED BY <2>3 DEF R
  <1>2. Total(f, U \cup (W \ U)) = Total(f, W)
    BY TotalSame
  <1> QED BY <1>1, <1>2

\* Where every entry is positive, only nothing totals 0.
LEMMA TotalPositive ==
  ASSUME NEW f, Table(f), NEW U, NEW x \in DOMAIN f, x \in U, f[x] > 0
  PROVE  Total(f, U) > 0
  <1>1. Total(f, (U \ {x}) \cup {x}) = f[x] + Total(f, U \ {x})
    BY TotalInsert
  <1>2. Total(f, (U \ {x}) \cup {x}) = Total(f, U)
    BY TotalSame
  <1>3. Total(f, U \ {x}) \in Nat /\ f[x] \in Nat
    BY TotalType DEF Table
  <1> QED BY <1>1, <1>2, <1>3

\* g is f with d more at x.
Raises(g, f, x, d) ==
    /\ DOMAIN g = DOMAIN f \cup {x}
    /\ \A y \in DOMAIN f : y # x => g[y] = f[y]
    /\ g[x] = (IF x \in DOMAIN f THEN f[x] ELSE 0) + d

\* The totals rise with the table.
LEMMA TotalRaise ==
  ASSUME NEW f, Table(f), NEW g, NEW x, NEW d \in Nat, Raises(g, f, x, d), NEW U
  PROVE  Table(g) /\ Total(g, U) = Total(f, U) + (IF x \in U THEN d ELSE 0)
  <1>1. IsFiniteSet(DOMAIN g) /\ \A y \in DOMAIN g : g[y] \in Nat
    <2>1. IsFiniteSet(DOMAIN f \cup {x})
      BY FS_AddElement DEF Table
    <2> QED BY <2>1 DEF Table, Raises
  <1> DEFINE R == DOMAIN f \cap (U \ {x})
  <1>2. Table(g) /\ IsFiniteSet(R)
    BY <1>1, FS_Subset DEF Table
  <1>3. SumFunctionOnSet(g, R) = SumFunctionOnSet(f, R)
    <2>1. \A y \in R : f[y] \in Nat /\ g[y] = f[y]
      BY DEF Table, Raises
    <2> HIDE DEF R
    <2> QED BY <1>2, <2>1, SumCongruence
  <1>4. DOMAIN g \cap (U \ {x}) = R
    BY DEF Raises
  <1>5. Total(g, U \ {x}) = Total(f, U \ {x})
    BY <1>3, <1>4, Zenon DEF Total
  <1>6. Total(f, U) \in Nat /\ Total(f, U \ {x}) \in Nat
    BY TotalType
  <1>7. CASE x \notin U
    <2>1. Total(g, U \ {x}) = Total(g, U) /\ Total(f, U \ {x}) = Total(f, U)
      BY <1>7, TotalSame
    <2>2. Total(g, U) = Total(f, U)
      BY <1>5, <2>1, Zenon
    <2>3. Total(g, U) = Total(f, U) + 0
      BY <1>6, <2>2
    <2> QED BY <1>2, <1>7, <2>3
  <1>8. CASE x \in U
    <2>1. Total(g, (U \ {x}) \cup {x}) = g[x] + Total(g, U \ {x})
      <3>1. x \in DOMAIN g
        BY DEF Raises
      <3> QED BY <1>2, <3>1, TotalInsert
    <2>2. Total(g, (U \ {x}) \cup {x}) = Total(g, U)
      BY <1>8, TotalSame
    <2>3. CASE x \in DOMAIN f
      <3>1. Total(f, (U \ {x}) \cup {x}) = f[x] + Total(f, U \ {x})
        BY <2>3, TotalInsert
      <3>2. Total(f, (U \ {x}) \cup {x}) = Total(f, U)
        BY <1>8, TotalSame
      <3>3. g[x] = f[x] + d /\ f[x] \in Nat
        BY <2>3 DEF Raises, Table
      <3> QED BY <1>2, <1>5, <1>6, <1>8, <2>1, <2>2, <3>1, <3>2, <3>3
    <2>4. CASE x \notin DOMAIN f
      <3>1. Total(f, U \ {x}) = Total(f, U)
        BY <2>4, TotalSame
      <3>2. g[x] = d
        BY <2>4 DEF Raises
      <3> QED BY <1>2, <1>5, <1>6, <1>8, <2>1, <2>2, <3>1, <3>2
    <2> QED BY <2>3, <2>4
  <1> QED BY <1>7, <1>8

\* Totals of proportional tables.
LEMMA TotalBounds ==
  ASSUME NEW f, Table(f), NEW g, Table(g), DOMAIN g = DOMAIN f, NEW U,
         NEW lo \in Nat, NEW hi \in Nat,
         \A x \in DOMAIN f : x \in U => lo * f[x] <= g[x] /\ g[x] <= hi * f[x]
  PROVE  lo * Total(f, U) <= Total(g, U) /\ Total(g, U) <= hi * Total(f, U)
  <1> DEFINE D == DOMAIN f \cap U
             P == {T \in SUBSET D : lo * Total(f, T) <= Total(g, T)
                                    /\ Total(g, T) <= hi * Total(f, T)}
  <1>0. IsFiniteSet(D)
    BY FS_Subset DEF Table
  <1>1. {} \in P
    <2>1. Total(f, {}) = 0 /\ Total(g, {}) = 0
      BY TotalType
    <2> QED BY <2>1
  <1>2. ASSUME NEW T \in SUBSET D, NEW x \in D, T \in P, x \notin T PROVE T \cup {x} \in P
    <2>1. Total(f, T \cup {x}) = f[x] + Total(f, T) /\ Total(g, T \cup {x}) = g[x] + Total(g, T)
      BY <1>2, TotalInsert
    <2>2. /\ f[x] \in Nat /\ g[x] \in Nat /\ lo * f[x] <= g[x] /\ g[x] <= hi * f[x]
          /\ lo * Total(f, T) <= Total(g, T) /\ Total(g, T) <= hi * Total(f, T)
          /\ Total(f, T) \in Nat /\ Total(g, T) \in Nat
      BY <1>2, TotalType DEF Table
    <2>3. /\ lo * (f[x] + Total(f, T)) = lo * f[x] + lo * Total(f, T)
          /\ hi * (f[x] + Total(f, T)) = hi * f[x] + hi * Total(f, T)
      BY <2>2
    <2> QED BY <2>1, <2>2, <2>3
  <1>3. \A T \in SUBSET D : T \in P
    <2> HIDE DEF P, D
    <2> QED BY <1>0, <1>1, <1>2, FiniteInduction
  <1>4. D \in P /\ Total(f, D) = Total(f, U) /\ Total(g, D) = Total(g, U)
    BY <1>3, TotalSame
  <1> QED BY <1>4

-----------------------------------------------------------------------------
(* Division.                                                               *)

\* The quotient, between its bounds.
LEMMA DivBounds ==
  ASSUME NEW a \in Nat, NEW d \in Nat \ {0}
  PROVE  a \div d \in Nat /\ d * (a \div d) <= a /\ a < d * (a \div d) + d
  OBVIOUS

\* A number below the quotient.
LEMMA DivLeast ==
  ASSUME NEW a \in Nat, NEW d \in Nat \ {0}, NEW q \in Nat, d * q <= a
  PROVE  q <= a \div d
  OBVIOUS

\* A number above the quotient.
LEMMA DivMost ==
  ASSUME NEW a \in Nat, NEW d \in Nat \ {0}, NEW q \in Nat, a < d * q + d
  PROVE  a \div d <= q
  OBVIOUS

\* Products grow with their factors.
LEMMA ProductMonotone ==
  ASSUME NEW a \in Nat, NEW b \in Nat, NEW c \in Nat, a <= b
  PROVE  a * c <= b * c /\ a * c \in Nat /\ b * c \in Nat
  OBVIOUS

\* The larger value has the larger share.
LEMMA DivMonotone ==
  ASSUME NEW a \in Nat, NEW b \in Nat, NEW n \in Nat, NEW d \in Nat \ {0}, a <= b
  PROVE  (a * n) \div d <= (b * n) \div d
  <1>1. a * n <= b * n /\ a * n \in Nat /\ b * n \in Nat
    BY ProductMonotone
  <1>2. (a * n) \div d \in Nat /\ d * ((a * n) \div d) <= a * n
    BY <1>1, DivBounds
  <1>3. d * ((a * n) \div d) <= b * n
    BY <1>1, <1>2
  <1> QED BY <1>1, <1>2, <1>3, DivLeast

\* A share of less than the whole is less than the number of shares.
LEMMA DivBelow ==
  ASSUME NEW a \in Nat, NEW n \in Nat \ {0}, NEW d \in Nat \ {0}, a < d
  PROVE  (a * n) \div d \in 0..(n - 1)
  <1>1. (a + 1) * n <= d * n /\ (a + 1) * n = a * n + n /\ a * n \in Nat
    BY ProductMonotone
  <1>2. d * (n - 1) + d = d * n
    OBVIOUS
  <1>3. a * n < d * (n - 1) + d
    BY <1>1, <1>2
  <1>4. (a * n) \div d \in Nat
    BY <1>1, DivBounds
  <1>5. (a * n) \div d <= n - 1
    BY <1>1, <1>3, DivMost
  <1> QED BY <1>4, <1>5

\* Dividing a span into n parts and back: the end of a value's part is not
\* below the value, and above it by no more than the width of a part.
LEMMA DivInverse ==
  ASSUME NEW a \in Nat, NEW n \in Nat \ {0}, NEW d \in Nat \ {0}
  PROVE  LET q == (a * n) \div d IN
         a <= ((q + 1) * d) \div n /\ ((q + 1) * d) \div n <= a + d \div n
  <1> DEFINE q == (a * n) \div d
             p == (q + 1) * d
             r == d \div n
  <1>1. a * n \in Nat /\ q \in Nat /\ d * q <= a * n /\ a * n < d * q + d
    BY DivBounds
  <1>2. r \in Nat /\ n * r <= d /\ d < n * r + n
    BY DivBounds
  <1> HIDE DEF q, r
  <1>3. p = d * q + d /\ p \in Nat
    BY <1>1
  <1>4. n * a <= p
    BY <1>1, <1>3
  <1>5. a <= p \div n
    BY <1>3, <1>4, DivLeast
  <1>6. n * (a + r) = a * n + n * r
    BY <1>2
  <1>7. p < n * (a + r) + n
    BY <1>1, <1>2, <1>3, <1>6
  <1>8. p \div n <= a + r
    BY <1>2, <1>3, <1>7, DivMost
  <1> QED BY <1>5, <1>8 DEF q, r

-----------------------------------------------------------------------------
(* The layout of the buckets.                                              *)

OctaveType == [start : Int, size : Int, end : Int, span : Int, nsubs : Int, index : Int]

\* An octave has its shape.
LEMMA OctaveIn ==
  ASSUME NEW from \in Int, NEW size \in Int, NEW index \in Int
  PROVE  Octave(from, size, index) \in OctaveType
  BY HistogramAssumption DEF Octave, OctaveType, Least, SubBucketCount

\* The loop over the octaves, unfolded.
LEMMA OctaveUnfolded ==
  /\ ForEachOctave[0] = Octave(HdrTill, HdrTill, HdrTill)
  /\ \A k \in 0..MaxValue : k # 0 =>
        ForEachOctave[k] = Octave(ForEachOctave[k - 1].end, 2 * ForEachOctave[k - 1].size,
                                  ForEachOctave[k - 1].index + ForEachOctave[k - 1].nsubs)
  <1> DEFINE step(v) == Octave(v.end, 2 * v.size, v.index + v.nsubs)
             F == [n \in Nat |-> [v \in OctaveType |-> step(v)]]
             v0 == Octave(HdrTill, HdrTill, HdrTill)
  <1>1. v0 \in OctaveType
    BY HistogramAssumption, OctaveIn
  <1>2. \A v \in OctaveType : step(v) \in OctaveType
    <2>1. \A v \in OctaveType : v.end \in Int /\ 2 * v.size \in Int /\ v.index + v.nsubs \in Int
      BY DEF OctaveType
    <2> QED BY <2>1, OctaveIn
  <1>3. F \in [Nat -> [OctaveType -> OctaveType]]
    BY <1>2
  <1>4. PICK g : IteratesTo(g, OctaveType, v0, F, MaxValue)
    <2> HIDE DEF F, v0
    <2> QED BY <1>1, <1>3, Recursion, HistogramAssumption
  <1>5. /\ g \in [0..MaxValue -> OctaveType] /\ g[0] = v0
        /\ \A n \in 0..MaxValue : n # 0 => g[n] = F[n - 1][g[n - 1]]
    BY <1>4 DEF IteratesTo
  <1> DEFINE Is(f) == f = [k \in 0..MaxValue |-> IF k = 0 THEN v0 ELSE step(f[k - 1])]
  <1>6. \A n \in 0..MaxValue : n # 0 => g[n] = step(g[n - 1])
    <2> SUFFICES ASSUME NEW n \in 0..MaxValue, n # 0 PROVE g[n] = step(g[n - 1])
      OBVIOUS
    <2>1. n - 1 \in Nat /\ n - 1 \in 0..MaxValue
      BY HistogramAssumption
    <2>2. g[n] = F[n - 1][g[n - 1]] /\ g[n - 1] \in OctaveType
      BY <1>5, <2>1
    <2> QED BY <2>1, <2>2
  <1>7. Is(g)
    <2> HIDE DEF step, v0
    <2> QED BY <1>5, <1>6
  <1>8. \E f : Is(f)
    <2> HIDE DEF Is
    <2> QED BY <1>7
  <1>9. ForEachOctave = CHOOSE f : Is(f)
    BY DEF ForEachOctave
  <1>10. Is(ForEachOctave)
    <2> HIDE DEF Is
    <2> QED BY <1>8, <1>9
  <1>11. 0 \in 0..MaxValue
    BY HistogramAssumption
  <1> HIDE DEF v0
  <1>12. ForEachOctave[0] = v0
    BY <1>10, <1>11
  <1>13. \A k \in 0..MaxValue : k # 0 => ForEachOctave[k] = step(ForEachOctave[k - 1])
    <2> HIDE DEF step
    <2> QED BY <1>10
  <1> QED BY <1>12, <1>13 DEF v0

\* From one octave to the next.
LEMMA OctaveStep ==
  ASSUME NEW k \in 0..MaxValue, k # 0
  PROVE  /\ k - 1 \in 0..MaxValue
         /\ ForEachOctave[k].start = ForEachOctave[k - 1].end
         /\ ForEachOctave[k].size = 2 * ForEachOctave[k - 1].size
         /\ ForEachOctave[k].index = ForEachOctave[k - 1].index + ForEachOctave[k - 1].nsubs
  <1>1. ForEachOctave[k] = Octave(ForEachOctave[k - 1].end, 2 * ForEachOctave[k - 1].size,
                                  ForEachOctave[k - 1].index + ForEachOctave[k - 1].nsubs)
    BY OctaveUnfolded
  <1> QED BY <1>1, HistogramAssumption DEF Octave

\* Every octave has an end, a span and sub-buckets after its start and size.
LEMMA OctaveParts ==
  ASSUME NEW k \in 0..MaxValue
  PROVE  LET o == ForEachOctave[k] IN
         /\ o.end = Least(o.start + o.size, MaxValue)
         /\ o.span = o.end - o.start
         /\ o.nsubs = SubBucketCount(o.span)
  <1>1. CASE k = 0
    BY <1>1, OctaveUnfolded DEF Octave
  <1>2. CASE k # 0
    <2>1. ForEachOctave[k] = Octave(ForEachOctave[k - 1].end, 2 * ForEachOctave[k - 1].size,
                                    ForEachOctave[k - 1].index + ForEachOctave[k - 1].nsubs)
      BY <1>2, OctaveUnfolded
    <2> QED BY <2>1 DEF Octave
  <1> QED BY <1>1, <1>2

\* An octave within the range starts at its size, and the k-th not before k.
OctaveOK(o, k) ==
    /\ o.start \in HdrTill..MaxValue /\ o.size \in Nat /\ o.size >= 1
    /\ o.index \in Nat /\ o.index >= HdrTill
    /\ o.start < MaxValue => o.start = o.size
    /\ o.start < MaxValue => o.start > k

\* What follows for the other parts.
LEMMA OctaveEnds ==
  ASSUME NEW k \in 0..MaxValue, OctaveOK(ForEachOctave[k], k)
  PROVE  LET o == ForEachOctave[k] IN
         /\ o.end \in Nat /\ o.end <= MaxValue /\ o.start <= o.end
         /\ o.span \in Nat /\ o.nsubs \in Nat /\ o.nsubs >= 1
         /\ o.start < MaxValue => /\ o.start < o.end /\ o.span >= 1 /\ o.nsubs <= o.span
                                  /\ o.nsubs = Least(o.span, SubBucketsPerOctave)
         /\ o.end < MaxValue => o.end = 2 * o.size
  <1> DEFINE o == ForEachOctave[k]
  <1>1. /\ o.end = Least(o.start + o.size, MaxValue)
        /\ o.span = o.end - o.start
        /\ o.nsubs = SubBucketCount(o.span)
    BY OctaveParts
  <1>2. /\ o.start \in Nat /\ o.start <= MaxValue /\ o.size \in Nat /\ o.size >= 1
        /\ o.start < MaxValue => o.start = o.size
    BY HistogramAssumption DEF OctaveOK
  <1> HIDE DEF o
  <1>3. o.end \in Nat /\ o.end <= MaxValue /\ o.start <= o.end
    BY <1>1, <1>2, HistogramAssumption DEF Least
  <1>4. o.start < MaxValue => o.start < o.end
    BY <1>1, <1>2, HistogramAssumption DEF Least
  <1>5. o.end < MaxValue => o.end = 2 * o.size
    BY <1>1, <1>2, HistogramAssumption DEF Least
  <1>6. o.span \in Nat /\ (o.start < MaxValue => o.span >= 1)
    BY <1>1, <1>2, <1>3, <1>4
  <1>7. o.nsubs \in Nat /\ o.nsubs >= 1
    BY <1>1, <1>6, HistogramAssumption DEF SubBucketCount, Least
  <1>8. o.start < MaxValue => /\ o.nsubs <= o.span
                              /\ o.nsubs = Least(o.span, SubBucketsPerOctave)
    BY <1>1, <1>6, HistogramAssumption DEF SubBucketCount, Least
  <1> QED BY <1>3, <1>4, <1>5, <1>6, <1>7, <1>8 DEF o

\* So it is with every octave.
LEMMA OctaveFacts ==
  ASSUME NEW k \in 0..MaxValue
  PROVE  OctaveOK(ForEachOctave[k], k)
  <1> DEFINE T == {n \in Nat : n <= MaxValue => OctaveOK(ForEachOctave[n], n)}
  <1>1. 0 \in T
    <2>1. /\ ForEachOctave[0].start = HdrTill /\ ForEachOctave[0].size = HdrTill
          /\ ForEachOctave[0].index = HdrTill
      BY OctaveUnfolded DEF Octave
    <2> QED BY <2>1, HistogramAssumption DEF OctaveOK
  <1>2. ASSUME NEW n \in Nat, n \in T PROVE n + 1 \in T
    <2> SUFFICES ASSUME n + 1 <= MaxValue PROVE OctaveOK(ForEachOctave[n + 1], n + 1)
      OBVIOUS
    <2>1. n \in 0..MaxValue /\ n + 1 \in 0..MaxValue /\ n + 1 # 0 /\ (n + 1) - 1 = n
      BY HistogramAssumption
    <2> DEFINE o == ForEachOctave[n]
               p == ForEachOctave[n + 1]
    <2>2. OctaveOK(o, n)
      BY <1>2, <2>1
    <2>3. p.start = o.end /\ p.size = 2 * o.size /\ p.index = o.index + o.nsubs
      BY <2>1, OctaveStep
    <2>4. /\ o.end \in Nat /\ o.end <= MaxValue /\ o.start <= o.end
          /\ o.nsubs \in Nat
          /\ o.start < MaxValue => o.start < o.end
          /\ o.end < MaxValue => o.end = 2 * o.size
      BY <2>1, <2>2, OctaveEnds
    <2>5. /\ o.start \in HdrTill..MaxValue /\ o.size \in Nat /\ o.size >= 1
          /\ o.index \in Nat /\ o.index >= HdrTill
          /\ o.start < MaxValue => o.start > n
      BY <2>2 DEF OctaveOK
    <2> HIDE DEF o, p
    <2>6. OctaveOK(p, n + 1)
      BY <2>3, <2>4, <2>5, HistogramAssumption DEF OctaveOK
    <2> QED BY <2>6 DEF p
  <1>3. Nat \subseteq T
    <2> HIDE DEF T
    <2> QED BY <1>1, <1>2, SetInduction
  <1> QED BY <1>3, HistogramAssumption

\* Later octaves lie beyond earlier ones, and so do their buckets.
LEMMA OctaveOrder ==
  ASSUME NEW j \in 0..MaxValue, NEW k \in 0..MaxValue, j < k
  PROVE  /\ ForEachOctave[j].end <= ForEachOctave[k].start
         /\ ForEachOctave[j].index + ForEachOctave[j].nsubs <= ForEachOctave[k].index
  <1> DEFINE After(n) == /\ ForEachOctave[j].end <= ForEachOctave[n].start
                         /\ ForEachOctave[j].index + ForEachOctave[j].nsubs <= ForEachOctave[n].index
             T == {n \in Nat : n <= MaxValue /\ j < n => After(n)}
  <1>0. 0 \in T
    OBVIOUS
  <1>1. ASSUME NEW n \in 0..MaxValue
        PROVE  /\ ForEachOctave[n].start \in Nat /\ ForEachOctave[n].end \in Nat
               /\ ForEachOctave[n].start <= ForEachOctave[n].end
               /\ ForEachOctave[n].index \in Nat /\ ForEachOctave[n].nsubs \in Nat
    <2>1. OctaveOK(ForEachOctave[n], n)
      BY OctaveFacts
    <2>2. /\ ForEachOctave[n].end \in Nat /\ ForEachOctave[n].start <= ForEachOctave[n].end
          /\ ForEachOctave[n].nsubs \in Nat
      BY <2>1, OctaveEnds
    <2> QED BY <2>1, <2>2, HistogramAssumption DEF OctaveOK
  <1>2. ASSUME NEW n \in Nat, n \in T PROVE n + 1 \in T
    <2> SUFFICES ASSUME n + 1 <= MaxValue, j < n + 1 PROVE After(n + 1)
      OBVIOUS
    <2>1. n \in 0..MaxValue /\ n + 1 \in 0..MaxValue /\ n + 1 # 0 /\ (n + 1) - 1 = n
      BY HistogramAssumption
    <2>2. /\ ForEachOctave[n + 1].start = ForEachOctave[n].end
          /\ ForEachOctave[n + 1].index = ForEachOctave[n].index + ForEachOctave[n].nsubs
      BY <2>1, OctaveStep
    <2>3. CASE j = n
      BY <1>1, <2>1, <2>2, <2>3
    <2>4. CASE j < n
      <3>1. After(n)
        BY <1>2, <2>1, <2>4
      <3> QED BY <1>1, <2>1, <2>2, <3>1
    <2> QED BY <2>3, <2>4
  <1>3. Nat \subseteq T
    <2> HIDE DEF T
    <2> QED BY <1>0, <1>2, SetInduction
  <1> QED BY <1>3

\* The number of octaves of the loop.
OctaveCount ==
    CHOOSE n \in 0..MaxValue : /\ ForEachOctave[n].start >= MaxValue
                               /\ \A m \in 0..(n - 1) : ForEachOctave[m].start < MaxValue

\* The numbers of an octave, within the range or past its end.
LEMMA OctaveNumbers ==
  ASSUME NEW n \in 0..MaxValue
  PROVE  LET o == ForEachOctave[n] IN
         /\ o.start \in Nat /\ HdrTill <= o.start /\ o.start <= MaxValue
         /\ o.end \in Nat /\ o.start <= o.end /\ o.end <= MaxValue
         /\ o.size \in Nat /\ o.size >= 1
         /\ o.index \in Nat /\ HdrTill <= o.index
         /\ o.span \in Nat /\ o.span = o.end - o.start /\ o.nsubs \in Nat /\ o.nsubs >= 1
         /\ o.start < MaxValue => /\ o.start = o.size /\ o.start > n /\ o.start < o.end
                                  /\ o.span >= 1 /\ o.nsubs <= o.span
                                  /\ o.nsubs = Least(o.span, SubBucketsPerOctave)
  <1>1. OctaveOK(ForEachOctave[n], n)
    BY OctaveFacts
  <1> DEFINE o == ForEachOctave[n]
  <1>2. /\ o.end \in Nat /\ o.end <= MaxValue /\ o.start <= o.end
        /\ o.span \in Nat /\ o.nsubs \in Nat /\ o.nsubs >= 1
        /\ o.start < MaxValue => /\ o.start < o.end /\ o.span >= 1 /\ o.nsubs <= o.span
                                 /\ o.nsubs = Least(o.span, SubBucketsPerOctave)
    BY <1>1, OctaveEnds
  <1>3. o.span = o.end - o.start
    BY OctaveParts
  <1> HIDE DEF o
  <1>4. OctaveOK(o, n)
    BY <1>1 DEF o
  <1>5. /\ o.start \in Nat /\ HdrTill <= o.start /\ o.start <= MaxValue
        /\ o.size \in Nat /\ o.size >= 1 /\ o.index \in Nat /\ HdrTill <= o.index
        /\ o.start < MaxValue => o.start = o.size /\ o.start > n
    BY <1>4, HistogramAssumption DEF OctaveOK
  <1>6. /\ o.start \in Nat /\ HdrTill <= o.start /\ o.start <= MaxValue
        /\ o.end \in Nat /\ o.start <= o.end /\ o.end <= MaxValue
        /\ o.size \in Nat /\ o.size >= 1
        /\ o.index \in Nat /\ HdrTill <= o.index
        /\ o.span \in Nat /\ o.span = o.end - o.start /\ o.nsubs \in Nat /\ o.nsubs >= 1
    BY <1>2, <1>3, <1>5
  <1> QED BY <1>2, <1>5, <1>6 DEF o

\* The loop ends, with an octave that starts at MaxValue.
LEMMA OctaveCountFacts ==
  /\ OctaveCount \in 0..MaxValue
  /\ ForEachOctave[OctaveCount].start = MaxValue
  /\ \A m \in 0..(OctaveCount - 1) : m \in 0..MaxValue /\ ForEachOctave[m].start < MaxValue
  <1> DEFINE T == {n \in 0..MaxValue : ForEachOctave[n].start >= MaxValue}
             Is(n) == /\ ForEachOctave[n].start >= MaxValue
                      /\ \A m \in 0..(n - 1) : ForEachOctave[m].start < MaxValue
  <1>1. MaxValue \in T
    <2>1. MaxValue \in 0..MaxValue
      BY HistogramAssumption
    <2>2. /\ ForEachOctave[MaxValue].start \in Nat
          /\ ForEachOctave[MaxValue].start < MaxValue => ForEachOctave[MaxValue].start > MaxValue
      BY <2>1, OctaveNumbers
    <2> QED BY <2>1, <2>2, HistogramAssumption
  <1>2. PICK n \in T : \A k \in T : n <= k
    <2>1. T \in SUBSET Nat /\ T # {}
      BY <1>1, HistogramAssumption
    <2> HIDE DEF T
    <2> QED BY <2>1, NatMin
  <1>3. Is(n) /\ n \in 0..MaxValue
    <2>1. ASSUME NEW m \in 0..(n - 1) PROVE ForEachOctave[m].start < MaxValue
      <3>1. m \in 0..MaxValue /\ m \notin T
        BY <1>2, HistogramAssumption
      <3>2. ForEachOctave[m].start \in Nat
        BY <3>1, OctaveNumbers
      <3> QED BY <3>1, <3>2, HistogramAssumption
    <2> QED BY <2>1
  <1>4. OctaveCount \in 0..MaxValue /\ Is(OctaveCount)
    <2> HIDE DEF Is
    <2>1. \E p \in 0..MaxValue : Is(p)
      BY <1>3
    <2>2. OctaveCount = CHOOSE p \in 0..MaxValue : Is(p)
      BY DEF OctaveCount, Is
    <2> QED BY <2>1, <2>2
  <1>5. ForEachOctave[OctaveCount].start = MaxValue
    <2>1. ForEachOctave[OctaveCount].start \in Nat /\ ForEachOctave[OctaveCount].start <= MaxValue
      BY <1>4, OctaveNumbers
    <2> QED BY <1>4, <2>1, HistogramAssumption
  <1> QED BY <1>4, <1>5, HistogramAssumption

\* The octave of index k holds the value v.
Holds(k, v) == ForEachOctave[k].start <= v /\ v < ForEachOctave[k].end

\* Every value that is not counted exactly or beyond lies in one octave.
LEMMA Located ==
  ASSUME NEW v \in Nat, HdrTill <= v, v < MaxValue
  PROVE  \E k \in 0..(OctaveCount - 1) : Holds(k, v)
  <1> DEFINE T == {n \in 0..MaxValue : v < ForEachOctave[n].start}
  <1>1. OctaveCount \in T
    BY OctaveCountFacts
  <1>2. PICK n \in T : \A k \in T : n <= k
    <2>1. T \in SUBSET Nat /\ T # {}
      BY <1>1, HistogramAssumption
    <2> HIDE DEF T
    <2> QED BY <2>1, NatMin
  <1>3. n # 0
    <2>1. ForEachOctave[0].start = HdrTill
      BY OctaveUnfolded DEF Octave
    <2> QED BY <1>2, <2>1, HistogramAssumption
  <1>4. n - 1 \in 0..MaxValue /\ ForEachOctave[n].start = ForEachOctave[n - 1].end
    BY <1>2, <1>3, OctaveStep
  <1>5. n - 1 \notin T
    BY <1>2, <1>4
  <1>6. ForEachOctave[n - 1].start \in Nat
    BY <1>4, OctaveNumbers
  <1>7. Holds(n - 1, v)
    BY <1>2, <1>4, <1>5, <1>6 DEF Holds
  <1>8. n <= OctaveCount
    BY <1>1, <1>2
  <1>9. n - 1 \in 0..(OctaveCount - 1)
    BY <1>4, <1>8, OctaveCountFacts
  <1> QED BY <1>7, <1>9

\* There is only one.
LEMMA LocatedOnce ==
  ASSUME NEW v \in Nat, NEW j \in 0..MaxValue, NEW k \in 0..MaxValue, Holds(j, v), Holds(k, v)
  PROVE  j = k
  <1>1. /\ ForEachOctave[j].start \in Nat /\ ForEachOctave[j].end \in Nat
        /\ ForEachOctave[k].start \in Nat /\ ForEachOctave[k].end \in Nat
    BY OctaveNumbers
  <1>2. CASE j < k
    BY <1>1, <1>2, OctaveOrder DEF Holds
  <1>3. CASE k < j
    BY <1>1, <1>3, OctaveOrder DEF Holds
  <1> QED BY <1>2, <1>3

\* The bucket of a value within octave k.
Share(k, v) ==
    ((v - ForEachOctave[k].start) * ForEachOctave[k].nsubs) \div ForEachOctave[k].span

\* Shares number the sub-buckets of the octave.
LEMMA ShareRange ==
  ASSUME NEW v \in Nat, NEW k \in 0..(OctaveCount - 1), Holds(k, v)
  PROVE  /\ Share(k, v) \in 0..(ForEachOctave[k].nsubs - 1)
         /\ Least(Share(k, v), ForEachOctave[k].nsubs - 1) = Share(k, v)
  <1> DEFINE o == ForEachOctave[k]
  <1>1. k \in 0..MaxValue /\ o.start < MaxValue
    BY OctaveCountFacts
  <1>2. /\ o.start \in Nat /\ o.end \in Nat /\ o.span \in Nat /\ o.span = o.end - o.start
        /\ o.nsubs \in Nat /\ o.nsubs >= 1 /\ o.span >= 1
    BY <1>1, OctaveNumbers
  <1>3. o.start <= v /\ v < o.end
    BY DEF Holds
  <1> HIDE DEF o
  <1>4. v - o.start \in Nat /\ o.nsubs \in Nat \ {0} /\ o.span \in Nat \ {0} /\ v - o.start < o.span
    BY <1>2, <1>3
  <1>5. ((v - o.start) * o.nsubs) \div o.span \in 0..(o.nsubs - 1)
    BY <1>4, DivBelow
  <1>6. Share(k, v) \in 0..(o.nsubs - 1)
    BY <1>5 DEF Share, o
  <1> QED BY <1>2, <1>6 DEF Least, o

\* The octaves of THistogram are those of the loop.
LEMMA OctavesListed ==
  Octaves = {ForEachOctave[k] : k \in 0..(OctaveCount - 1)}
  <1>1. ASSUME NEW k \in 0..MaxValue, ForEachOctave[k].start < MaxValue
        PROVE  k \in 0..(OctaveCount - 1)
    <2>1. CASE OctaveCount = k
      BY <1>1, <2>1, OctaveCountFacts, HistogramAssumption
    <2>2. CASE OctaveCount < k
      <3>1. ForEachOctave[OctaveCount].end <= ForEachOctave[k].start
        BY <2>2, OctaveCountFacts, OctaveOrder
      <3>2. /\ ForEachOctave[OctaveCount].start <= ForEachOctave[OctaveCount].end
            /\ ForEachOctave[OctaveCount].end \in Nat
            /\ ForEachOctave[k].start \in Nat
        BY OctaveCountFacts, OctaveNumbers
      <3> QED BY <1>1, <3>1, <3>2, OctaveCountFacts, HistogramAssumption
    <2> QED BY <2>1, <2>2, OctaveCountFacts
  <1>2. \A k \in 0..(OctaveCount - 1) : k \in 0..MaxValue /\ ForEachOctave[k].start < MaxValue
    BY OctaveCountFacts
  <1> QED BY <1>1, <1>2 DEF Octaves

\* GetTotalBuckets: the buckets end where the octave past the end would begin.
LEMMA TotalBuckets ==
  /\ GetTotalBuckets = ForEachOctave[OctaveCount].index
  /\ GetTotalBuckets \in Nat /\ GetTotalBuckets >= HdrTill
  <1>1. ForEachOctave[OctaveCount].index \in Nat /\ HdrTill <= ForEachOctave[OctaveCount].index
    BY OctaveCountFacts, OctaveNumbers
  <1>2. CASE OctaveCount = 0
    <2>1. Octaves = {}
      BY <1>2, OctavesListed
    <2>2. ForEachOctave[0].index = HdrTill
      BY OctaveUnfolded DEF Octave
    <2> QED BY <1>1, <1>2, <2>1, <2>2, HistogramAssumption DEF GetTotalBuckets
  <1>3. CASE OctaveCount # 0
    <2> DEFINE n == OctaveCount - 1
    <2>1. n \in 0..MaxValue /\ n \in 0..(OctaveCount - 1)
      BY <1>3, OctaveCountFacts
    <2>2. /\ ForEachOctave[n].end = MaxValue
          /\ ForEachOctave[OctaveCount].index = ForEachOctave[n].index + ForEachOctave[n].nsubs
      BY <1>3, OctaveCountFacts, OctaveStep
    <2>3. ForEachOctave[n] \in Octaves
      BY <2>1, OctavesListed
    <2>4. ASSUME NEW o \in Octaves, o.end = MaxValue PROVE o = ForEachOctave[n]
      <3>1. PICK k \in 0..(OctaveCount - 1) : o = ForEachOctave[k]
        BY OctavesListed
      <3>2. k \in 0..MaxValue /\ (k = n \/ k < n)
        BY OctaveCountFacts
      <3>3. CASE k < n
        <4>1. ForEachOctave[k].end <= ForEachOctave[n].start
          BY <2>1, <3>2, <3>3, OctaveOrder
        <4>2. ForEachOctave[n].start < MaxValue /\ ForEachOctave[n].start \in Nat
          BY <2>1, OctaveCountFacts, OctaveNumbers
        <4> QED BY <2>4, <3>1, <4>1, <4>2, HistogramAssumption
      <3> QED BY <3>1, <3>2, <3>3
    <2>5. (CHOOSE o \in Octaves : o.end = MaxValue) = ForEachOctave[n]
      <3> HIDE DEF n
      <3> QED BY <2>2, <2>3, <2>4
    <2>6. Octaves # {}
      BY <2>3
    <2> HIDE DEF n
    <2>7. GetTotalBuckets = ForEachOctave[n].index + ForEachOctave[n].nsubs
      BY <2>5, <2>6 DEF GetTotalBuckets
    <2> QED BY <1>1, <2>2, <2>7, HistogramAssumption
  <1> QED BY <1>2, <1>3

\* GetBucketIndex in an octave.
LEMMA BucketInOctave ==
  ASSUME NEW v \in Nat, HdrTill <= v, NEW k \in 0..(OctaveCount - 1), Holds(k, v)
  PROVE  GetBucketIndex(v) = ForEachOctave[k].index + Share(k, v)
  <1>1. k \in 0..MaxValue /\ ForEachOctave[k] \in Octaves
    BY OctaveCountFacts, OctavesListed
  <1>2. ASSUME NEW o \in Octaves, o.start <= v, v < o.end PROVE o = ForEachOctave[k]
    <2>1. PICK j \in 0..(OctaveCount - 1) : o = ForEachOctave[j]
      BY OctavesListed
    <2>2. j \in 0..MaxValue /\ Holds(j, v)
      BY <1>2, <2>1, OctaveCountFacts DEF Holds
    <2> QED BY <1>1, <2>1, <2>2, LocatedOnce
  <1>3. (CHOOSE oct \in Octaves : oct.start <= v /\ v < oct.end) = ForEachOctave[k]
    BY <1>1, <1>2 DEF Holds
  <1>4. ~(v < HdrTill)
    BY HistogramAssumption
  <1>5. GetBucketIndex(v) = ForEachOctave[k].index + Least(Share(k, v), ForEachOctave[k].nsubs - 1)
    BY <1>3, <1>4, Zenon DEF GetBucketIndex, Share
  <1> QED BY <1>5, ShareRange

\* The start and size of the consolidation's loop are those of THistogram.
LEMMA RawLoop ==
  ASSUME NEW n \in 0..MaxValue
  PROVE  octaveLoop[n] = [start |-> ForEachOctave[n].start, size |-> ForEachOctave[n].size]
  <1> DEFINE first == [start |-> HdrTill, size |-> HdrTill]
             step(v) == [start |-> Least(v.start + v.size, MaxValue), size |-> 2 * v.size]
             Is(f) == f = [m \in 0..MaxValue |-> IF m = 0 THEN first ELSE step(f[m - 1])]
             g == [m \in 0..MaxValue |->
                     [start |-> ForEachOctave[m].start, size |-> ForEachOctave[m].size]]
  <1>1. g[0] = first /\ 0 \in 0..MaxValue
    BY OctaveUnfolded, HistogramAssumption DEF Octave
  <1>2. ASSUME NEW m \in 0..MaxValue, m # 0 PROVE g[m] = step(g[m - 1])
    <2>1. /\ m - 1 \in 0..MaxValue
          /\ ForEachOctave[m].start = ForEachOctave[m - 1].end
          /\ ForEachOctave[m].size = 2 * ForEachOctave[m - 1].size
      BY <1>2, OctaveStep
    <2>2. ForEachOctave[m - 1].end
             = Least(ForEachOctave[m - 1].start + ForEachOctave[m - 1].size, MaxValue)
      BY <2>1, OctaveParts
    <2> QED BY <2>1, <2>2
  <1>3. Is(g)
    <2>1. \A m \in 0..MaxValue : g[m] = IF m = 0 THEN first ELSE step(g[m - 1])
      <3> HIDE DEF step, first, g
      <3> QED BY <1>1, <1>2
    <2>2. g = [m \in 0..MaxValue |-> g[m]]
      OBVIOUS
    <2> HIDE DEF step, first, g
    <2> QED BY <2>1, <2>2
  <1>4. Is(octaveLoop)
    <2>1. octaveLoop = CHOOSE f : Is(f)
      BY DEF octaveLoop
    <2> HIDE DEF Is
    <2>2. \E f : Is(f)
      BY <1>3
    <2> QED BY <2>1, <2>2
  <1>5. octaveLoop[0] = first
    <2> HIDE DEF step, first
    <2> QED BY <1>1, <1>4
  <1>6. ASSUME NEW m \in 0..MaxValue, m # 0 PROVE octaveLoop[m] = step(octaveLoop[m - 1])
    <2> HIDE DEF step, first
    <2> QED BY <1>4, <1>6
  <1> DEFINE T == {m \in Nat : m <= MaxValue => octaveLoop[m] = g[m]}
  <1> HIDE DEF step, first, g, Is
  <1>7. 0 \in T
    BY <1>1, <1>5
  <1>8. ASSUME NEW m \in Nat, m \in T PROVE m + 1 \in T
    <2> SUFFICES ASSUME m + 1 <= MaxValue PROVE octaveLoop[m + 1] = g[m + 1]
      OBVIOUS
    <2>1. m + 1 \in 0..MaxValue /\ m + 1 # 0 /\ (m + 1) - 1 = m /\ m <= MaxValue
      BY HistogramAssumption
    <2>2. octaveLoop[m + 1] = step(octaveLoop[m]) /\ g[m + 1] = step(g[m])
      BY <1>2, <1>6, <2>1
    <2> QED BY <1>8, <2>1, <2>2
  <1>9. Nat \subseteq T
    <2> HIDE DEF T
    <2> QED BY <1>7, <1>8, SetInduction
  <1>10. octaveLoop[n] = g[n]
    BY <1>9, HistogramAssumption
  <1> QED BY <1>10 DEF g

\* The octaves of the consolidation, counted from 1, are those of THistogram.
LEMMA RawOctaves ==
  /\ Len(octaves) = OctaveCount
  /\ \A n \in 1..OctaveCount :
        /\ octaves[n].start = ForEachOctave[n - 1].start
        /\ octaves[n].end = ForEachOctave[n - 1].end
        /\ octaves[n].span = ForEachOctave[n - 1].span
        /\ octaves[n].nsubs = ForEachOctave[n - 1].nsubs
  <1> DEFINE from(n) == octaveLoop[n].start
             count == CHOOSE n \in 0..MaxValue :
                         from(n) >= MaxValue /\ \A m \in 0..(n - 1) : from(m) < MaxValue
             span(k) == from(k) - from(k - 1)
             entry(k) == [start |-> from(k - 1), end |-> from(k), span |-> span(k),
                          nsubs |-> IF span(k) < SubBucketsPerOctave THEN span(k)
                                    ELSE SubBucketsPerOctave]
  <1>1. \A n \in 0..MaxValue : from(n) = ForEachOctave[n].start
    <2> SUFFICES ASSUME NEW n \in 0..MaxValue PROVE from(n) = ForEachOctave[n].start
      OBVIOUS
    <2>1. octaveLoop[n] = [start |-> ForEachOctave[n].start, size |-> ForEachOctave[n].size]
      BY RawLoop
    <2> QED BY <2>1
  <1>2. count = OctaveCount
    <2> DEFINE Raw(n) == from(n) >= MaxValue /\ \A m \in 0..(n - 1) : from(m) < MaxValue
               Own(n) == /\ ForEachOctave[n].start >= MaxValue
                         /\ \A m \in 0..(n - 1) : ForEachOctave[m].start < MaxValue
    <2>1. \A n \in 0..MaxValue : Raw(n) <=> Own(n)
      <3>1. \A n \in 0..MaxValue : \A m \in 0..(n - 1) : m \in 0..MaxValue
        BY HistogramAssumption
      <3> HIDE DEF from
      <3> QED BY <1>1, <3>1
    <2>2. OctaveCount = CHOOSE n \in 0..MaxValue : Own(n)
      BY DEF OctaveCount
    <2>3. count = CHOOSE n \in 0..MaxValue : Raw(n)
      OBVIOUS
    <2> HIDE DEF Raw, Own, count
    <2> QED BY <2>1, <2>2, <2>3
  <1>3. octaves = [k \in 1..count |-> entry(k)]
    BY DEF octaves
  <1>4. octaves = [k \in 1..OctaveCount |-> entry(k)]
    <2> HIDE DEF count, entry
    <2> QED BY <1>2, <1>3
  <1>5. Len(octaves) = OctaveCount
    <2> HIDE DEF entry
    <2> QED BY <1>4, OctaveCountFacts
  <1>6. ASSUME NEW n \in 1..OctaveCount
        PROVE  /\ octaves[n].start = ForEachOctave[n - 1].start
               /\ octaves[n].end = ForEachOctave[n - 1].end
               /\ octaves[n].span = ForEachOctave[n - 1].span
               /\ octaves[n].nsubs = ForEachOctave[n - 1].nsubs
    <2>1. n \in 0..MaxValue /\ n # 0 /\ n - 1 \in 0..MaxValue /\ n - 1 \in 0..(OctaveCount - 1)
      BY OctaveCountFacts
    <2>2. from(n) = ForEachOctave[n - 1].end /\ from(n - 1) = ForEachOctave[n - 1].start
      BY <1>1, <2>1, OctaveStep
    <2>3. ForEachOctave[n - 1].start < MaxValue
      BY <2>1, OctaveCountFacts
    <2>4. /\ ForEachOctave[n - 1].span = ForEachOctave[n - 1].end - ForEachOctave[n - 1].start
          /\ ForEachOctave[n - 1].nsubs = Least(ForEachOctave[n - 1].span, SubBucketsPerOctave)
          /\ ForEachOctave[n - 1].span \in Nat
      BY <2>1, <2>3, OctaveNumbers
    <2> HIDE DEF from
    <2>5. octaves[n] = entry(n)
      BY <1>4
    <2>6. span(n) = ForEachOctave[n - 1].span
      BY <2>2, <2>4
    <2>7. (IF span(n) < SubBucketsPerOctave THEN span(n) ELSE SubBucketsPerOctave)
             = ForEachOctave[n - 1].nsubs
      BY <2>4, <2>6, HistogramAssumption DEF Least
    <2> HIDE DEF span
    <2> QED BY <2>2, <2>5, <2>6, <2>7
  <1> QED BY <1>5, <1>6

\* So are their first buckets.
LEMMA RawIndex ==
  ASSUME NEW n \in 1..(OctaveCount + 1)
  PROVE  octaveIndex[n] = ForEachOctave[n - 1].index
  <1> DEFINE D == 1..(OctaveCount + 1)
             Is(f) == f = [k \in D |-> IF k = 1 THEN HdrTill ELSE f[k - 1] + octaves[k - 1].nsubs]
             g == [k \in D |-> ForEachOctave[k - 1].index]
  <1>0. \A k \in D : k - 1 \in 0..MaxValue /\ (k # 1 => k - 1 \in D /\ k - 1 \in 1..OctaveCount)
    BY OctaveCountFacts
  <1>1. g[1] = HdrTill /\ 1 \in D
    BY OctaveUnfolded, OctaveCountFacts DEF Octave
  <1>2. ASSUME NEW k \in D, k # 1 PROVE g[k] = g[k - 1] + octaves[k - 1].nsubs
    <2> DEFINE j == k - 1
    <2>1. j \in 0..MaxValue /\ j # 0 /\ j \in D /\ j \in 1..OctaveCount
      BY <1>0, <1>2
    <2>2. ForEachOctave[j].index = ForEachOctave[j - 1].index + ForEachOctave[j - 1].nsubs
      BY <2>1, OctaveStep
    <2>3. octaves[j].nsubs = ForEachOctave[j - 1].nsubs
      BY <2>1, RawOctaves
    <2>4. g[k] = ForEachOctave[j].index /\ g[j] = ForEachOctave[j - 1].index
      BY <2>1
    <2> QED BY <2>2, <2>3, <2>4
  <1>3. Is(g)
    <2>1. \A k \in D : g[k] = IF k = 1 THEN HdrTill ELSE g[k - 1] + octaves[k - 1].nsubs
      <3> HIDE DEF g, D
      <3> QED BY <1>1, <1>2
    <2>2. g = [k \in D |-> g[k]]
      OBVIOUS
    <2> HIDE DEF g, D
    <2> QED BY <2>1, <2>2
  <1>4. Is(octaveIndex)
    <2>1. octaveIndex = CHOOSE f : Is(f)
      <3>1. 1..(Len(octaves) + 1) = D
        BY RawOctaves
      <3> QED BY <3>1 DEF octaveIndex
    <2> HIDE DEF Is
    <2>2. \E f : Is(f)
      BY <1>3
    <2> QED BY <2>1, <2>2
  <1>5. octaveIndex[1] = HdrTill
    <2> HIDE DEF D
    <2> QED BY <1>1, <1>4
  <1>6. ASSUME NEW k \in D, k # 1
        PROVE octaveIndex[k] = octaveIndex[k - 1] + octaves[k - 1].nsubs
    <2> HIDE DEF D
    <2> QED BY <1>4, <1>6
  <1> DEFINE T == {m \in Nat : m + 1 \in D => octaveIndex[m + 1] = g[m + 1]}
  <1> HIDE DEF g, Is
  <1>7. 0 \in T
    BY <1>1, <1>5
  <1>8. ASSUME NEW m \in Nat, m \in T PROVE m + 1 \in T
    <2> SUFFICES ASSUME (m + 1) + 1 \in D PROVE octaveIndex[(m + 1) + 1] = g[(m + 1) + 1]
      OBVIOUS
    <2> DEFINE k == (m + 1) + 1
    <2>1. k \in D /\ k # 1 /\ k - 1 = m + 1 /\ m + 1 \in D
      BY OctaveCountFacts
    <2> HIDE DEF D, k
    <2>2. octaveIndex[k] = octaveIndex[m + 1] + octaves[m + 1].nsubs
          /\ g[k] = g[m + 1] + octaves[m + 1].nsubs
      BY <1>2, <1>6, <2>1
    <2>3. octaveIndex[k] = g[k]
      BY <1>8, <2>1, <2>2
    <2> QED BY <2>3 DEF k
  <1>9. Nat \subseteq T
    <2> HIDE DEF T
    <2> QED BY <1>7, <1>8, SetInduction
  <1>10. n - 1 \in Nat /\ (n - 1) + 1 = n /\ n \in D
    BY OctaveCountFacts
  <1>11. octaveIndex[n] = g[n]
    BY <1>9, <1>10
  <1> QED BY <1>10, <1>11 DEF g

\* Both sides have the same number of buckets.
LEMMA SameBucketCount ==
  ExpectedBucketCount = GetTotalBuckets
  <1>1. OctaveCount \in Nat /\ OctaveCount + 1 \in 1..(OctaveCount + 1) /\ (OctaveCount + 1) - 1 = OctaveCount
    BY OctaveCountFacts
  <1>2. octaveIndex[OctaveCount + 1] = ForEachOctave[OctaveCount].index
    BY <1>1, RawIndex
  <1> QED BY <1>2, RawOctaves, TotalBuckets DEF ExpectedBucketCount

\* Both sides put a value into the same bucket.
LEMMA SameBucket ==
  ASSUME NEW v \in Nat, v < MaxValue
  PROVE  bucketIndex(v) = GetBucketIndex(v)
  <1>0. ~(v >= MaxValue)
    BY HistogramAssumption
  <1>1. CASE v < HdrTill
    BY <1>0, <1>1 DEF bucketIndex, GetBucketIndex
  <1>2. CASE ~(v < HdrTill)
    <2>1. PICK k \in 0..(OctaveCount - 1) : Holds(k, v)
      BY <1>2, Located, HistogramAssumption
    <2> DEFINE n == k + 1
    <2>2. n \in 1..OctaveCount /\ n - 1 = k /\ n \in 1..(OctaveCount + 1) /\ k \in 0..MaxValue
      BY OctaveCountFacts
    <2>3. /\ octaves[n].start = ForEachOctave[k].start /\ octaves[n].end = ForEachOctave[k].end
          /\ octaves[n].span = ForEachOctave[k].span /\ octaves[n].nsubs = ForEachOctave[k].nsubs
          /\ octaveIndex[n] = ForEachOctave[k].index
      BY <2>2, RawOctaves, RawIndex
    <2>4. ASSUME NEW m \in 1..OctaveCount, octaves[m].start <= v, v < octaves[m].end PROVE m = n
      <3>1. m - 1 \in 0..MaxValue
        BY OctaveCountFacts
      <3>2. Holds(m - 1, v)
        BY <2>4, RawOctaves DEF Holds
      <3>3. m - 1 = k
        BY <2>1, <2>2, <3>1, <3>2, LocatedOnce
      <3> QED BY <3>3, OctaveCountFacts
    <2> HIDE DEF n
    <2>5. (CHOOSE m \in 1..OctaveCount : octaves[m].start <= v /\ v < octaves[m].end) = n
      BY <2>1, <2>2, <2>3, <2>4 DEF Holds
    <2>6. (CHOOSE m \in 1..Len(octaves) : octaves[m].start <= v /\ v < octaves[m].end) = n
      BY <2>5, RawOctaves
    <2>7. bucketIndex(v) = octaveIndex[n]
             + Least(((v - octaves[n].start) * octaves[n].nsubs) \div octaves[n].span,
                     octaves[n].nsubs - 1)
      BY <1>0, <1>2, <2>6, Zenon DEF bucketIndex
    <2>8. bucketIndex(v) = ForEachOctave[k].index + Least(Share(k, v), ForEachOctave[k].nsubs - 1)
      BY <2>3, <2>7, Zenon DEF Share
    <2>9. GetBucketIndex(v) = ForEachOctave[k].index + Share(k, v)
      BY <1>2, <2>1, BucketInOctave, HistogramAssumption
    <2> QED BY <2>1, <2>8, <2>9, ShareRange
  <1> QED BY <1>1, <1>2

\* The two implementations of the layout agree: as many buckets, and every
\* value that is not in the overflow goes into the same one, which exists.
THEOREM LayoutAgreement ==
  /\ ExpectedBucketCount = GetTotalBuckets
  /\ \A v \in 0..(MaxValue - 1) : /\ bucketIndex(v) = GetBucketIndex(v)
                                  /\ GetBucketIndex(v) \in 0..(GetTotalBuckets - 1)
  <1> SUFFICES ASSUME NEW v \in 0..(MaxValue - 1)
               PROVE  /\ bucketIndex(v) = GetBucketIndex(v)
                      /\ GetBucketIndex(v) \in 0..(GetTotalBuckets - 1)
    BY SameBucketCount
  <1>0. v \in Nat /\ v < MaxValue
    BY HistogramAssumption
  <1>1. bucketIndex(v) = GetBucketIndex(v)
    BY <1>0, SameBucket
  <1>2. CASE v < HdrTill
    <2>1. GetBucketIndex(v) = v
      BY <1>2 DEF GetBucketIndex
    <2> QED BY <1>0, <1>1, <1>2, <2>1, TotalBuckets, HistogramAssumption
  <1>3. CASE ~(v < HdrTill)
    <2>1. PICK k \in 0..(OctaveCount - 1) : Holds(k, v)
      BY <1>0, <1>3, Located, HistogramAssumption
    <2>2. GetBucketIndex(v) = ForEachOctave[k].index + Share(k, v)
      BY <1>0, <1>3, <2>1, BucketInOctave, HistogramAssumption
    <2>3. Share(k, v) \in 0..(ForEachOctave[k].nsubs - 1)
      BY <1>0, <2>1, ShareRange
    <2>4. k \in 0..MaxValue /\ OctaveCount \in 0..MaxValue /\ k < OctaveCount
      BY OctaveCountFacts
    <2>5. ForEachOctave[k].index + ForEachOctave[k].nsubs <= ForEachOctave[OctaveCount].index
      BY <2>4, OctaveOrder
    <2>6. ForEachOctave[k].index \in Nat /\ ForEachOctave[k].nsubs \in Nat
      BY <2>4, OctaveNumbers
    <2>7. GetTotalBuckets \in Nat /\ GetTotalBuckets = ForEachOctave[OctaveCount].index
      BY TotalBuckets
    <2>8. GetBucketIndex(v) \in 0..(GetTotalBuckets - 1)
      BY <2>2, <2>3, <2>5, <2>6, <2>7
    <2> QED BY <1>1, <2>8
  <1> QED BY <1>2, <1>3

\* A larger value never goes into an earlier bucket.
LEMMA BucketMonotone ==
  ASSUME NEW v \in Nat, NEW w \in Nat, v <= w, w < MaxValue
  PROVE  GetBucketIndex(v) <= GetBucketIndex(w)
  <1>1. CASE w < HdrTill
    <2>1. v < HdrTill
      BY <1>1, HistogramAssumption
    <2> QED BY <1>1, <2>1 DEF GetBucketIndex
  <1>2. CASE ~(w < HdrTill)
    <2>1. PICK k \in 0..(OctaveCount - 1) : Holds(k, w)
      BY <1>2, Located, HistogramAssumption
    <2>2. GetBucketIndex(w) = ForEachOctave[k].index + Share(k, w)
      BY <1>2, <2>1, BucketInOctave, HistogramAssumption
    <2>3. Share(k, w) \in 0..(ForEachOctave[k].nsubs - 1) /\ k \in 0..MaxValue
      BY <2>1, ShareRange, OctaveCountFacts
    <2>4. /\ ForEachOctave[k].index \in Nat /\ HdrTill <= ForEachOctave[k].index
          /\ ForEachOctave[k].nsubs \in Nat /\ ForEachOctave[k].nsubs >= 1
          /\ ForEachOctave[k].start \in Nat /\ ForEachOctave[k].end \in Nat
          /\ ForEachOctave[k].span \in Nat
      BY <2>3, OctaveNumbers
    <2>5. CASE v < HdrTill
      <3>1. GetBucketIndex(v) = v
        BY <2>5 DEF GetBucketIndex
      <3> QED BY <2>2, <2>3, <2>4, <2>5, <3>1, HistogramAssumption
    <2>6. CASE ~(v < HdrTill)
      <3>1. v < MaxValue /\ HdrTill <= v
        BY <2>6, HistogramAssumption
      <3>2. PICK j \in 0..(OctaveCount - 1) : Holds(j, v)
        BY <3>1, Located
      <3>3. GetBucketIndex(v) = ForEachOctave[j].index + Share(j, v)
        BY <3>1, <3>2, BucketInOctave
      <3>4. Share(j, v) \in 0..(ForEachOctave[j].nsubs - 1) /\ j \in 0..MaxValue
        BY <3>2, ShareRange, OctaveCountFacts
      <3>5. /\ ForEachOctave[j].index \in Nat /\ ForEachOctave[j].nsubs \in Nat
            /\ ForEachOctave[j].start \in Nat /\ ForEachOctave[j].end \in Nat
        BY <3>4, OctaveNumbers
      <3>6. CASE j < k
        <4>1. ForEachOctave[j].index + ForEachOctave[j].nsubs <= ForEachOctave[k].index
          BY <2>3, <3>4, <3>6, OctaveOrder
        <4> QED BY <2>2, <2>3, <2>4, <3>3, <3>4, <3>5, <4>1
      <3>7. CASE j = k
        <4> DEFINE o == ForEachOctave[k]
        <4>1. o.start <= v /\ v < o.end /\ o.start <= w /\ w < o.end
          BY <2>1, <3>2, <3>7 DEF Holds
        <4>2. o.span = o.end - o.start
          BY <2>3, OctaveNumbers
        <4>3. o.start \in Nat /\ o.end \in Nat /\ o.span \in Nat /\ o.nsubs \in Nat
          BY <2>4
        <4> HIDE DEF o
        <4>4. v - o.start \in Nat /\ w - o.start \in Nat /\ v - o.start <= w - o.start
              /\ o.span \in Nat \ {0}
          BY <4>1, <4>2, <4>3
        <4>5. ((v - o.start) * o.nsubs) \div o.span <= ((w - o.start) * o.nsubs) \div o.span
          BY <4>3, <4>4, DivMonotone
        <4>6. Share(k, v) <= Share(k, w)
          BY <4>5 DEF Share, o
        <4>7. Share(k, v) \in Nat /\ Share(k, w) \in Nat
          BY <2>3, <3>4, <3>7
        <4> QED BY <2>2, <2>4, <3>3, <3>7, <4>6, <4>7
      <3>8. CASE k < j
        <4>1. ForEachOctave[k].end <= ForEachOctave[j].start
          BY <2>3, <3>4, <3>8, OctaveOrder
        <4> QED BY <2>1, <2>4, <3>2, <3>5, <4>1 DEF Holds
      <3>9. j \in Nat /\ k \in Nat
        BY <2>3, <3>4
      <3> QED BY <3>6, <3>7, <3>8, <3>9
    <2> QED BY <2>5, <2>6
  <1> QED BY <1>1, <1>2

\* The bound reported for the bucket of a value is not below the value, and
\* above it by no more than the width of the bucket.
LEMMA UpperBound ==
  ASSUME NEW v \in Nat, v < MaxValue
  PROVE  LET u == bucketUpperBound(GetBucketIndex(v)) IN
         /\ u \in Nat /\ v <= u
         /\ v < HdrTill => u = v + 1
         /\ \A k \in 0..(OctaveCount - 1) : HdrTill <= v /\ Holds(k, v) =>
               u <= v + ForEachOctave[k].span \div ForEachOctave[k].nsubs
  <1>1. CASE v < HdrTill
    <2>1. GetBucketIndex(v) = v
      BY <1>1 DEF GetBucketIndex
    <2>2. bucketUpperBound(v) = v + 1
      BY <1>1 DEF bucketUpperBound
    <2>3. ~(HdrTill <= v)
      BY <1>1, HistogramAssumption
    <2> QED BY <2>1, <2>2, <2>3
  <1>2. CASE ~(v < HdrTill)
    <2>1. PICK k \in 0..(OctaveCount - 1) : Holds(k, v)
      BY <1>2, Located, HistogramAssumption
    <2> DEFINE o == ForEachOctave[k]
               b == GetBucketIndex(v)
               n == k + 1
    <2>2. b = o.index + Share(k, v)
      BY <1>2, <2>1, BucketInOctave, HistogramAssumption
    <2>3. Share(k, v) \in 0..(o.nsubs - 1) /\ k \in 0..MaxValue /\ o.start < MaxValue
      BY <2>1, ShareRange, OctaveCountFacts
    <2>4. /\ o.index \in Nat /\ HdrTill <= o.index /\ o.nsubs \in Nat /\ o.nsubs >= 1
          /\ o.start \in Nat /\ o.end \in Nat /\ o.span \in Nat /\ o.span >= 1
          /\ o.span = o.end - o.start
      BY <2>3, OctaveNumbers
    <2>5. n \in 1..OctaveCount /\ n - 1 = k /\ n \in 1..(OctaveCount + 1)
          /\ n + 1 \in 1..(OctaveCount + 1) /\ (n + 1) - 1 = n /\ n \in 0..MaxValue /\ n # 0
      BY OctaveCountFacts
    <2>6. /\ octaves[n].start = o.start /\ octaves[n].end = o.end
          /\ octaves[n].span = o.span /\ octaves[n].nsubs = o.nsubs
          /\ octaveIndex[n] = o.index
      BY <2>5, RawOctaves, RawIndex
    <2>7. octaveIndex[n + 1] = o.index + o.nsubs
      <3>1. octaveIndex[n + 1] = ForEachOctave[n].index
        BY <2>5, RawIndex
      <3>2. ForEachOctave[n].index = ForEachOctave[n - 1].index + ForEachOctave[n - 1].nsubs
        BY <2>5, OctaveStep
      <3> QED BY <2>5, <3>1, <3>2
    <2>8. ASSUME NEW m \in 1..OctaveCount, octaveIndex[m] <= b, b < octaveIndex[m + 1]
          PROVE  m = n
      <3>1. m - 1 \in 0..MaxValue /\ m \in 0..MaxValue /\ m + 1 \in 1..(OctaveCount + 1)
            /\ m \in 1..(OctaveCount + 1) /\ (m + 1) - 1 = m
        BY OctaveCountFacts
      <3>2. octaveIndex[m] = ForEachOctave[m - 1].index /\ octaveIndex[m + 1] = ForEachOctave[m].index
        BY <3>1, RawIndex
      <3>3. /\ ForEachOctave[m].index \in Nat /\ ForEachOctave[m - 1].index \in Nat
            /\ ForEachOctave[m - 1].nsubs \in Nat /\ ForEachOctave[m].nsubs \in Nat
        BY <3>1, OctaveNumbers
      <3>4. CASE m - 1 < k
        <4>1. CASE m = k
          BY <2>2, <2>3, <2>4, <2>8, <3>2, <4>1
        <4>2. CASE m < k
          <5>1. ForEachOctave[m].index + ForEachOctave[m].nsubs <= o.index
            BY <2>3, <3>1, <4>2, OctaveOrder
          <5> QED BY <2>2, <2>3, <2>4, <2>8, <3>2, <3>3, <5>1
        <4> QED BY <3>1, <2>3, <3>4, <4>1, <4>2
      <3>5. CASE k < m - 1
        <4>1. o.index + o.nsubs <= ForEachOctave[m - 1].index
          BY <2>3, <3>1, <3>5, OctaveOrder
        <4> QED BY <2>2, <2>3, <2>4, <2>8, <3>2, <3>3, <4>1
      <3>6. m - 1 = k
        BY <2>3, <3>1, <3>4, <3>5
      <3> QED BY <3>6, OctaveCountFacts
    <2> HIDE DEF n, b
    <2>9. octaveIndex[n] <= b /\ b < octaveIndex[n + 1] /\ ~(b < HdrTill) /\ b \in Nat
      <3> HIDE DEF o
      <3> QED BY <2>2, <2>3, <2>4, <2>6, <2>7, HistogramAssumption
    <2>10. (CHOOSE m \in 1..OctaveCount : octaveIndex[m] <= b /\ b < octaveIndex[m + 1]) = n
      BY <2>5, <2>8, <2>9
    <2>11. (CHOOSE m \in 1..Len(octaves) : octaveIndex[m] <= b /\ b < octaveIndex[m + 1]) = n
      BY <2>10, RawOctaves
    <2>12. bucketUpperBound(b)
              = Least(octaves[n].start
                        + ((b - octaveIndex[n] + 1) * octaves[n].span) \div octaves[n].nsubs,
                      octaves[n].end)
      BY <2>9, <2>11, Zenon DEF bucketUpperBound
    <2> DEFINE q == Share(k, v)
               p == ((q + 1) * o.span) \div o.nsubs
    <2>13. b - octaveIndex[n] + 1 = q + 1
      BY <2>2, <2>3, <2>4, <2>6
    <2>14. bucketUpperBound(b) = Least(o.start + p, o.end)
      <3> HIDE DEF q, o
      <3>1. ((b - octaveIndex[n] + 1) * octaves[n].span) \div octaves[n].nsubs = p
        BY <2>6, <2>13, Zenon
      <3> HIDE DEF p
      <3> QED BY <2>6, <2>12, <3>1, Zenon
    <2>15. o.start <= v /\ v < o.end
      BY <2>1 DEF Holds
    <2>16. v - o.start \in Nat /\ o.nsubs \in Nat \ {0} /\ o.span \in Nat \ {0}
      <3> HIDE DEF o
      <3> QED BY <2>4, <2>15
    <2>17. v - o.start <= p /\ p <= (v - o.start) + o.span \div o.nsubs
      <3>1. q = ((v - o.start) * o.nsubs) \div o.span
        BY DEF Share
      <3> HIDE DEF o, q
      <3> QED BY <2>16, <3>1, DivInverse
    <2>18. p \in Nat /\ o.span \div o.nsubs \in Nat
      <3>1. q \in Nat /\ (q + 1) * o.span \in Nat
        BY <2>3, <2>4
      <3> HIDE DEF o, q
      <3> QED BY <2>16, <3>1, DivBounds
    <2>19. /\ bucketUpperBound(b) \in Nat /\ v <= bucketUpperBound(b)
           /\ bucketUpperBound(b) <= v + o.span \div o.nsubs
      <3> DEFINE r == o.span \div o.nsubs
      <3> HIDE DEF o, p, r
      <3>1. r \in Nat /\ p <= (v - o.start) + r
        BY <2>17, <2>18 DEF r
      <3>2. /\ bucketUpperBound(b) \in Nat /\ v <= bucketUpperBound(b)
            /\ bucketUpperBound(b) <= v + r
        BY <2>4, <2>14, <2>15, <2>17, <2>18, <3>1 DEF Least
      <3> QED BY <3>2 DEF r
    <2>20. ASSUME NEW j \in 0..(OctaveCount - 1), Holds(j, v) PROVE j = k
      BY <2>1, <2>20, LocatedOnce, OctaveCountFacts
    <2>21. ~(v < HdrTill)
      BY <1>2
    <2> QED BY <2>19, <2>20, <2>21, Zenon DEF b
  <1> QED BY <1>1, <1>2

-----------------------------------------------------------------------------
(* Histograms of a bag of values.                                          *)

\* B is a bag of elements with values that can be recorded.
Valued(B, val) ==
    Table(B) /\ \A e \in DOMAIN B : B[e] > 0 /\ val[e] \in Nat /\ val[e] < Uint64Max

Weighted(B, val) == [e \in DOMAIN B |-> B[e] * val[e]]
InBucket(U, val, b) == {e \in U : val[e] < MaxValue /\ GetBucketIndex(val[e]) = b}
Beyond(U, val) == {e \in U : val[e] >= MaxValue}

RawType ==
    [Buckets : [0..(GetTotalBuckets - 1) -> Nat], TotalCount : Nat, OverflowCount : Nat,
     MaxRecorded : Nat, MinRecorded : Nat, SumValues : Nat]

Counts(h, B, U, val) ==
    /\ \A b \in 0..(GetTotalBuckets - 1) : h.Buckets[b] = Total(B, InBucket(U, val, b))
    /\ h.OverflowCount = Total(B, Beyond(U, val))
    /\ h.TotalCount = Total(B, U)
    /\ h.SumValues = Total(Weighted(B, val), U)

\* The extremes are attained; none is the minimum where there is no value.
Extremes(h, B, U, val, none) ==
    /\ \A e \in DOMAIN B : e \in U => h.MinRecorded <= val[e] /\ val[e] <= h.MaxRecorded
    /\ \/ \E e \in DOMAIN B : e \in U
       \/ h.MinRecorded = none /\ h.MaxRecorded = 0
    /\ (\E e \in DOMAIN B : e \in U) => /\ \E e \in DOMAIN B : e \in U /\ val[e] = h.MinRecorded
                                        /\ \E e \in DOMAIN B : e \in U /\ val[e] = h.MaxRecorded

\* h holds the values of those elements of the bag that are in U.
Represents(h, B, U, val, none) ==
    h \in RawType /\ Counts(h, B, U, val) /\ Extremes(h, B, U, val, none)

\* The weights of a bag.
LEMMA WeightedTable ==
  ASSUME NEW B, NEW val, Valued(B, val)
  PROVE  /\ Table(B) /\ Table(Weighted(B, val)) /\ DOMAIN Weighted(B, val) = DOMAIN B
         /\ \A e \in DOMAIN B : Weighted(B, val)[e] = B[e] * val[e]
  BY DEF Valued, Table, Weighted

\* The weights rise with the bag.
LEMMA WeightedRaise ==
  ASSUME NEW B, NEW B2, NEW val, Valued(B, val), Valued(B2, val), NEW x, Raises(B2, B, x, 1)
  PROVE  Raises(Weighted(B2, val), Weighted(B, val), x, val[x]) /\ val[x] \in Nat
  <1>1. /\ DOMAIN B2 = DOMAIN B \cup {x}
        /\ \A y \in DOMAIN B : y # x => B2[y] = B[y]
        /\ B2[x] = (IF x \in DOMAIN B THEN B[x] ELSE 0) + 1
    BY DEF Raises
  <1>2. val[x] \in Nat /\ \A e \in DOMAIN B : B[e] \in Nat /\ val[e] \in Nat
    BY <1>1 DEF Valued, Table
  <1>3. Weighted(B2, val)[x] = (IF x \in DOMAIN B THEN Weighted(B, val)[x] ELSE 0) + val[x]
    <2>1. Weighted(B2, val)[x] = B2[x] * val[x]
      BY <1>1 DEF Weighted
    <2>2. CASE x \in DOMAIN B
      <3>1. B2[x] = B[x] + 1 /\ Weighted(B, val)[x] = B[x] * val[x] /\ B[x] \in Nat
        BY <1>1, <1>2, <2>2 DEF Weighted
      <3>2. (B[x] + 1) * val[x] = B[x] * val[x] + val[x]
        BY <1>2, <3>1
      <3> QED BY <2>1, <2>2, <3>1, <3>2
    <2>3. CASE x \notin DOMAIN B
      BY <1>1, <1>2, <2>1, <2>3
    <2> QED BY <2>2, <2>3
  <1>4. \A y \in DOMAIN B : y # x => Weighted(B2, val)[y] = Weighted(B, val)[y]
    BY <1>1 DEF Weighted
  <1>5. DOMAIN Weighted(B2, val) = DOMAIN B \cup {x} /\ DOMAIN Weighted(B, val) = DOMAIN B
    BY <1>1 DEF Weighted
  <1> QED BY <1>2, <1>3, <1>4, <1>5 DEF Raises

\* The new histogram holds nothing.
LEMMA RepresentsNew ==
  ASSUME NEW B, NEW val, Valued(B, val), NEW U, DOMAIN B \cap U = {}
  PROVE  Represents(NewHistogram, B, U, val, Uint64Max)
  <1>1. /\ \A b : DOMAIN B \cap InBucket(U, val, b) = {}
        /\ DOMAIN B \cap Beyond(U, val) = {}
        /\ DOMAIN Weighted(B, val) \cap U = {}
    BY WeightedTable DEF InBucket, Beyond
  <1>2. /\ Total(B, U) = 0 /\ Total(B, Beyond(U, val)) = 0 /\ Total(Weighted(B, val), U) = 0
        /\ \A b : Total(B, InBucket(U, val, b)) = 0
    BY <1>1, TotalType, WeightedTable
  <1>3. NewHistogram \in RawType
    BY HistogramAssumption DEF NewHistogram, RawType
  <1>4. Counts(NewHistogram, B, U, val)
    BY <1>2 DEF NewHistogram, Counts
  <1>5. Extremes(NewHistogram, B, U, val, Uint64Max)
    BY DEF NewHistogram, Extremes
  <1> QED BY <1>3, <1>4, <1>5 DEF Represents

\* RecordValue, part by part.
LEMMA RecordParts ==
  ASSUME NEW h \in RawType, NEW v \in Nat
  PROVE  LET g == RecordValue(h, v) IN
         /\ g \in RawType
         /\ g.TotalCount = h.TotalCount + 1 /\ g.SumValues = h.SumValues + v
         /\ g.MaxRecorded = Greatest(h.MaxRecorded, v)
         /\ g.MinRecorded = Least(h.MinRecorded, v)
         /\ g.OverflowCount = h.OverflowCount + (IF v >= MaxValue THEN 1 ELSE 0)
         /\ \A b \in 0..(GetTotalBuckets - 1) :
               g.Buckets[b] = h.Buckets[b]
                                + (IF v < MaxValue /\ GetBucketIndex(v) = b THEN 1 ELSE 0)
  <1> DEFINE g == RecordValue(h, v)
             i0 == GetBucketIndex(v)
             up == IF v >= MaxValue THEN h.Buckets ELSE Increment(h.Buckets, i0)
  <1>1. g = [Buckets |-> up, TotalCount |-> h.TotalCount + 1,
             OverflowCount |-> IF v >= MaxValue THEN h.OverflowCount + 1 ELSE h.OverflowCount,
             MaxRecorded |-> Greatest(h.MaxRecorded, v),
             MinRecorded |-> Least(h.MinRecorded, v),
             SumValues |-> h.SumValues + v]
    <2>1. h = [Buckets |-> h.Buckets, TotalCount |-> h.TotalCount,
               OverflowCount |-> h.OverflowCount, MaxRecorded |-> h.MaxRecorded,
               MinRecorded |-> h.MinRecorded, SumValues |-> h.SumValues]
      BY DEF RawType
    <2>2. g = [h EXCEPT !.TotalCount = h.TotalCount + 1,
                        !.MaxRecorded = Greatest(h.MaxRecorded, v),
                        !.MinRecorded = Least(h.MinRecorded, v),
                        !.SumValues = h.SumValues + v,
                        !.OverflowCount = IF v >= MaxValue THEN h.OverflowCount + 1
                                          ELSE h.OverflowCount,
                        !.Buckets = up]
      BY <2>1 DEF RecordValue
    <2> HIDE DEF up, g
    <2> QED BY <2>1, <2>2
  <1>2. v < MaxValue => i0 \in 0..(GetTotalBuckets - 1)
    BY LayoutAgreement, HistogramAssumption
  <1> HIDE DEF i0
  <1>3. h.Buckets \in [0..(GetTotalBuckets - 1) -> Nat]
    BY DEF RawType
  <1>4. up \in [0..(GetTotalBuckets - 1) -> Nat]
    <2>1. CASE v >= MaxValue
      BY <1>3, <2>1
    <2>2. CASE ~(v >= MaxValue)
      <3>1. i0 \in 0..(GetTotalBuckets - 1) /\ h.Buckets[i0] + 1 \in Nat
        <4>1. i0 \in 0..(GetTotalBuckets - 1)
          BY <1>2, <2>2, HistogramAssumption
        <4>2. h.Buckets[i0] \in Nat
          BY <1>3, <4>1
        <4> QED BY <4>1, <4>2
      <3> QED BY <1>3, <2>2, <3>1 DEF Increment
    <2> QED BY <2>1, <2>2
  <1>5. \A b \in 0..(GetTotalBuckets - 1) :
           up[b] = h.Buckets[b] + (IF v < MaxValue /\ i0 = b THEN 1 ELSE 0)
    <2> SUFFICES ASSUME NEW b \in 0..(GetTotalBuckets - 1)
                 PROVE  up[b] = h.Buckets[b] + (IF v < MaxValue /\ i0 = b THEN 1 ELSE 0)
      OBVIOUS
    <2>1. h.Buckets[b] \in Nat
      BY <1>3
    <2>2. CASE v >= MaxValue
      BY <2>1, <2>2, HistogramAssumption
    <2>3. CASE ~(v >= MaxValue)
      <3>1. v < MaxValue
        BY <2>3, HistogramAssumption
      <3>2. up = [h.Buckets EXCEPT ![i0] = @ + 1]
        BY <2>3 DEF Increment
      <3> HIDE DEF up
      <3>3. CASE i0 = b
        BY <1>3, <3>1, <3>2, <3>3
      <3>4. CASE i0 # b
        <4>1. up[b] = h.Buckets[b]
          BY <1>3, <3>2, <3>4
        <4> QED BY <2>1, <3>4, <4>1
      <3> QED BY <3>3, <3>4
    <2> QED BY <2>2, <2>3
  <1>6. /\ h.TotalCount \in Nat /\ h.OverflowCount \in Nat /\ h.SumValues \in Nat
        /\ h.MaxRecorded \in Nat /\ h.MinRecorded \in Nat
    BY DEF RawType
  <1>7. Greatest(h.MaxRecorded, v) \in Nat /\ Least(h.MinRecorded, v) \in Nat
    BY <1>6 DEF Greatest, Least
  <1> HIDE DEF up
  <1>8. (IF v >= MaxValue THEN h.OverflowCount + 1 ELSE h.OverflowCount)
           = h.OverflowCount + (IF v >= MaxValue THEN 1 ELSE 0)
    BY <1>6
  <1>9. g \in RawType
    BY <1>1, <1>4, <1>6, <1>7 DEF RawType
  <1>10. /\ g.TotalCount = h.TotalCount + 1 /\ g.SumValues = h.SumValues + v
         /\ g.MaxRecorded = Greatest(h.MaxRecorded, v) /\ g.MinRecorded = Least(h.MinRecorded, v)
         /\ g.OverflowCount = h.OverflowCount + (IF v >= MaxValue THEN 1 ELSE 0)
         /\ g.Buckets = up
    BY <1>1, <1>8
  <1> HIDE DEF g
  <1>11. \A b \in 0..(GetTotalBuckets - 1) :
            g.Buckets[b] = h.Buckets[b] + (IF v < MaxValue /\ GetBucketIndex(v) = b THEN 1 ELSE 0)
    BY <1>5, <1>10 DEF i0
  <1> QED BY <1>9, <1>10, <1>11 DEF g

\* RecordValue adds one element of the set to what a histogram holds.
LEMMA RepresentsRecord ==
  ASSUME NEW B, NEW B2, NEW val, Valued(B, val), Valued(B2, val), NEW x, Raises(B2, B, x, 1),
         NEW U, x \in U, NEW h, Represents(h, B, U, val, Uint64Max)
  PROVE  Represents(RecordValue(h, val[x]), B2, U, val, Uint64Max)
  <1> DEFINE v == val[x]
             g == RecordValue(h, v)
  <1>1. v \in Nat /\ v < Uint64Max /\ h \in RawType /\ x \in DOMAIN B2
    BY DEF Valued, Raises, Represents
  <1>2. /\ g \in RawType
        /\ g.TotalCount = h.TotalCount + 1 /\ g.SumValues = h.SumValues + v
        /\ g.MaxRecorded = Greatest(h.MaxRecorded, v)
        /\ g.MinRecorded = Least(h.MinRecorded, v)
        /\ g.OverflowCount = h.OverflowCount + (IF v >= MaxValue THEN 1 ELSE 0)
        /\ \A b \in 0..(GetTotalBuckets - 1) :
              g.Buckets[b] = h.Buckets[b]
                               + (IF v < MaxValue /\ GetBucketIndex(v) = b THEN 1 ELSE 0)
    <2> HIDE DEF v
    <2> QED BY <1>1, RecordParts
  <1>3. Table(B) /\ Table(Weighted(B, val)) /\ Raises(Weighted(B2, val), Weighted(B, val), x, v)
    BY WeightedTable, WeightedRaise
  <1>4. \A W : Total(B2, W) = Total(B, W) + (IF x \in W THEN 1 ELSE 0)
    BY <1>3, TotalRaise
  <1>5. Total(Weighted(B2, val), U) = Total(Weighted(B, val), U) + v
    <2>1. Total(Weighted(B2, val), U) = Total(Weighted(B, val), U) + (IF x \in U THEN v ELSE 0)
      <3> HIDE DEF v
      <3> QED BY <1>1, <1>3, TotalRaise
    <2> QED BY <2>1
  <1>6. /\ x \in Beyond(U, val) <=> v >= MaxValue
        /\ \A b : x \in InBucket(U, val, b) <=> v < MaxValue /\ GetBucketIndex(v) = b
    BY DEF Beyond, InBucket
  <1>7. Counts(h, B, U, val) /\ Extremes(h, B, U, val, Uint64Max)
    BY DEF Represents
  <1> HIDE DEF v, g
  <1>8. Counts(g, B2, U, val)
    BY <1>2, <1>4, <1>5, <1>6, <1>7 DEF Counts
  <1>9. Extremes(g, B2, U, val, Uint64Max)
    <2>1. h.MinRecorded \in Nat /\ h.MaxRecorded \in Nat /\ \A e \in DOMAIN B : val[e] \in Nat
      BY <1>1 DEF RawType, Valued
    <2>2. DOMAIN B2 = DOMAIN B \cup {x}
      BY DEF Raises
    <2>3. ASSUME NEW e \in DOMAIN B2, e \in U PROVE g.MinRecorded <= val[e] /\ val[e] <= g.MaxRecorded
      <3>1. CASE e = x
        BY <1>1, <1>2, <2>1, <3>1 DEF Least, Greatest, v
      <3>2. CASE e # x
        <4>1. val[e] \in Nat /\ h.MinRecorded <= val[e] /\ val[e] <= h.MaxRecorded
          BY <1>7, <2>1, <2>2, <2>3, <3>2 DEF Extremes
        <4> QED BY <1>1, <1>2, <2>1, <4>1 DEF Least, Greatest
      <3> QED BY <3>1, <3>2
    <2>4. \E e \in DOMAIN B2 : e \in U /\ val[e] = g.MinRecorded
      <3>1. CASE g.MinRecorded = v
        BY <1>1, <3>1 DEF v
      <3>2. CASE g.MinRecorded # v
        <4>1. g.MinRecorded = h.MinRecorded /\ h.MinRecorded # Uint64Max
          BY <1>1, <1>2, <2>1, <3>2, HistogramAssumption DEF Least
        <4>2. \E e \in DOMAIN B : e \in U /\ val[e] = h.MinRecorded
          BY <1>7, <4>1 DEF Extremes
        <4> QED BY <2>2, <4>1, <4>2
      <3> QED BY <3>1, <3>2
    <2>5. \E e \in DOMAIN B2 : e \in U /\ val[e] = g.MaxRecorded
      <3>1. CASE g.MaxRecorded = v
        BY <1>1, <3>1 DEF v
      <3>2. CASE g.MaxRecorded # v
        <4>1. g.MaxRecorded = h.MaxRecorded /\ h.MaxRecorded # 0
          BY <1>1, <1>2, <2>1, <3>2 DEF Greatest
        <4>2. \E e \in DOMAIN B : e \in U /\ val[e] = h.MaxRecorded
          BY <1>7, <4>1 DEF Extremes
        <4> QED BY <2>2, <4>1, <4>2
      <3> QED BY <3>1, <3>2
    <2> QED BY <1>1, <2>3, <2>4, <2>5 DEF Extremes
  <1>10. Represents(g, B2, U, val, Uint64Max)
    BY <1>2, <1>8, <1>9 DEF Represents
  <1> QED BY <1>10 DEF g, v

\* A histogram is not disturbed by what happens outside its set.
LEMMA RepresentsOther ==
  ASSUME NEW B, NEW B2, NEW val, Valued(B, val), Valued(B2, val), NEW x, Raises(B2, B, x, 1),
         NEW U, x \notin U, NEW h, NEW none, Represents(h, B, U, val, none)
  PROVE  Represents(h, B2, U, val, none)
  <1>1. Table(B) /\ Table(Weighted(B, val)) /\ Raises(Weighted(B2, val), Weighted(B, val), x, val[x])
        /\ val[x] \in Nat
    BY WeightedTable, WeightedRaise
  <1>2. ASSUME NEW W, x \notin W PROVE Total(B2, W) = Total(B, W)
    <2>1. Total(B2, W) = Total(B, W) + (IF x \in W THEN 1 ELSE 0) /\ Total(B, W) \in Nat
      BY <1>1, TotalRaise, TotalType
    <2> QED BY <1>2, <2>1
  <1>3. Total(Weighted(B2, val), U) = Total(Weighted(B, val), U)
    <2>1. /\ Total(Weighted(B2, val), U)
                = Total(Weighted(B, val), U) + (IF x \in U THEN val[x] ELSE 0)
          /\ Total(Weighted(B, val), U) \in Nat
      BY <1>1, TotalRaise, TotalType
    <2> QED BY <2>1
  <1>4. x \notin Beyond(U, val) /\ \A b : x \notin InBucket(U, val, b)
    BY DEF Beyond, InBucket
  <1>5. h \in RawType /\ Counts(h, B, U, val) /\ Extremes(h, B, U, val, none)
    BY DEF Represents
  <1>6. Counts(h, B2, U, val)
    <2>1. /\ Total(B2, U) = Total(B, U) /\ Total(B2, Beyond(U, val)) = Total(B, Beyond(U, val))
          /\ \A b : Total(B2, InBucket(U, val, b)) = Total(B, InBucket(U, val, b))
      BY <1>2, <1>4
    <2> QED BY <1>3, <1>5, <2>1 DEF Counts
  <1>7. Extremes(h, B2, U, val, none)
    <2>1. \A e : e \in DOMAIN B2 /\ e \in U <=> e \in DOMAIN B /\ e \in U
      BY DEF Raises
    <2> QED BY <1>5, <2>1 DEF Extremes
  <1> QED BY <1>5, <1>6, <1>7 DEF Represents

\* Only the elements of the bag matter.
LEMMA RepresentsSame ==
  ASSUME NEW B, NEW val, Valued(B, val), NEW U, NEW W, \A e \in DOMAIN B : e \in U <=> e \in W,
         NEW h, NEW none, Represents(h, B, U, val, none)
  PROVE  Represents(h, B, W, val, none)
  <1>1. /\ Total(B, U) = Total(B, W) /\ Total(B, Beyond(U, val)) = Total(B, Beyond(W, val))
        /\ Total(Weighted(B, val), U) = Total(Weighted(B, val), W)
    <2>1. \A e \in DOMAIN B : e \in Beyond(U, val) <=> e \in Beyond(W, val)
      BY DEF Beyond
    <2> QED BY <2>1, TotalSame, WeightedTable
  <1>2. ASSUME NEW b PROVE Total(B, InBucket(U, val, b)) = Total(B, InBucket(W, val, b))
    <2>1. \A e \in DOMAIN B : e \in InBucket(U, val, b) <=> e \in InBucket(W, val, b)
      BY DEF InBucket
    <2> QED BY <2>1, TotalSame
  <1>3. h \in RawType /\ Counts(h, B, U, val) /\ Extremes(h, B, U, val, none)
    BY DEF Represents
  <1>4. Counts(h, B, W, val)
    BY <1>1, <1>2, <1>3 DEF Counts
  <1>5. Extremes(h, B, W, val, none)
    BY <1>3 DEF Extremes
  <1> QED BY <1>3, <1>4, <1>5 DEF Represents

\* The count of a histogram tells whether it holds anything.
LEMMA RepresentsEmpty ==
  ASSUME NEW B, NEW val, Valued(B, val), NEW U, NEW h, NEW none, Represents(h, B, U, val, none)
  PROVE  /\ h.TotalCount \in Nat /\ h.MinRecorded \in Nat /\ h.MaxRecorded \in Nat
         /\ h.TotalCount = 0 <=> DOMAIN B \cap U = {}
         /\ h.TotalCount = 0 => h.MinRecorded = none /\ h.MaxRecorded = 0
  <1>1. /\ h \in RawType /\ h.TotalCount = Total(B, U)
        /\ Extremes(h, B, U, val, none) /\ Table(B)
    BY DEF Represents, Counts, Valued
  <1>2. DOMAIN B \cap U = {} => Total(B, U) = 0
    BY <1>1, TotalType
  <1>3. ASSUME NEW e \in DOMAIN B \cap U PROVE Total(B, U) > 0
    <2>1. e \in DOMAIN B /\ e \in U /\ B[e] > 0
      BY DEF Valued
    <2> QED BY <1>1, <2>1, TotalPositive
  <1>4. /\ h.TotalCount \in Nat /\ h.MinRecorded \in Nat /\ h.MaxRecorded \in Nat
    BY <1>1 DEF RawType
  <1>5. h.TotalCount = 0 <=> DOMAIN B \cap U = {}
    BY <1>1, <1>2, <1>3, <1>4
  <1>6. DOMAIN B \cap U = {} => h.MinRecorded = none /\ h.MaxRecorded = 0
    BY <1>1 DEF Extremes
  <1> QED BY <1>4, <1>5, <1>6

\* s adds the counts of h and g up.
AddsUp(s, h, g) ==
    /\ s.Buckets \in [0..(GetTotalBuckets - 1) -> Nat]
    /\ \A b \in 0..(GetTotalBuckets - 1) : s.Buckets[b] = h.Buckets[b] + g.Buckets[b]
    /\ s.TotalCount = h.TotalCount + g.TotalCount
    /\ s.OverflowCount = h.OverflowCount + g.OverflowCount
    /\ s.SumValues = h.SumValues + g.SumValues

\* Then it has the counts of the union of their sets.
LEMMA CountsUnion ==
  ASSUME NEW B, NEW val, Valued(B, val), NEW U, NEW W, \A e \in DOMAIN B : ~(e \in U /\ e \in W),
         NEW h, NEW g, NEW s, Counts(h, B, U, val), Counts(g, B, W, val), AddsUp(s, h, g)
  PROVE  Counts(s, B, U \cup W, val)
  <1>1. Table(B) /\ Table(Weighted(B, val)) /\ DOMAIN Weighted(B, val) = DOMAIN B
    BY WeightedTable
  <1>2. /\ Total(B, U \cup W) = Total(B, U) + Total(B, W)
        /\ Total(Weighted(B, val), U \cup W) = Total(Weighted(B, val), U) + Total(Weighted(B, val), W)
    BY <1>1, TotalUnion
  <1>3. Total(B, Beyond(U \cup W, val)) = Total(B, Beyond(U, val)) + Total(B, Beyond(W, val))
    <2>1. Beyond(U \cup W, val) = Beyond(U, val) \cup Beyond(W, val)
      BY DEF Beyond
    <2>2. \A e \in DOMAIN B : ~(e \in Beyond(U, val) /\ e \in Beyond(W, val))
      BY DEF Beyond
    <2>3. Total(B, Beyond(U, val) \cup Beyond(W, val)) = Total(B, Beyond(U, val)) + Total(B, Beyond(W, val))
      BY <1>1, <2>2, TotalUnion
    <2> QED BY <2>1, <2>3, Zenon
  <1>4. ASSUME NEW b
        PROVE  Total(B, InBucket(U \cup W, val, b))
                  = Total(B, InBucket(U, val, b)) + Total(B, InBucket(W, val, b))
    <2>1. InBucket(U \cup W, val, b) = InBucket(U, val, b) \cup InBucket(W, val, b)
      BY DEF InBucket
    <2>2. \A e \in DOMAIN B : ~(e \in InBucket(U, val, b) /\ e \in InBucket(W, val, b))
      BY DEF InBucket
    <2>3. Total(B, InBucket(U, val, b) \cup InBucket(W, val, b))
             = Total(B, InBucket(U, val, b)) + Total(B, InBucket(W, val, b))
      BY <1>1, <2>2, TotalUnion
    <2> QED BY <2>1, <2>3, Zenon
  <1> QED BY <1>2, <1>3, <1>4 DEF Counts, AddsUp

\* Two histograms have buckets that can be added.
LEMMA BucketsAddUp ==
  ASSUME NEW h \in RawType, NEW g \in RawType, NEW D, D = 0..(GetTotalBuckets - 1)
  PROVE  [b \in D |-> h.Buckets[b] + g.Buckets[b]] \in [0..(GetTotalBuckets - 1) -> Nat]
  <1>1. h.Buckets \in [D -> Nat] /\ g.Buckets \in [D -> Nat]
    BY DEF RawType
  <1>2. ASSUME NEW b \in D PROVE h.Buckets[b] + g.Buckets[b] \in Nat
    <2> DEFINE x == h.Buckets[b]
               y == g.Buckets[b]
    <2>1. x \in Nat
      BY <1>1
    <2>2. y \in Nat
      BY <1>1
    <2> HIDE DEF x, y
    <2>3. x + y \in Nat
      BY <2>1, <2>2
    <2> QED BY <2>3 DEF x, y
  <1> QED BY <1>2

\* Add joins what two histograms hold.
LEMMA RepresentsAdd ==
  ASSUME NEW B, NEW val, Valued(B, val), NEW U, NEW W, \A e \in DOMAIN B : ~(e \in U /\ e \in W),
         NEW h, NEW g, Represents(h, B, U, val, Uint64Max), Represents(g, B, W, val, Uint64Max)
  PROVE  Represents(Add(h, g), B, U \cup W, val, Uint64Max)
  <1> DEFINE s == Add(h, g)
  <1>1. /\ h \in RawType /\ Counts(h, B, U, val) /\ Extremes(h, B, U, val, Uint64Max)
        /\ g \in RawType /\ Counts(g, B, W, val) /\ Extremes(g, B, W, val, Uint64Max)
    BY DEF Represents
  <1>2. /\ h.TotalCount \in Nat /\ h.OverflowCount \in Nat /\ h.SumValues \in Nat
        /\ h.MaxRecorded \in Nat /\ h.MinRecorded \in Nat
        /\ g.TotalCount \in Nat /\ g.OverflowCount \in Nat /\ g.SumValues \in Nat
        /\ g.MaxRecorded \in Nat /\ g.MinRecorded \in Nat
    BY <1>1 DEF RawType
  <1>D. DOMAIN h.Buckets = 0..(GetTotalBuckets - 1)
    BY <1>1 DEF RawType
  <1> DEFINE sum == [b \in DOMAIN h.Buckets |-> h.Buckets[b] + g.Buckets[b]]
             hi == Greatest(h.MaxRecorded, g.MaxRecorded)
             lo == IF g.TotalCount > 0 THEN Least(h.MinRecorded, g.MinRecorded) ELSE h.MinRecorded
  <1>3. sum \in [0..(GetTotalBuckets - 1) -> Nat]
    BY <1>1, <1>D, BucketsAddUp
  <1>4. /\ s.Buckets = sum /\ s.TotalCount = h.TotalCount + g.TotalCount
        /\ s.OverflowCount = h.OverflowCount + g.OverflowCount
        /\ s.SumValues = h.SumValues + g.SumValues
        /\ s.MaxRecorded = hi /\ s.MinRecorded = lo
    BY DEF Add
  <1>5. hi \in Nat /\ lo \in Nat
    BY <1>2 DEF Greatest, Least
  <1>6. s \in RawType
    <2>1. s = [Buckets |-> sum, TotalCount |-> h.TotalCount + g.TotalCount,
               OverflowCount |-> h.OverflowCount + g.OverflowCount,
               MaxRecorded |-> hi, MinRecorded |-> lo,
               SumValues |-> h.SumValues + g.SumValues]
      BY DEF Add
    <2>2. /\ h.TotalCount + g.TotalCount \in Nat /\ h.OverflowCount + g.OverflowCount \in Nat
          /\ h.SumValues + g.SumValues \in Nat
      BY <1>2
    <2> DEFINE t == h.TotalCount + g.TotalCount
               o == h.OverflowCount + g.OverflowCount
               v == h.SumValues + g.SumValues
    <2> HIDE DEF sum, hi, lo, s, t, o, v
    <2>3. s = [Buckets |-> sum, TotalCount |-> t, OverflowCount |-> o,
               MaxRecorded |-> hi, MinRecorded |-> lo, SumValues |-> v]
      BY <2>1 DEF t, o, v
    <2>4. t \in Nat /\ o \in Nat /\ v \in Nat
      BY <2>2 DEF t, o, v
    <2> QED BY <1>3, <1>5, <2>3, <2>4 DEF RawType
  <1>7. AddsUp(s, h, g)
    <2>1. \A b \in 0..(GetTotalBuckets - 1) : sum[b] = h.Buckets[b] + g.Buckets[b]
      BY <1>D
    <2> HIDE DEF sum, s, hi, lo
    <2> QED BY <1>3, <1>4, <2>1 DEF AddsUp
  <1> HIDE DEF s
  <1>8. Counts(s, B, U \cup W, val)
    BY <1>1, <1>7, CountsUnion
  <1>9. Extremes(s, B, U \cup W, val, Uint64Max)
    <2>0. \A e \in DOMAIN B : val[e] \in Nat /\ val[e] < Uint64Max
      BY DEF Valued
    <2>1. /\ g.TotalCount = 0 <=> DOMAIN B \cap W = {}
          /\ g.TotalCount = 0 => g.MinRecorded = Uint64Max /\ g.MaxRecorded = 0
      BY RepresentsEmpty
    <2>2. /\ h.TotalCount = 0 <=> DOMAIN B \cap U = {}
          /\ h.TotalCount = 0 => h.MinRecorded = Uint64Max /\ h.MaxRecorded = 0
      BY RepresentsEmpty
    <2>3. s.MaxRecorded = hi /\ s.MinRecorded = lo
      BY <1>4
    <2>4. ASSUME NEW e \in DOMAIN B, e \in U \cup W
          PROVE  s.MinRecorded <= val[e] /\ val[e] <= s.MaxRecorded
      <3>1. CASE e \in U
        <4>1. h.MinRecorded <= val[e] /\ val[e] <= h.MaxRecorded /\ val[e] \in Nat
          BY <1>1, <2>0, <3>1 DEF Extremes
        <4> QED BY <1>2, <2>3, <4>1 DEF Least, Greatest
      <3>2. CASE e \in W
        <4>1. g.MinRecorded <= val[e] /\ val[e] <= g.MaxRecorded /\ val[e] \in Nat
          BY <1>1, <2>0, <3>2 DEF Extremes
        <4>2. g.TotalCount # 0
          BY <2>1, <3>2
        <4> QED BY <1>2, <2>3, <4>1, <4>2 DEF Least, Greatest
      <3> QED BY <2>4, <3>1, <3>2
    <2>5. CASE h.TotalCount = 0
      <3>1. lo = g.MinRecorded \/ (g.TotalCount = 0 /\ lo = Uint64Max)
        <4>1. g.TotalCount # 0 => g.MinRecorded < Uint64Max
          <5>1. ASSUME g.TotalCount # 0 PROVE g.MinRecorded < Uint64Max
            <6>1. \E e \in DOMAIN B : e \in W
              BY <2>1, <5>1
            <6>2. \E e \in DOMAIN B : e \in W /\ val[e] = g.MinRecorded
              BY <1>1, <6>1 DEF Extremes
            <6> QED BY <2>0, <6>2
          <5> QED BY <5>1
        <4> QED BY <1>2, <2>2, <2>5, <4>1, HistogramAssumption DEF Least
      <3>2. hi = g.MaxRecorded
        BY <1>2, <2>2, <2>5 DEF Greatest
      <3>3. \A e \in DOMAIN B : e \in U \cup W <=> e \in W
        BY <2>2, <2>5
      <3>4. lo = g.MinRecorded
        BY <2>1, <3>1
      <3> HIDE DEF hi, lo
      <3> QED BY <1>1, <2>3, <2>4, <3>2, <3>3, <3>4 DEF Extremes
    <2>6. CASE h.TotalCount # 0
      <3>1. \E e \in DOMAIN B : e \in U
        BY <2>2, <2>6
      <3>2. /\ \E e \in DOMAIN B : e \in U /\ val[e] = h.MinRecorded
            /\ \E e \in DOMAIN B : e \in U /\ val[e] = h.MaxRecorded
        BY <1>1, <3>1 DEF Extremes
      <3>3. \E e \in DOMAIN B : e \in U \cup W /\ val[e] = s.MinRecorded
        <4>1. CASE lo = h.MinRecorded
          BY <2>3, <3>2, <4>1
        <4>2. CASE lo # h.MinRecorded
          <5>1. lo = g.MinRecorded /\ g.TotalCount # 0
            BY <1>2, <4>2 DEF Least
          <5>2. \E e \in DOMAIN B : e \in W
            BY <2>1, <5>1
          <5>3. \E e \in DOMAIN B : e \in W /\ val[e] = g.MinRecorded
            BY <1>1, <5>2 DEF Extremes
          <5> QED BY <2>3, <5>1, <5>3
        <4> QED BY <4>1, <4>2
      <3>4. \E e \in DOMAIN B : e \in U \cup W /\ val[e] = s.MaxRecorded
        <4>1. CASE hi = h.MaxRecorded
          BY <2>3, <3>2, <4>1
        <4>2. CASE hi # h.MaxRecorded
          <5>1. hi = g.MaxRecorded /\ g.TotalCount # 0
            BY <1>2, <2>1, <4>2 DEF Greatest
          <5>2. \E e \in DOMAIN B : e \in W
            BY <2>1, <5>1
          <5>3. \E e \in DOMAIN B : e \in W /\ val[e] = g.MaxRecorded
            BY <1>1, <5>2 DEF Extremes
          <5> QED BY <2>3, <5>1, <5>3
        <4> QED BY <4>1, <4>2
      <3>5. \E e \in DOMAIN B : e \in U \cup W
        BY <3>1
      <3> HIDE DEF hi, lo
      <3> QED BY <2>4, <3>3, <3>4, <3>5 DEF Extremes
    <2> QED BY <2>5, <2>6
  <1>10. Represents(s, B, U \cup W, val, Uint64Max)
    BY <1>6, <1>8, <1>9 DEF Represents, s
  <1> QED BY <1>10 DEF s

\* result.json has the same values, and no minimum of nothing.
LEMMA RepresentsRaw ==
  ASSUME NEW B, NEW val, Valued(B, val), NEW U, NEW h, Represents(h, B, U, val, Uint64Max)
  PROVE  Represents(HistogramRaw(h), B, U, val, 0)
  <1> DEFINE r == HistogramRaw(h)
             lo == IF h.TotalCount = 0 THEN 0 ELSE h.MinRecorded
  <1>1. h \in RawType /\ Counts(h, B, U, val) /\ Extremes(h, B, U, val, Uint64Max)
    BY DEF Represents
  <1>2. /\ r.Buckets = h.Buckets /\ r.TotalCount = h.TotalCount
        /\ r.OverflowCount = h.OverflowCount /\ r.SumValues = h.SumValues
        /\ r.MaxRecorded = h.MaxRecorded /\ r.MinRecorded = lo
    BY <1>1 DEF HistogramRaw, RawType
  <1>3. r \in RawType
    <2>1. h.MinRecorded \in Nat
      BY <1>1 DEF RawType
    <2>2. lo \in Nat
      BY <2>1
    <2>3. r = [h EXCEPT !.MinRecorded = lo]
      BY DEF HistogramRaw
    <2> HIDE DEF lo, r
    <2> QED BY <1>1, <2>2, <2>3 DEF RawType
  <1>4. /\ h.TotalCount = 0 <=> DOMAIN B \cap U = {}
        /\ h.TotalCount = 0 => h.MaxRecorded = 0
    BY RepresentsEmpty
  <1> HIDE DEF r
  <1>5. Counts(r, B, U, val)
    BY <1>1, <1>2 DEF Counts
  <1>6. Extremes(r, B, U, val, 0)
    <2>1. CASE h.TotalCount = 0
      <3>1. \A e \in DOMAIN B : e \notin U
        BY <1>4, <2>1
      <3> QED BY <1>2, <1>4, <2>1, <3>1 DEF Extremes
    <2>2. CASE h.TotalCount # 0
      <3>1. \E e \in DOMAIN B : e \in U
        BY <1>4, <2>2
      <3> QED BY <1>1, <1>2, <2>2, <3>1 DEF Extremes
    <2> QED BY <2>1, <2>2
  <1>7. Represents(r, B, U, val, 0)
    BY <1>3, <1>5, <1>6 DEF Represents
  <1> QED BY <1>7 DEF r

\* Merge joins what two histograms of result.json hold.
LEMMA RepresentsMerge ==
  ASSUME NEW B, NEW val, Valued(B, val), NEW U, NEW W, \A e \in DOMAIN B : ~(e \in U /\ e \in W),
         NEW h, NEW g, Represents(h, B, U, val, 0), Represents(g, B, W, val, 0)
  PROVE  Represents(Merge(h, g), B, U \cup W, val, 0)
  <1> DEFINE s == Merge(h, g)
             lo == IF g.TotalCount > 0 /\ (h.TotalCount = 0 \/ g.MinRecorded < h.MinRecorded)
                   THEN g.MinRecorded ELSE h.MinRecorded
             hi == IF g.TotalCount > 0 /\ (h.TotalCount = 0 \/ g.MaxRecorded > h.MaxRecorded)
                   THEN g.MaxRecorded ELSE h.MaxRecorded
             sum == [b \in DOMAIN g.Buckets |-> h.Buckets[b] + g.Buckets[b]]
  <1>1. /\ h \in RawType /\ Counts(h, B, U, val) /\ Extremes(h, B, U, val, 0)
        /\ g \in RawType /\ Counts(g, B, W, val) /\ Extremes(g, B, W, val, 0)
    BY DEF Represents
  <1>2. /\ h.TotalCount \in Nat /\ h.OverflowCount \in Nat /\ h.SumValues \in Nat
        /\ h.MaxRecorded \in Nat /\ h.MinRecorded \in Nat
        /\ g.TotalCount \in Nat /\ g.OverflowCount \in Nat /\ g.SumValues \in Nat
        /\ g.MaxRecorded \in Nat /\ g.MinRecorded \in Nat
    BY <1>1 DEF RawType
  <1>D. DOMAIN g.Buckets = 0..(GetTotalBuckets - 1)
    BY <1>1 DEF RawType
  <1>3. sum \in [0..(GetTotalBuckets - 1) -> Nat]
    BY <1>1, <1>D, BucketsAddUp
  <1>4. /\ s.Buckets = sum /\ s.TotalCount = h.TotalCount + g.TotalCount
        /\ s.OverflowCount = h.OverflowCount + g.OverflowCount
        /\ s.SumValues = h.SumValues + g.SumValues
        /\ s.MaxRecorded = hi /\ s.MinRecorded = lo
    BY DEF Merge
  <1>5. hi \in Nat /\ lo \in Nat
    BY <1>2
  <1>6. s \in RawType
    <2>1. s = [Buckets |-> sum, TotalCount |-> h.TotalCount + g.TotalCount,
               OverflowCount |-> h.OverflowCount + g.OverflowCount,
               MinRecorded |-> lo, MaxRecorded |-> hi,
               SumValues |-> h.SumValues + g.SumValues]
      BY DEF Merge
    <2>2. /\ h.TotalCount + g.TotalCount \in Nat /\ h.OverflowCount + g.OverflowCount \in Nat
          /\ h.SumValues + g.SumValues \in Nat
      BY <1>2
    <2> DEFINE t == h.TotalCount + g.TotalCount
               o == h.OverflowCount + g.OverflowCount
               v == h.SumValues + g.SumValues
    <2> HIDE DEF sum, hi, lo, s, t, o, v
    <2>3. s = [Buckets |-> sum, TotalCount |-> t, OverflowCount |-> o,
               MinRecorded |-> lo, MaxRecorded |-> hi, SumValues |-> v]
      BY <2>1 DEF t, o, v
    <2>4. t \in Nat /\ o \in Nat /\ v \in Nat
      BY <2>2 DEF t, o, v
    <2> QED BY <1>3, <1>5, <2>3, <2>4 DEF RawType
  <1>7. AddsUp(s, h, g)
    <2>1. \A b \in 0..(GetTotalBuckets - 1) : sum[b] = h.Buckets[b] + g.Buckets[b]
      BY <1>D
    <2> HIDE DEF sum, s, hi, lo
    <2> QED BY <1>3, <1>4, <2>1 DEF AddsUp
  <1> HIDE DEF s
  <1>8. Counts(s, B, U \cup W, val)
    BY <1>1, <1>7, CountsUnion
  <1>9. Extremes(s, B, U \cup W, val, 0)
    <2>0. \A e \in DOMAIN B : val[e] \in Nat
      BY DEF Valued
    <2>1. /\ g.TotalCount = 0 <=> DOMAIN B \cap W = {}
          /\ g.TotalCount = 0 => g.MinRecorded = 0 /\ g.MaxRecorded = 0
      BY RepresentsEmpty
    <2>2. /\ h.TotalCount = 0 <=> DOMAIN B \cap U = {}
          /\ h.TotalCount = 0 => h.MinRecorded = 0 /\ h.MaxRecorded = 0
      BY RepresentsEmpty
    <2>3. s.MaxRecorded = hi /\ s.MinRecorded = lo
      BY <1>4
    <2>4. ASSUME NEW e \in DOMAIN B, e \in U \cup W
          PROVE  s.MinRecorded <= val[e] /\ val[e] <= s.MaxRecorded
      <3>1. CASE e \in U
        <4>1. h.MinRecorded <= val[e] /\ val[e] <= h.MaxRecorded /\ val[e] \in Nat
          BY <1>1, <2>0, <3>1 DEF Extremes
        <4>2. h.TotalCount # 0
          BY <2>2, <3>1
        <4> QED BY <1>2, <2>3, <4>1, <4>2
      <3>2. CASE e \in W
        <4>1. g.MinRecorded <= val[e] /\ val[e] <= g.MaxRecorded /\ val[e] \in Nat
          BY <1>1, <2>0, <3>2 DEF Extremes
        <4>2. g.TotalCount # 0
          BY <2>1, <3>2
        <4> QED BY <1>2, <2>3, <4>1, <4>2
      <3> QED BY <2>4, <3>1, <3>2
    <2>5. CASE h.TotalCount = 0
      <3>1. lo = g.MinRecorded /\ hi = g.MaxRecorded
        BY <1>2, <2>1, <2>2, <2>5
      <3>2. \A e \in DOMAIN B : e \in U \cup W <=> e \in W
        BY <2>2, <2>5
      <3> HIDE DEF hi, lo
      <3> QED BY <1>1, <2>3, <2>4, <3>1, <3>2 DEF Extremes
    <2>6. CASE h.TotalCount # 0
      <3>1. \E e \in DOMAIN B : e \in U
        BY <2>2, <2>6
      <3>2. /\ \E e \in DOMAIN B : e \in U /\ val[e] = h.MinRecorded
            /\ \E e \in DOMAIN B : e \in U /\ val[e] = h.MaxRecorded
        BY <1>1, <3>1 DEF Extremes
      <3>3. \E e \in DOMAIN B : e \in U \cup W /\ val[e] = s.MinRecorded
        <4>1. CASE lo = h.MinRecorded
          BY <2>3, <3>2, <4>1
        <4>2. CASE lo # h.MinRecorded
          <5>1. lo = g.MinRecorded /\ g.TotalCount # 0
            BY <1>2, <4>2
          <5>2. \E e \in DOMAIN B : e \in W
            BY <2>1, <5>1
          <5>3. \E e \in DOMAIN B : e \in W /\ val[e] = g.MinRecorded
            BY <1>1, <5>2 DEF Extremes
          <5> QED BY <2>3, <5>1, <5>3
        <4> QED BY <4>1, <4>2
      <3>4. \E e \in DOMAIN B : e \in U \cup W /\ val[e] = s.MaxRecorded
        <4>1. CASE hi = h.MaxRecorded
          BY <2>3, <3>2, <4>1
        <4>2. CASE hi # h.MaxRecorded
          <5>1. hi = g.MaxRecorded /\ g.TotalCount # 0
            BY <1>2, <4>2
          <5>2. \E e \in DOMAIN B : e \in W
            BY <2>1, <5>1
          <5>3. \E e \in DOMAIN B : e \in W /\ val[e] = g.MaxRecorded
            BY <1>1, <5>2 DEF Extremes
          <5> QED BY <2>3, <5>1, <5>3
        <4> QED BY <4>1, <4>2
      <3>5. \E e \in DOMAIN B : e \in U \cup W
        BY <3>1
      <3> HIDE DEF hi, lo
      <3> QED BY <2>4, <3>3, <3>4, <3>5 DEF Extremes
    <2> QED BY <2>5, <2>6
  <1>10. Represents(s, B, U \cup W, val, 0)
    BY <1>6, <1>8, <1>9 DEF Represents, s
  <1> QED BY <1>10 DEF s

-----------------------------------------------------------------------------
(* What the consolidation makes of such a histogram.                       *)

UpTo(U, val, b) == {e \in U : val[e] < MaxValue /\ GetBucketIndex(val[e]) <= b}

\* The running counts are those of the values in the buckets so far.
LEMMA RunningCounts ==
  ASSUME NEW B, NEW val, Valued(B, val), NEW U, NEW h, NEW none, Represents(h, B, U, val, none),
         NEW b \in 0..(GetTotalBuckets - 1)
  PROVE  Running(h)[b] = Total(B, UpTo(U, val, b))
  <1> DEFINE D == 0..(GetTotalBuckets - 1)
             Is(f) == f = [c \in D |-> h.Buckets[c] + (IF c = 0 THEN 0 ELSE f[c - 1])]
             g == [c \in D |-> Total(B, UpTo(U, val, c))]
  <1>0. /\ DOMAIN h.Buckets = D /\ \A c \in D : h.Buckets[c] = Total(B, InBucket(U, val, c))
        /\ Table(B)
    BY DEF Represents, Counts, RawType, Valued
  <1>1. \A W : Total(B, W) \in Nat
    BY <1>0, TotalType
  <1>2. ASSUME NEW c \in D PROVE g[c] = h.Buckets[c] + (IF c = 0 THEN 0 ELSE g[c - 1])
    <2>1. \A e \in DOMAIN B : val[e] < MaxValue => GetBucketIndex(val[e]) \in Nat
      <3>1. \A e \in DOMAIN B : val[e] < MaxValue => val[e] \in 0..(MaxValue - 1)
        BY HistogramAssumption DEF Valued
      <3>2. \A e \in DOMAIN B : val[e] < MaxValue => GetBucketIndex(val[e]) \in 0..(GetTotalBuckets - 1)
        BY <3>1, LayoutAgreement
      <3> QED BY <3>2, TotalBuckets
    <2>2. CASE c = 0
      <3>1. \A e \in DOMAIN B : e \in UpTo(U, val, c) <=> e \in InBucket(U, val, c)
        BY <2>1, <2>2 DEF UpTo, InBucket
      <3>2. Total(B, UpTo(U, val, c)) = Total(B, InBucket(U, val, c))
        BY <3>1, TotalSame
      <3>3. Total(B, UpTo(U, val, c)) \in Nat /\ h.Buckets[c] = Total(B, UpTo(U, val, c))
        BY <1>0, <1>1, <3>2
      <3> QED BY <2>2, <3>3
    <2>3. CASE c # 0
      <3>1. c - 1 \in D /\ c \in Nat
        BY <2>3, TotalBuckets
      <3>2. \A e \in DOMAIN B : /\ ~(e \in UpTo(U, val, c - 1) /\ e \in InBucket(U, val, c))
                                /\ e \in UpTo(U, val, c - 1) \cup InBucket(U, val, c)
                                      <=> e \in UpTo(U, val, c)
        BY <2>1, <3>1 DEF UpTo, InBucket
      <3>3. Total(B, UpTo(U, val, c - 1) \cup InBucket(U, val, c))
               = Total(B, UpTo(U, val, c - 1)) + Total(B, InBucket(U, val, c))
        <4> DEFINE P == UpTo(U, val, c - 1)
                   Q == InBucket(U, val, c)
        <4>1. \A e \in DOMAIN B : ~(e \in P /\ e \in Q)
          BY <3>2
        <4> HIDE DEF P, Q
        <4>2. Total(B, P \cup Q) = Total(B, P) + Total(B, Q)
          BY <1>0, <4>1, TotalUnion
        <4> QED BY <4>2 DEF P, Q
      <3>4. Total(B, UpTo(U, val, c - 1) \cup InBucket(U, val, c)) = Total(B, UpTo(U, val, c))
        BY <3>2, TotalSame
      <3>5. /\ g[c] = Total(B, UpTo(U, val, c)) /\ g[c - 1] = Total(B, UpTo(U, val, c - 1))
            /\ h.Buckets[c] = Total(B, InBucket(U, val, c))
        BY <1>0, <3>1
      <3>6. Total(B, UpTo(U, val, c - 1)) \in Nat /\ Total(B, InBucket(U, val, c)) \in Nat
        BY <1>1
      <3> HIDE DEF g
      <3> QED BY <2>3, <3>3, <3>4, <3>5, <3>6
    <2> QED BY <2>2, <2>3
  <1>3. Is(g)
    <2>1. g = [c \in D |-> g[c]]
      OBVIOUS
    <2> HIDE DEF g, D
    <2> QED BY <1>2, <2>1
  <1>4. Is(Running(h))
    <2>1. Running(h) = CHOOSE f : Is(f)
      BY <1>0 DEF Running
    <2> HIDE DEF Is
    <2>2. \E f : Is(f)
      BY <1>3
    <2> QED BY <2>1, <2>2
  <1>5. ASSUME NEW c \in D
        PROVE  Running(h)[c] = h.Buckets[c] + (IF c = 0 THEN 0 ELSE Running(h)[c - 1])
    <2> HIDE DEF D
    <2> QED BY <1>4
  <1> DEFINE T == {n \in Nat : n \in D => Running(h)[n] = g[n]}
  <1> HIDE DEF g, Is
  <1>6. 0 \in T
    BY <1>2, <1>5
  <1>7. ASSUME NEW n \in Nat, n \in T PROVE n + 1 \in T
    <2> SUFFICES ASSUME n + 1 \in D PROVE Running(h)[n + 1] = g[n + 1]
      OBVIOUS
    <2>1. n \in D /\ n + 1 # 0 /\ (n + 1) - 1 = n
      BY TotalBuckets
    <2> HIDE DEF D
    <2>2. Running(h)[n + 1] = h.Buckets[n + 1] + Running(h)[n] /\ g[n + 1] = h.Buckets[n + 1] + g[n]
      BY <1>2, <1>5, <2>1
    <2> QED BY <1>7, <2>1, <2>2
  <1>8. Nat \subseteq T
    <2> HIDE DEF T
    <2> QED BY <1>6, <1>7, SetInduction
  <1>9. Running(h)[b] = g[b]
    BY <1>8, TotalBuckets
  <1> QED BY <1>9 DEF g

\* A total of a bag is 0 exactly where the bag has no element.
LEMMA TotalZero ==
  ASSUME NEW B, NEW val, Valued(B, val), NEW W
  PROVE  Total(B, W) \in Nat /\ (Total(B, W) # 0 <=> \E e \in DOMAIN B : e \in W)
  <1>1. Table(B) /\ \A e \in DOMAIN B : B[e] > 0
    BY DEF Valued
  <1>2. Total(B, W) \in Nat /\ (DOMAIN B \cap W = {} => Total(B, W) = 0)
    BY <1>1, TotalType
  <1>3. ASSUME NEW e \in DOMAIN B, e \in W PROVE Total(B, W) # 0
    <2>1. Total(B, W) > 0
      BY <1>1, <1>3, TotalPositive
    <2> QED BY <1>2, <2>1
  <1> QED BY <1>2, <1>3

\* The sum lies between bounds that the count and the extremes set.
LEMMA SumBounds ==
  ASSUME NEW B, NEW val, Valued(B, val), NEW U, NEW lo \in Nat, NEW hi \in Nat,
         \A e \in DOMAIN B : e \in U => lo <= val[e] /\ val[e] <= hi,
         NEW e \in DOMAIN B, e \in U
  PROVE  LET n == Total(B, U)
             sum == Total(Weighted(B, val), U)
         IN  /\ n \in Nat \ {0} /\ sum \in Nat
             /\ lo * (n - 1) + val[e] <= sum /\ sum <= hi * (n - 1) + val[e]
  <1> DEFINE R == U \ {e}
             w == Weighted(B, val)
             k == B[e]
             v == val[e]
             m == Total(B, R)
             r == Total(w, R)
  <1>1. /\ Table(B) /\ Table(w) /\ DOMAIN w = DOMAIN B
        /\ \A x \in DOMAIN B : w[x] = B[x] * val[x]
    BY WeightedTable
  <1>2. k \in Nat /\ k >= 1 /\ v \in Nat /\ lo <= v /\ v <= hi
    BY DEF Valued, Table
  <1>3. Total(B, U) = k + m /\ m \in Nat
    <2>1. Total(B, R \cup {e}) = B[e] + Total(B, R)
      BY <1>1, TotalInsert
    <2>2. Total(B, R \cup {e}) = Total(B, U)
      BY TotalSame
    <2> QED BY <1>1, <2>1, <2>2, TotalType
  <1>4. Total(w, U) = k * v + r /\ r \in Nat
    <2> HIDE DEF w
    <2>1. Total(w, R \cup {e}) = w[e] + Total(w, R)
      BY <1>1, TotalInsert
    <2>2. Total(w, R \cup {e}) = Total(w, U)
      BY TotalSame
    <2> QED BY <1>1, <2>1, <2>2, TotalType
  <1>5. lo * m <= r /\ r <= hi * m
    <2>1. ASSUME NEW x \in DOMAIN B, x \in R PROVE lo * B[x] <= w[x] /\ w[x] <= hi * B[x]
      <3>1. B[x] \in Nat /\ val[x] \in Nat /\ lo <= val[x] /\ val[x] <= hi
        BY <2>1 DEF Valued, Table
      <3>2. w[x] = B[x] * val[x]
        BY <1>1
      <3>3. lo * B[x] <= val[x] * B[x] /\ val[x] * B[x] <= hi * B[x] /\ val[x] * B[x] = B[x] * val[x]
        BY <3>1, ProductMonotone
      <3> QED BY <3>2, <3>3
    <2> HIDE DEF w, R
    <2> QED BY <1>1, <2>1, TotalBounds
  <1> HIDE DEF k, v, m, r, w
  <1>6. k - 1 \in Nat
    BY <1>2
  <1>7. lo * (k - 1) <= v * (k - 1) /\ v * (k - 1) <= hi * (k - 1)
    BY <1>2, <1>6, ProductMonotone
  <1>8. k * v = v * (k - 1) + v /\ v * (k - 1) \in Nat /\ k * v \in Nat
    BY <1>2
  <1>9. /\ lo * ((k + m) - 1) = lo * (k - 1) + lo * m
        /\ hi * ((k + m) - 1) = hi * (k - 1) + hi * m
        /\ lo * (k - 1) \in Nat /\ lo * m \in Nat /\ hi * (k - 1) \in Nat /\ hi * m \in Nat
    BY <1>2, <1>3, <1>6
  <1>10. /\ lo * ((k + m) - 1) + v <= k * v + r
         /\ k * v + r <= hi * ((k + m) - 1) + v
    BY <1>2, <1>4, <1>5, <1>7, <1>8, <1>9
  <1>11. k + m \in Nat \ {0} /\ k * v + r \in Nat
    BY <1>2, <1>3, <1>4, <1>8
  <1> QED BY <1>3, <1>4, <1>10, <1>11 DEF v, w

\* The least element is chosen.
LEMMA LeastChosen ==
  ASSUME NEW S \in SUBSET Nat, NEW f \in S, \A c \in S : f <= c
  PROVE  (CHOOSE b \in S : \A c \in S : b <= c) = f
  <1> DEFINE Is(b) == \A c \in S : b <= c
  <1>1. ASSUME NEW b \in S, Is(b) PROVE b = f
    <2>1. b \in Nat /\ f \in Nat /\ b <= f /\ f <= b
      BY <1>1
    <2> QED BY <2>1
  <1>2. Is(f)
    OBVIOUS
  <1> HIDE DEF Is
  <1>3. (CHOOSE b \in S : Is(b)) = f
    BY <1>1, <1>2
  <1> QED BY <1>3 DEF Is

\* The greatest element is chosen.
LEMMA GreatestChosen ==
  ASSUME NEW S \in SUBSET Nat, NEW f \in S, \A c \in S : f >= c
  PROVE  (CHOOSE b \in S : \A c \in S : b >= c) = f
  <1> DEFINE Is(b) == \A c \in S : b >= c
  <1>1. ASSUME NEW b \in S, Is(b) PROVE b = f
    <2>1. b \in Nat /\ f \in Nat /\ b >= f /\ f >= b
      BY <1>1
    <2> QED BY <2>1
  <1>2. Is(f)
    OBVIOUS
  <1> HIDE DEF Is
  <1>3. (CHOOSE b \in S : Is(b)) = f
    BY <1>1, <1>2
  <1> QED BY <1>3 DEF Is

\* The extremes lie in the first and the last bucket that is not empty.
LEMMA ExtremaValid ==
  ASSUME NEW B, NEW val, Valued(B, val), NEW U, NEW h, NEW none, Represents(h, B, U, val, none),
         h.TotalCount # 0
  PROVE  validateExtremaBuckets(h)
  <1> DEFINE D == 0..(GetTotalBuckets - 1)
             occupied == {b \in DOMAIN h.Buckets : h.Buckets[b] # 0}
  <1>1. /\ DOMAIN h.Buckets = D /\ \A c \in D : h.Buckets[c] = Total(B, InBucket(U, val, c))
        /\ h.OverflowCount = Total(B, Beyond(U, val)) /\ h.TotalCount = Total(B, U)
        /\ Extremes(h, B, U, val, none)
    BY DEF Represents, Counts, RawType
  <1>2. \A e \in DOMAIN B : val[e] \in Nat
    BY DEF Valued
  <1>3. \A b \in D : b \in occupied <=> \E e \in DOMAIN B : e \in InBucket(U, val, b)
    BY <1>1, TotalZero
  <1>4. h.OverflowCount \in Nat /\ h.TotalCount \in Nat
        /\ (h.OverflowCount # 0 <=> \E e \in DOMAIN B : e \in U /\ val[e] >= MaxValue)
    <2>1. h.OverflowCount \in Nat /\ h.TotalCount \in Nat
          /\ (h.OverflowCount # 0 <=> \E e \in DOMAIN B : e \in Beyond(U, val))
      BY <1>1, TotalZero
    <2> QED BY <2>1 DEF Beyond
  <1>5. h.TotalCount = h.OverflowCount <=> \A e \in DOMAIN B : e \in U => val[e] >= MaxValue
    <2> DEFINE V == U \ Beyond(U, val)
    <2>1. /\ Total(B, Beyond(U, val) \cup V) = Total(B, Beyond(U, val)) + Total(B, V)
          /\ Total(B, Beyond(U, val)) \in Nat /\ Total(B, V) \in Nat
      <3>1. Table(B) /\ \A e \in DOMAIN B : ~(e \in Beyond(U, val) /\ e \in V)
        BY DEF Valued
      <3> HIDE DEF V
      <3> QED BY <3>1, TotalUnion
    <2>2. Total(B, Beyond(U, val) \cup V) = Total(B, U)
      <3>1. \A e \in DOMAIN B : e \in Beyond(U, val) \cup V <=> e \in U
        BY DEF Beyond
      <3> HIDE DEF V
      <3> QED BY <3>1, TotalSame
    <2>3. Total(B, V) # 0 <=> \E e \in DOMAIN B : e \in V
      <3> HIDE DEF V
      <3> QED BY TotalZero
    <2>4. (\E e \in DOMAIN B : e \in V) <=> ~ \A e \in DOMAIN B : e \in U => val[e] >= MaxValue
      BY DEF Beyond
    <2> HIDE DEF V
    <2> QED BY <1>1, <2>1, <2>2, <2>3, <2>4
  <1>6. PICK lo \in DOMAIN B : lo \in U /\ val[lo] = h.MinRecorded
    BY <1>1, TotalZero DEF Extremes
  <1>7. PICK hi \in DOMAIN B : hi \in U /\ val[hi] = h.MaxRecorded
    BY <1>1, TotalZero DEF Extremes
  <1>8. \A e \in DOMAIN B : e \in U => val[lo] <= val[e] /\ val[e] <= val[hi]
    BY <1>1, <1>6, <1>7 DEF Extremes
  <1>9. CASE h.TotalCount = h.OverflowCount
    <2>1. \A e \in DOMAIN B : e \in U => val[e] >= MaxValue
      BY <1>5, <1>9
    <2>2. occupied = {}
      <3>1. ASSUME NEW b \in occupied PROVE FALSE
        <4>1. PICK e \in DOMAIN B : e \in InBucket(U, val, b)
          BY <1>1, <1>3
        <4>2. e \in U /\ val[e] < MaxValue
          BY <4>1 DEF InBucket
        <4> QED BY <1>2, <2>1, <4>2, HistogramAssumption
      <3> QED BY <3>1
    <2>3. h.MinRecorded >= MaxValue /\ h.MaxRecorded >= MaxValue
      BY <1>6, <1>7, <2>1
    <2> QED BY <1>9, <2>2, <2>3 DEF validateExtremaBuckets
  <1>10. CASE h.TotalCount # h.OverflowCount
    <2>1. PICK low \in DOMAIN B : low \in U /\ val[low] < MaxValue
      BY <1>2, <1>5, <1>10, HistogramAssumption
    <2>2. val[lo] < MaxValue
      BY <1>2, <1>8, <2>1, HistogramAssumption
    <2>3. ASSUME NEW e \in DOMAIN B, e \in U, val[e] < MaxValue
          PROVE  /\ bucketIndex(val[e]) = GetBucketIndex(val[e])
                 /\ GetBucketIndex(val[e]) \in D /\ GetBucketIndex(val[e]) \in occupied
      <3>1. val[e] \in 0..(MaxValue - 1)
        BY <1>2, <2>3, HistogramAssumption
      <3>2. bucketIndex(val[e]) = GetBucketIndex(val[e]) /\ GetBucketIndex(val[e]) \in D
        BY <3>1, LayoutAgreement
      <3>3. e \in InBucket(U, val, GetBucketIndex(val[e]))
        BY <2>3 DEF InBucket
      <3> QED BY <1>3, <3>2, <3>3
    <2>4. ASSUME NEW b \in occupied
          PROVE  b \in D /\ \E e \in DOMAIN B : e \in U /\ val[e] < MaxValue /\ GetBucketIndex(val[e]) = b
      <3>1. PICK e \in DOMAIN B : e \in InBucket(U, val, b)
        BY <1>1, <1>3
      <3> QED BY <1>1, <3>1 DEF InBucket
    <2> DEFINE f == GetBucketIndex(val[lo])
    <2>5. f \in occupied /\ f \in Nat /\ bucketIndex(h.MinRecorded) = f
      BY <1>6, <2>2, <2>3, TotalBuckets
    <2>6. ASSUME NEW b \in occupied PROVE f <= b
      <3>1. PICK e \in DOMAIN B : e \in U /\ val[e] < MaxValue /\ GetBucketIndex(val[e]) = b
        BY <2>4
      <3>2. val[lo] \in Nat /\ val[e] \in Nat /\ val[lo] <= val[e]
        BY <1>2, <1>8, <3>1
      <3>3. GetBucketIndex(val[lo]) <= GetBucketIndex(val[e])
        BY <3>1, <3>2, BucketMonotone
      <3> QED BY <3>1, <3>3
    <2>7. occupied \subseteq Nat /\ occupied # {}
      BY <2>4, <2>5, TotalBuckets
    <2> HIDE DEF f, occupied
    <2>8. (CHOOSE b \in occupied : \A c \in occupied : b <= c) = f
      BY <2>5, <2>6, <2>7, LeastChosen
    <2>9. CASE h.OverflowCount > 0
      <3>1. PICK e \in DOMAIN B : e \in U /\ val[e] >= MaxValue
        BY <1>4, <2>9
      <3>2. val[e] \in Nat /\ val[hi] \in Nat /\ val[e] <= val[hi]
        BY <1>2, <1>8, <3>1
      <3>3. h.MaxRecorded >= MaxValue
        BY <1>7, <3>1, <3>2, HistogramAssumption
      <3> QED BY <1>10, <2>5, <2>7, <2>8, <2>9, <3>3 DEF validateExtremaBuckets, occupied
    <2>10. CASE ~(h.OverflowCount > 0)
      <3>1. val[hi] < MaxValue /\ val[hi] \in Nat
        <4>1. h.OverflowCount = 0
          BY <1>4, <2>10
        <4> QED BY <1>2, <1>4, <1>7, <4>1, HistogramAssumption
      <3> DEFINE l == GetBucketIndex(val[hi])
      <3>2. l \in occupied /\ l \in Nat /\ bucketIndex(h.MaxRecorded) = l
        BY <1>7, <2>3, <3>1, TotalBuckets
      <3>3. ASSUME NEW b \in occupied PROVE l >= b
        <4>1. PICK e \in DOMAIN B : e \in U /\ val[e] < MaxValue /\ GetBucketIndex(val[e]) = b
          BY <2>4
        <4>2. val[e] \in Nat /\ val[e] <= val[hi]
          BY <1>2, <1>8, <4>1
        <4>3. GetBucketIndex(val[e]) <= GetBucketIndex(val[hi])
          BY <3>1, <4>2, BucketMonotone
        <4>4. b \in Nat
          BY <2>7
        <4> QED BY <3>2, <4>1, <4>3, <4>4
      <3> HIDE DEF l
      <3>4. (CHOOSE b \in occupied : \A c \in occupied : b >= c) = l
        BY <2>7, <3>2, <3>3, GreatestChosen
      <3> QED BY <1>10, <2>5, <2>7, <2>8, <2>10, <3>2, <3>4 DEF validateExtremaBuckets, occupied
    <2> QED BY <2>9, <2>10
  <1> QED BY <1>9, <1>10

\* What holds a bag of values passes Validate, whatever the values and however
\* they came together: the consolidation refuses no honest histogram.
THEOREM HonestHistogramValid ==
  ASSUME NEW B, NEW val, Valued(B, val), NEW U, NEW h, Represents(h, B, U, val, 0)
  PROVE  Validate(h)
  <1> DEFINE N == GetTotalBuckets
  <1>1. /\ h \in RawType /\ Counts(h, B, U, val) /\ Extremes(h, B, U, val, 0)
    BY DEF Represents
  <1>2. ExpectedBucketCount = N /\ N \in Nat /\ N - 1 \in 0..(N - 1)
    BY LayoutAgreement, TotalBuckets, HistogramAssumption
  <1>3. DOMAIN h.Buckets = 0..(ExpectedBucketCount - 1)
    BY <1>1, <1>2 DEF RawType
  <1>4. /\ h.TotalCount = Total(B, U) /\ h.OverflowCount = Total(B, Beyond(U, val))
        /\ h.SumValues = Total(Weighted(B, val), U)
    BY <1>1 DEF Counts
  <1>5. h.TotalCount = Running(h)[ExpectedBucketCount - 1] + h.OverflowCount
    <2> DEFINE P == UpTo(U, val, N - 1)
               Q == Beyond(U, val)
    <2>1. Running(h)[N - 1] = Total(B, P)
      BY <1>2, RunningCounts
    <2>2. \A e \in DOMAIN B : val[e] \in Nat /\
             (val[e] < MaxValue => GetBucketIndex(val[e]) \in Nat /\ GetBucketIndex(val[e]) <= N - 1)
      <3> SUFFICES ASSUME NEW e \in DOMAIN B
                   PROVE  val[e] \in Nat /\ (val[e] < MaxValue =>
                             GetBucketIndex(val[e]) \in Nat /\ GetBucketIndex(val[e]) <= N - 1)
        OBVIOUS
      <3>1. val[e] \in Nat /\ (val[e] < MaxValue => val[e] \in 0..(MaxValue - 1))
        BY HistogramAssumption DEF Valued
      <3>2. val[e] < MaxValue => GetBucketIndex(val[e]) \in 0..(N - 1)
        BY <3>1, LayoutAgreement
      <3> QED BY <1>2, <3>1, <3>2
    <2>3. Table(B) /\ \A e \in DOMAIN B : ~(e \in P /\ e \in Q)
      BY <2>2, HistogramAssumption DEF UpTo, Beyond, Valued
    <2>4. \A e \in DOMAIN B : e \in P \cup Q <=> e \in U
      BY <2>2, HistogramAssumption DEF UpTo, Beyond
    <2> HIDE DEF P, Q, N
    <2>5. Total(B, P \cup Q) = Total(B, P) + Total(B, Q)
      BY <2>3, TotalUnion
    <2>6. Total(B, P \cup Q) = Total(B, U)
      BY <2>4, TotalSame
    <2> QED BY <1>2, <1>4, <2>1, <2>5, <2>6 DEF Q
  <1>6. /\ h.TotalCount \in Nat
        /\ h.TotalCount = 0 <=> DOMAIN B \cap U = {}
        /\ h.TotalCount = 0 => h.MinRecorded = 0 /\ h.MaxRecorded = 0
    BY RepresentsEmpty
  <1>7. CASE h.TotalCount = 0
    <2>1. DOMAIN B \cap U = {} /\ DOMAIN B \cap Beyond(U, val) = {} /\ DOMAIN Weighted(B, val) \cap U = {}
      BY <1>6, <1>7, WeightedTable DEF Beyond
    <2>2. h.SumValues = 0 /\ h.OverflowCount = 0
      BY <1>4, <2>1, TotalType, WeightedTable
    <2> QED BY <1>3, <1>5, <1>6, <1>7, <2>2 DEF Validate
  <1>8. CASE h.TotalCount # 0
    <2>1. \E e \in DOMAIN B : e \in U
      BY <1>6, <1>8
    <2>2. PICK lo \in DOMAIN B : lo \in U /\ val[lo] = h.MinRecorded
      BY <1>1, <2>1 DEF Extremes
    <2>3. PICK hi \in DOMAIN B : hi \in U /\ val[hi] = h.MaxRecorded
      BY <1>1, <2>1 DEF Extremes
    <2>4. \A e \in DOMAIN B : e \in U => h.MinRecorded <= val[e] /\ val[e] <= h.MaxRecorded
      BY <1>1 DEF Extremes
    <2>5. h.MinRecorded \in Nat /\ h.MaxRecorded \in Nat
      BY <1>1 DEF RawType
    <2>6. h.MinRecorded <= h.MaxRecorded
      BY <2>2, <2>4
    <2> DEFINE n == h.TotalCount
               a == h.MinRecorded
               z == h.MaxRecorded
               s == h.SumValues
    <2>7. n \in Nat \ {0} /\ s \in Nat /\ a * (n - 1) + z <= s
      BY <1>4, <2>3, <2>4, <2>5, SumBounds
    <2>8. s <= z * (n - 1) + a
      BY <1>4, <2>2, <2>4, <2>5, SumBounds
    <2>9. validateSumBounds(h)
      <3>1. (n = 1 => a = z /\ s = a) /\ s >= a * (n - 1) + z /\ s <= z * n
        <4> HIDE DEF n, a, z, s
        <4>1. a \in Nat /\ z \in Nat /\ a <= z
          BY <2>5, <2>6 DEF a, z
        <4>2. a * (n - 1) \in Nat /\ z * (n - 1) \in Nat /\ z * n = z * (n - 1) + z
          BY <2>7, <4>1
        <4>3. s >= a * (n - 1) + z /\ s <= z * n
          BY <2>7, <2>8, <4>1, <4>2
        <4>4. ASSUME n = 1 PROVE a = z /\ s = a
          <5>1. a * (n - 1) = 0 /\ z * (n - 1) = 0
            BY <4>1, <4>4
          <5> QED BY <2>7, <2>8, <4>1, <5>1
        <4> QED BY <4>3, <4>4
      <3> QED BY <3>1 DEF validateSumBounds
    <2>10. validateExtremaBuckets(h)
      BY <1>8, ExtremaValid
    <2> QED BY <1>3, <1>5, <1>8, <2>6, <2>9, <2>10 DEF Validate
  <1> QED BY <1>7, <1>8

\* The rank of a percentile is that of one of the values.
LEMMA RankRange ==
  ASSUME NEW n \in Nat \ {0}, NEW p \in Percentiles
  PROVE  Rank(n, p) \in 1..n
  <1>1. p \in {50, 90, 95, 99}
    BY DEF Percentiles
  <1>2. p * n \in Nat /\ 1 <= p * n /\ p * n <= 99 * n
    BY <1>1
  <1> DEFINE a == p * n + 99
  <1>3. a \in Nat /\ 100 * 1 <= a /\ a < 100 * n + 100
    BY <1>2
  <1> HIDE DEF a
  <1>4. 1 <= a \div 100 /\ a \div 100 <= n /\ a \div 100 \in Nat
    BY <1>3, DivLeast, DivMost, DivBounds
  <1> QED BY <1>4 DEF Rank, a

Below(U, val, v) == {e \in U : val[e] < v}
AtMost(U, val, v) == {e \in U : val[e] <= v}

\* The first bucket whose running count reaches the rank of a percentile is
\* that of the value of this rank; if no bucket does, the value is beyond.
THEOREM PercentileFound ==
  ASSUME NEW B, NEW val, Valued(B, val), NEW U, NEW h, NEW none, Represents(h, B, U, val, none),
         h.TotalCount # 0, NEW p \in Percentiles
  PROVE  \E e \in DOMAIN B :
            /\ e \in U
            /\ Total(B, Below(U, val, val[e])) < Rank(h.TotalCount, p)
            /\ Rank(h.TotalCount, p) <= Total(B, AtMost(U, val, val[e]))
            /\ IF val[e] >= MaxValue THEN ValueAtPercentile(h, p) = MaxValue
               ELSE ValueAtPercentile(h, p) = bucketUpperBound(GetBucketIndex(val[e]))
  <1> DEFINE D == 0..(GetTotalBuckets - 1)
             rank == Rank(h.TotalCount, p)
             reached == {b \in DOMAIN h.Buckets : Running(h)[b] >= rank}
             T == {v \in Nat : Total(B, AtMost(U, val, v)) >= rank}
  <1>1. /\ DOMAIN h.Buckets = D /\ h.OverflowCount = Total(B, Beyond(U, val))
        /\ h.TotalCount = Total(B, U) /\ Extremes(h, B, U, val, none) /\ h \in RawType
    BY DEF Represents, Counts, RawType
  <1>2. Table(B) /\ \A e \in DOMAIN B : val[e] \in Nat
    BY DEF Valued
  <1>3. h.TotalCount \in Nat \ {0} /\ h.MaxRecorded \in Nat
    BY <1>1 DEF RawType
  <1>4. rank \in 1..h.TotalCount
    BY <1>3, RankRange
  <1>5. \A W : Total(B, W) \in Nat
    BY <1>2, TotalType
  <1> HIDE DEF rank
  <1>6. h.MaxRecorded \in T
    <2>1. \A e \in DOMAIN B : e \in AtMost(U, val, h.MaxRecorded) <=> e \in U
      BY <1>1 DEF Extremes, AtMost
    <2>2. Total(B, AtMost(U, val, h.MaxRecorded)) = Total(B, U)
      BY <2>1, TotalSame
    <2> QED BY <1>1, <1>3, <1>4, <2>2
  <1>7. PICK v \in T : \A w \in T : v <= w
    <2>1. T \in SUBSET Nat /\ T # {}
      BY <1>6
    <2> HIDE DEF T
    <2> QED BY <2>1, NatMin
  <1>8. v \in Nat /\ rank \in Nat /\ rank >= 1 /\ rank <= Total(B, AtMost(U, val, v))
    BY <1>3, <1>4, <1>7, <1>5
  <1>9. Total(B, Below(U, val, v)) < rank
    <2>1. CASE v = 0
      <3>1. DOMAIN B \cap Below(U, val, v) = {}
        BY <1>2, <2>1 DEF Below
      <3>2. Total(B, Below(U, val, v)) = 0
        BY <1>2, <3>1, TotalType
      <3> QED BY <1>8, <3>2
    <2>2. CASE v # 0
      <3>1. v - 1 \in Nat /\ v - 1 \notin T
        BY <1>7, <1>8, <2>2
      <3>2. Total(B, AtMost(U, val, v - 1)) < rank
        BY <1>5, <1>8, <3>1
      <3>3. \A e \in DOMAIN B : e \in AtMost(U, val, v - 1) <=> e \in Below(U, val, v)
        BY <1>2, <1>8 DEF AtMost, Below
      <3>4. Total(B, AtMost(U, val, v - 1)) = Total(B, Below(U, val, v))
        BY <3>3, TotalSame
      <3> QED BY <3>2, <3>4
    <2> QED BY <2>1, <2>2
  <1>10. PICK e \in DOMAIN B : e \in U /\ val[e] = v
    <2>1. SUFFICES ASSUME \A e \in DOMAIN B : e \in U => val[e] # v PROVE FALSE
      OBVIOUS
    <2>2. \A e \in DOMAIN B : e \in AtMost(U, val, v) <=> e \in Below(U, val, v)
      BY <1>2, <1>8, <2>1 DEF AtMost, Below
    <2>3. Total(B, AtMost(U, val, v)) = Total(B, Below(U, val, v))
      BY <2>2, TotalSame
    <2> QED BY <1>5, <1>8, <1>9, <2>3
  <1>11. ASSUME NEW b \in D PROVE Running(h)[b] = Total(B, UpTo(U, val, b)) /\ Running(h)[b] \in Nat
    BY <1>5, RunningCounts
  <1>12. \A x \in DOMAIN B : val[x] < MaxValue => GetBucketIndex(val[x]) \in D /\ GetBucketIndex(val[x]) \in Nat
    <2>1. \A x \in DOMAIN B : val[x] < MaxValue => val[x] \in 0..(MaxValue - 1)
      BY <1>2, HistogramAssumption
    <2> QED BY <2>1, LayoutAgreement, TotalBuckets
  <1>13. CASE v >= MaxValue
    <2>1. reached = {}
      <3> SUFFICES ASSUME NEW b \in D PROVE ~(Running(h)[b] >= rank)
        BY <1>1
      <3>1. \A x \in DOMAIN B : x \in UpTo(U, val, b) => x \in Below(U, val, v)
        BY <1>2, <1>8, <1>13, HistogramAssumption DEF UpTo, Below
      <3>2. Total(B, UpTo(U, val, b)) <= Total(B, Below(U, val, v))
        BY <1>2, <3>1, TotalMonotone
      <3> QED BY <1>5, <1>8, <1>9, <1>11, <3>2
    <2>2. h.OverflowCount > 0
      <3>1. e \in Beyond(U, val)
        BY <1>10, <1>13 DEF Beyond
      <3>2. Total(B, Beyond(U, val)) # 0
        BY <3>1, TotalZero
      <3> QED BY <1>1, <1>5, <3>2
    <2>3. ~(h.TotalCount = 0) /\ h.TotalCount >= rank
      BY <1>3, <1>4
    <2>4. ValueAtPercentile(h, p) = MaxValue
      <3> HIDE DEF reached
      <3> QED BY <2>1, <2>2, <2>3, Zenon DEF ValueAtPercentile, reached, rank
    <2> QED BY <1>8, <1>9, <1>10, <1>13, <2>4 DEF rank
  <1>14. CASE ~(v >= MaxValue)
    <2>1. v < MaxValue
      BY <1>8, <1>14, HistogramAssumption
    <2> DEFINE c == GetBucketIndex(v)
    <2>2. c \in D /\ c \in Nat
      BY <1>10, <1>12, <2>1
    <2>3. c \in reached
      <3>1. \A x \in DOMAIN B : x \in AtMost(U, val, v) => x \in UpTo(U, val, c)
        <4> SUFFICES ASSUME NEW x \in DOMAIN B, x \in U, val[x] <= v
                     PROVE  val[x] < MaxValue /\ GetBucketIndex(val[x]) <= c
          BY DEF AtMost, UpTo
        <4>1. val[x] \in Nat /\ val[x] < MaxValue
          BY <1>2, <1>8, <2>1, HistogramAssumption
        <4> QED BY <1>8, <2>1, <4>1, BucketMonotone
      <3>2. Total(B, AtMost(U, val, v)) <= Total(B, UpTo(U, val, c))
        <4> HIDE DEF c
        <4> QED BY <1>2, <3>1, TotalMonotone
      <3> HIDE DEF c
      <3>3. Running(h)[c] >= rank
        BY <1>5, <1>8, <1>11, <2>2, <3>2
      <3> QED BY <1>1, <2>2, <3>3
    <2>4. ASSUME NEW b \in reached PROVE c <= b
      <3>1. b \in D /\ b \in Nat /\ Running(h)[b] >= rank
        BY <1>1, TotalBuckets
      <3> SUFFICES ASSUME b < c PROVE FALSE
        BY <2>2, <3>1
      <3>2. \A x \in DOMAIN B : x \in UpTo(U, val, b) => x \in Below(U, val, v)
        <4> SUFFICES ASSUME NEW x \in DOMAIN B, x \in U, val[x] < MaxValue, GetBucketIndex(val[x]) <= b
                     PROVE  val[x] < v
          BY DEF UpTo, Below
        <4>1. SUFFICES ASSUME v <= val[x] PROVE FALSE
          BY <1>2, <1>8
        <4>2. GetBucketIndex(v) <= GetBucketIndex(val[x])
          BY <1>2, <1>8, <4>1, BucketMonotone
        <4>3. GetBucketIndex(val[x]) \in Nat
          BY <1>12
        <4> QED BY <2>2, <3>1, <4>2, <4>3
      <3>3. Total(B, UpTo(U, val, b)) <= Total(B, Below(U, val, v))
        BY <1>2, <3>2, TotalMonotone
      <3> QED BY <1>5, <1>8, <1>9, <1>11, <3>1, <3>3
    <2>5. reached \in SUBSET Nat /\ reached # {}
      BY <1>1, <2>3, TotalBuckets
    <2> HIDE DEF c, reached
    <2>6. (CHOOSE b \in reached : \A d \in reached : b <= d) = c
      BY <2>3, <2>4, <2>5, LeastChosen
    <2>7. ~(h.TotalCount = 0)
      BY <1>3
    <2>8. ValueAtPercentile(h, p) = bucketUpperBound(CHOOSE b \in reached : \A d \in reached : b <= d)
      BY <2>5, <2>7, Zenon DEF ValueAtPercentile, reached, rank
    <2>9. ValueAtPercentile(h, p) = bucketUpperBound(c)
      BY <2>6, <2>8, Zenon
    <2>10. ValueAtPercentile(h, p) = bucketUpperBound(GetBucketIndex(val[e]))
      BY <1>10, <2>9 DEF c
    <2> QED BY <1>8, <1>9, <1>10, <1>14, <2>10 DEF rank
  <1> QED BY <1>13, <1>14
=============================================================================
