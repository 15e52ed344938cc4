---------------------------- MODULE Sums_proofs ----------------------------
(***************************************************************************)
(* What the models count with: the least and the greatest of some numbers, *)
(* the sum of the values of a function over a finite set, and what a fold  *)
(* makes of a list, step by step.                                          *)
(*                                                                         *)
(* The sum of the library is a fold, a recursive function over the subsets *)
(* of the set that takes away an element it chooses.  That there is such a *)
(* function, that its values are numbers, and that any element may be      *)
(* taken away instead, is shown of a smallest set for which it would fail. *)
(* So is that a fold over a list stays within a set that no step leaves.   *)
(***************************************************************************)
EXTENDS Integers, FiniteSetsExt, FiniteSetTheorems, WellFoundedInduction, TLAPS

-----------------------------------------------------------------------------
\* The least and the greatest of some numbers.

LEMMA LeastOf ==
    ASSUME NEW T, T \subseteq Nat, T # {}
    PROVE  \E x \in T : \A y \in T : x <= y
<1> DEFINE R == {ss \in Nat \X Nat : ss[1] < ss[2]}
<1>1. R = OpToRel(<, Nat)
  BY Zenon DEF OpToRel
<1>2. IsWellFoundedOn(R, Nat)
  BY <1>1, NatLessThanWellFounded, Zenon
<1>3. \A x, y \in Nat : x < y => <<x, y>> \in R
  OBVIOUS
<1> HIDE DEF R
<1>4. PICK x \in T : \A y \in T : <<y, x>> \notin R
  BY <1>2, WFMin
<1>5. ASSUME NEW y \in T PROVE x <= y
  <2>1. x \in Nat /\ y \in Nat
    OBVIOUS
  <2>2. ~(y < x)
    BY <1>3, <1>4, <2>1
  <2>3. QED
    BY <2>1, <2>2
<1>6. QED
  BY <1>5

\* Numbers from some number on have a least, which is what Min is.
LEMMA MinIsLeast ==
    ASSUME NEW from \in Int, NEW T, T \subseteq Int, \A d \in T : from <= d, T # {}
    PROVE  Min(T) \in T /\ \A d \in T : Min(T) <= d
<1> DEFINE Ahead == {n \in Nat : from + n \in T}
<1>1. \A d \in T : d - from \in Ahead /\ d \in Int
  OBVIOUS
<1>2. Ahead \subseteq Nat /\ Ahead # {}
  BY <1>1
<1>3. \A n \in Ahead : n \in Nat /\ from + n \in T
  OBVIOUS
<1> HIDE DEF Ahead
<1>4. PICK x \in Ahead : \A y \in Ahead : x <= y
  BY <1>2, LeastOf
<1>5. \A c \in T : from + x <= c
  <2> SUFFICES ASSUME NEW c \in T PROVE from + x <= c
    OBVIOUS
  <2>1. x <= c - from /\ c \in Int /\ x \in Nat
    BY <1>1, <1>3, <1>4
  <2>2. QED
    BY <2>1
<1>6. \E m \in T : \A c \in T : m <= c
  BY <1>3, <1>4, <1>5
<1>7. QED
  BY <1>6, Zenon DEF Min

\* Numbers up to some number have a greatest, which is what Max is.
LEMMA MaxIsGreatest ==
    ASSUME NEW to \in Int, NEW T, T \subseteq Int, \A d \in T : d <= to, T # {}
    PROVE  Max(T) \in T /\ \A d \in T : d <= Max(T)
<1> DEFINE Behind == {n \in Nat : to - n \in T}
<1>1. \A d \in T : to - d \in Behind /\ d \in Int
  OBVIOUS
<1>2. Behind \subseteq Nat /\ Behind # {}
  BY <1>1
<1>3. \A n \in Behind : n \in Nat /\ to - n \in T
  OBVIOUS
<1> HIDE DEF Behind
<1>4. PICK x \in Behind : \A y \in Behind : x <= y
  BY <1>2, LeastOf
<1>5. \A c \in T : c <= to - x
  <2> SUFFICES ASSUME NEW c \in T PROVE c <= to - x
    OBVIOUS
  <2>1. x <= to - c /\ c \in Int /\ x \in Nat
    BY <1>1, <1>3, <1>4
  <2>2. QED
    BY <2>1
<1>6. \E m \in T : \A c \in T : m >= c
  BY <1>1, <1>3, <1>4, <1>5
<1>7. PICK n \in T : n = Max(T) /\ \A c \in T : n >= c
  BY <1>6, Zenon DEF Max
<1>8. QED
  BY <1>1, <1>7

-----------------------------------------------------------------------------
\* The sum over a set, as the fold defines it.

ChosenOf(s) == CHOOSE x \in s : TRUE

\* g is the sum of f on the sets of D.
Sums(g, f, D) ==
    \A s \in D : g[s] = IF s = {} THEN 0 ELSE f[ChosenOf(s)] + g[s \ {ChosenOf(s)}]

LEMMA Chosen == ASSUME NEW s, s # {} PROVE ChosenOf(s) \in s
BY DEF ChosenOf

\* A set that loses an element has one less.
LEMMA OneLess ==
    ASSUME NEW S, IsFiniteSet(S), NEW s \in SUBSET S, NEW x \in s
    PROVE  /\ s \ {x} \in SUBSET S
           /\ Cardinality(s) \in Nat /\ Cardinality(s \ {x}) \in Nat
           /\ Cardinality(s \ {x}) = Cardinality(s) - 1
<1>1. IsFiniteSet(s)
  BY FS_Subset
<1>2. IsFiniteSet(s \ {x}) /\ Cardinality(s \ {x}) = Cardinality(s) - 1
  BY <1>1, FS_RemoveElement
<1>3. QED
  BY <1>1, <1>2, FS_CardinalityType

\* There is such a sum, and its values are numbers.
LEMMA SumIsThere ==
    ASSUME NEW S, IsFiniteSet(S), NEW f, \A x \in S : f[x] \in Int
    PROVE  \E g \in [SUBSET S -> Int] : Sums(g, f, SUBSET S)
<1> DEFINE Upto(n) == {s \in SUBSET S : Cardinality(s) <= n}
           Summed(n) == \E g \in [Upto(n) -> Int] : Sums(g, f, Upto(n))
           Bad == {n \in Nat : ~Summed(n)}
<1>1. \A s \in SUBSET S : IsFiniteSet(s) /\ Cardinality(s) \in Nat /\ Cardinality(s) <= Cardinality(S)
  BY FS_Subset, FS_CardinalityType
<1>2. Cardinality(S) \in Nat
  BY FS_CardinalityType
<1>3. Summed(0)
  <2>1. \A s \in Upto(0) : s = {}
    BY <1>1, FS_EmptySet
  <2> DEFINE g == [s \in Upto(0) |-> 0]
  <2>2. g \in [Upto(0) -> Int] /\ \A s \in Upto(0) : g[s] = 0
    OBVIOUS
  <2>3. Sums(g, f, Upto(0))
    BY <2>1, <2>2 DEF Sums
  <2>4. QED
    BY <2>2, <2>3
<1>4. ASSUME NEW n \in Nat, Summed(n) PROVE Summed(n + 1)
  <2>1. PICK g \in [Upto(n) -> Int] : Sums(g, f, Upto(n))
    BY <1>4
  <2> DEFINE D == Upto(n + 1)
             value(s) == IF s = {} THEN 0 ELSE f[ChosenOf(s)] + g[s \ {ChosenOf(s)}]
             h == [s \in D |-> value(s)]
  <2>2. \A s \in D : s # {} => /\ ChosenOf(s) \in S
                               /\ s \ {ChosenOf(s)} \in Upto(n)
                               /\ s \ {ChosenOf(s)} \in D
    <3> SUFFICES ASSUME NEW s \in D, s # {}
                 PROVE  /\ ChosenOf(s) \in S
                        /\ s \ {ChosenOf(s)} \in Upto(n)
                        /\ s \ {ChosenOf(s)} \in D
      OBVIOUS
    <3>1. ChosenOf(s) \in s /\ s \in SUBSET S /\ Cardinality(s) <= n + 1
      BY Chosen
    <3> DEFINE u == s \ {ChosenOf(s)}
    <3>2. /\ u \in SUBSET S
          /\ Cardinality(s) \in Nat /\ Cardinality(u) \in Nat
          /\ Cardinality(u) = Cardinality(s) - 1
      BY <3>1, OneLess
    <3> HIDE DEF u
    <3>3. Cardinality(u) <= n /\ Cardinality(u) <= n + 1
      BY <3>1, <3>2
    <3>4. QED
      BY <3>1, <3>2, <3>3 DEF u
  <2>3. \A s \in Upto(n) : value(s) = g[s]
    BY <2>1 DEF Sums
  <2>4. \A s \in D : value(s) \in Int
    BY <2>1, <2>2
  <2>5. \A s \in D : h[s] = value(s)
    OBVIOUS
  <2>6. h \in [D -> Int]
    BY <2>4
  <2>7. \A s \in Upto(n) : s \in D
    BY <1>1
  <2>8. \A s \in D : s # {} => h[s \ {ChosenOf(s)}] = g[s \ {ChosenOf(s)}]
    <3> SUFFICES ASSUME NEW s \in D, s # {} PROVE h[s \ {ChosenOf(s)}] = g[s \ {ChosenOf(s)}]
      OBVIOUS
    <3>1. s \ {ChosenOf(s)} \in Upto(n) /\ s \ {ChosenOf(s)} \in D
      BY <2>2
    <3> HIDE DEF value, h, D, Upto
    <3>2. QED
      BY <2>3, <2>5, <3>1
  <2>9. Sums(h, f, D)
    <3> SUFFICES ASSUME NEW s \in D
                 PROVE  h[s] = IF s = {} THEN 0 ELSE f[ChosenOf(s)] + h[s \ {ChosenOf(s)}]
      BY DEF Sums
    <3>1. h[s] = value(s) /\ (s # {} => h[s \ {ChosenOf(s)}] = g[s \ {ChosenOf(s)}])
      BY <2>5, <2>8
    <3> HIDE DEF h, D
    <3>2. QED
      BY <3>1
  <2>10. QED
    BY <2>6, <2>9
<1>5. Bad = {}
  <2> SUFFICES ASSUME Bad # {} PROVE FALSE
    OBVIOUS
  <2>1. Bad \subseteq Nat /\ \A n \in Nat : n \notin Bad <=> Summed(n)
    OBVIOUS
  <2> HIDE DEF Bad, Summed
  <2>2. PICK b \in Bad : \A n \in Bad : b <= n
    BY <2>1, LeastOf
  <2>3. b \in Nat /\ b # 0
    BY <1>3, <2>1, <2>2
  <2>4. b - 1 \in Nat /\ b - 1 \notin Bad /\ (b - 1) + 1 = b
    BY <2>2, <2>3
  <2>5. Summed(b)
    BY <1>4, <2>1, <2>4
  <2>6. QED
    BY <2>1, <2>3, <2>5
<1>6. Summed(Cardinality(S))
  BY <1>2, <1>5
<1>7. Upto(Cardinality(S)) = SUBSET S
  BY <1>1
<1>8. QED
  BY <1>6, <1>7

\* Two such sums of functions that agree are the same.
LEMMA SumsAgree ==
    ASSUME NEW S, IsFiniteSet(S), NEW f, NEW e, \A x \in S : f[x] = e[x],
           NEW D, SUBSET S \subseteq D, NEW g, NEW h, Sums(g, f, SUBSET S), Sums(h, e, D)
    PROVE  \A s \in SUBSET S : g[s] = h[s]
<1> DEFINE Bad == {Cardinality(s) : s \in {t \in SUBSET S : g[t] # h[t]}}
<1> SUFFICES ASSUME Bad # {} PROVE FALSE
  OBVIOUS
<1>1. Bad \subseteq Nat
  BY FS_Subset, FS_CardinalityType
<1>2. PICK b \in Bad : \A n \in Bad : b <= n
  BY <1>1, LeastOf
<1>3. PICK s \in SUBSET S : b = Cardinality(s) /\ g[s] # h[s]
  BY <1>2
<1>4. s # {}
  BY <1>3 DEF Sums
<1> DEFINE x == ChosenOf(s)
           u == s \ {x}
<1>5. x \in s /\ x \in S
  BY <1>4, Chosen
<1>6. u \in SUBSET S /\ b \in Nat /\ Cardinality(u) \in Nat /\ Cardinality(u) = b - 1
  BY <1>3, <1>5, OneLess
<1>7. g[u] = h[u]
  <2> SUFFICES ASSUME g[u] # h[u] PROVE FALSE
    OBVIOUS
  <2> HIDE DEF u
  <2>1. Cardinality(u) \in Bad
    BY <1>6
  <2>2. QED
    BY <1>2, <1>6, <2>1
<1>8. g[s] = f[x] + g[u] /\ h[s] = e[x] + h[u]
  BY <1>4 DEF Sums
<1>9. QED
  BY <1>3, <1>5, <1>7, <1>8

\* The fold is that sum, of every subset.
IsFold(g, f, S) ==
    /\ g \in [SUBSET S -> Int]
    /\ Sums(g, f, SUBSET S)
    /\ \A s \in SUBSET S : SumFunctionOnSet(f, s) = g[s]

LEMMA FoldIsSum ==
    ASSUME NEW S, IsFiniteSet(S), NEW f, \A x \in S : f[x] \in Int
    PROVE  \E g : IsFold(g, f, S)
<1>1. PICK g \in [SUBSET S -> Int] : Sums(g, f, SUBSET S)
  BY SumIsThere
<1>2. ASSUME NEW s \in SUBSET S PROVE SumFunctionOnSet(f, s) = g[s]
  <2> DEFINE Fold(h) == [t \in SUBSET s |-> IF t = {} THEN 0 ELSE f[ChosenOf(t)] + h[t \ {ChosenOf(t)}]]
             sum == CHOOSE h : h = Fold(h)
  <2>1. SumFunctionOnSet(f, s) = sum[s]
    BY DEF SumFunctionOnSet, FoldFunctionOnSet, MapThenFoldSet, ChosenOf
  <2>2. IsFiniteSet(s) /\ \A x \in s : f[x] \in Int
    BY FS_Subset
  <2>3. PICK e \in [SUBSET s -> Int] : Sums(e, f, SUBSET s)
    BY <2>2, SumIsThere
  <2>4. e = Fold(e)
    <3>1. DOMAIN e = SUBSET s /\ DOMAIN Fold(e) = SUBSET s
      OBVIOUS
    <3>2. \A t \in SUBSET s : e[t] = Fold(e)[t]
      BY <2>3 DEF Sums
    <3>3. QED
      BY <2>3, <3>1, <3>2
  <2>5. sum = Fold(sum)
    BY <2>4
  <2>6. Sums(sum, f, SUBSET s)
    <3> SUFFICES ASSUME NEW t \in SUBSET s
                 PROVE  sum[t] = IF t = {} THEN 0 ELSE f[ChosenOf(t)] + sum[t \ {ChosenOf(t)}]
      BY DEF Sums
    <3>1. Fold(sum)[t] = IF t = {} THEN 0 ELSE f[ChosenOf(t)] + sum[t \ {ChosenOf(t)}]
      OBVIOUS
    <3> HIDE DEF Fold, sum
    <3>2. QED
      BY <2>5, <3>1
  <2> HIDE DEF sum
  <2>7. SUBSET s \subseteq SUBSET S
    OBVIOUS
  <2>8. \A t \in SUBSET s : sum[t] = g[t]
    <3>1. \A x \in s : f[x] = f[x]
      OBVIOUS
    <3>2. QED
      BY <1>1, <2>2, <2>6, <2>7, <3>1, SumsAgree
  <2>9. QED
    BY <2>1, <2>8
<1>3. QED
  BY <1>1, <1>2 DEF IsFold

\* Any element may be taken away from such a sum.
LEMMA SumLosesAny ==
    ASSUME NEW S, IsFiniteSet(S), NEW f, \A x \in S : f[x] \in Int,
           NEW g, IsFold(g, f, S), NEW whole \in SUBSET S, NEW any \in whole
    PROVE  g[whole] = f[any] + g[whole \ {any}]
<1> DEFINE Loses(s) == \A y \in s : g[s] = f[y] + g[s \ {y}]
           Bad == {Cardinality(s) : s \in {t \in SUBSET S : ~Loses(t)}}
<1> SUFFICES ASSUME Bad # {} PROVE FALSE
  OBVIOUS
<1> g \in [SUBSET S -> Int] /\ Sums(g, f, SUBSET S)
  BY DEF IsFold
<1>1. Bad \subseteq Nat
  BY FS_Subset, FS_CardinalityType
<1>2. PICK b \in Bad : \A n \in Bad : b <= n
  BY <1>1, LeastOf
<1>3. PICK s \in SUBSET S : b = Cardinality(s) /\ ~Loses(s)
  BY <1>2
<1>4. PICK y \in s : g[s] # f[y] + g[s \ {y}]
  BY <1>3
<1> DEFINE x == ChosenOf(s)
<1>5. x \in s /\ x \in S /\ y \in S /\ g[s] = f[x] + g[s \ {x}]
  BY <1>4, Chosen DEF Sums
<1> HIDE DEF x
<1>6. x # y
  BY <1>4, <1>5
<1>7. ASSUME NEW z \in s PROVE Loses(s \ {z})
  <2>1. s \ {z} \in SUBSET S /\ b \in Nat /\ Cardinality(s \ {z}) \in Nat /\ Cardinality(s \ {z}) = b - 1
    BY <1>3, OneLess
  <2> DEFINE u == s \ {z}
  <2> HIDE DEF u, Loses
  <2>2. ~Loses(u) => Cardinality(u) \in Bad
    BY <2>1 DEF u
  <2>3. Cardinality(u) \notin Bad
    BY <1>2, <2>1 DEF u
  <2>4. QED
    BY <2>2, <2>3 DEF u
<1>8. g[s \ {x}] = f[y] + g[(s \ {x}) \ {y}] /\ g[s \ {y}] = f[x] + g[(s \ {y}) \ {x}]
  BY <1>4, <1>5, <1>6, <1>7
<1>9. (s \ {x}) \ {y} = (s \ {y}) \ {x} /\ (s \ {x}) \ {y} \in SUBSET S
  OBVIOUS
<1>10. g[(s \ {x}) \ {y}] \in Int /\ f[x] \in Int /\ f[y] \in Int
  BY <1>5, <1>9
<1> DEFINE rest == (s \ {x}) \ {y}
<1>11. g[s \ {x}] = f[y] + g[rest] /\ g[s \ {y}] = f[x] + g[rest] /\ g[rest] \in Int
  BY <1>8, <1>9, <1>10
<1> HIDE DEF rest
<1>12. g[s] = f[x] + (f[y] + g[rest]) /\ f[y] + g[s \ {y}] = f[y] + (f[x] + g[rest])
  BY <1>5, <1>11
<1>13. f[x] + (f[y] + g[rest]) = f[y] + (f[x] + g[rest])
  BY <1>10, <1>11
<1>14. QED
  BY <1>4, <1>12, <1>13

-----------------------------------------------------------------------------
\* What a sum is.

LEMMA SumOfNothing == ASSUME NEW f PROVE SumFunctionOnSet(f, {}) = 0
<1>1. IsFiniteSet({}) /\ \A x \in {} : f[x] \in Int
  BY FS_EmptySet
<1>2. PICK g : IsFold(g, f, {})
  BY <1>1, FoldIsSum
<1>3. SumFunctionOnSet(f, {}) = g[{}] /\ g[{}] = 0
  BY <1>2 DEF IsFold, Sums
<1>4. QED
  BY <1>3

LEMMA SumIsANumber ==
    ASSUME NEW S, IsFiniteSet(S), NEW f, \A x \in S : f[x] \in Int
    PROVE  SumFunctionOnSet(f, S) \in Int
<1>1. PICK g : IsFold(g, f, S)
  BY FoldIsSum
<1>2. QED
  BY <1>1 DEF IsFold

LEMMA SumAdds ==
    ASSUME NEW S, IsFiniteSet(S), NEW f, NEW y, y \notin S, \A x \in S \cup {y} : f[x] \in Int
    PROVE  SumFunctionOnSet(f, S \cup {y}) = SumFunctionOnSet(f, S) + f[y]
<1> DEFINE T == S \cup {y}
<1>1. IsFiniteSet(T) /\ (\A x \in T : f[x] \in Int) /\ f[y] \in Int
  BY FS_AddElement
<1>2. S \in SUBSET T /\ T \in SUBSET T /\ y \in T /\ T \ {y} = S
  OBVIOUS
<1> HIDE DEF T
<1>3. PICK g : IsFold(g, f, T)
  BY <1>1, FoldIsSum
<1>4. /\ g \in [SUBSET T -> Int] /\ Sums(g, f, SUBSET T)
      /\ SumFunctionOnSet(f, T) = g[T] /\ SumFunctionOnSet(f, S) = g[S] /\ g[S] \in Int
  BY <1>2, <1>3 DEF IsFold
<1>5. g[T] = f[y] + g[T \ {y}]
  BY <1>1, <1>2, <1>3, SumLosesAny
<1>6. g[T] = f[y] + g[S]
  BY <1>2, <1>5
<1>7. QED
  BY <1>1, <1>4, <1>6 DEF T

LEMMA SumTakesAway ==
    ASSUME NEW S, IsFiniteSet(S), NEW f, NEW y \in S, \A x \in S : f[x] \in Int
    PROVE  /\ SumFunctionOnSet(f, S) = SumFunctionOnSet(f, S \ {y}) + f[y]
           /\ SumFunctionOnSet(f, S \ {y}) \in Int
<1>1. PICK rest : rest = S \ {y}
  OBVIOUS
<1>2. y \notin rest /\ rest \cup {y} = S /\ IsFiniteSet(rest) /\ \A x \in rest : f[x] \in Int
  BY <1>1, FS_Subset
<1>3. SumFunctionOnSet(f, rest \cup {y}) = SumFunctionOnSet(f, rest) + f[y]
  BY <1>2, SumAdds
<1>4. SumFunctionOnSet(f, rest) \in Int
  BY <1>2, SumIsANumber
<1>5. QED
  BY <1>1, <1>2, <1>3, <1>4

LEMMA SumOfTheSame ==
    ASSUME NEW S, IsFiniteSet(S), NEW f, NEW e, \A x \in S : f[x] \in Int /\ f[x] = e[x]
    PROVE  SumFunctionOnSet(f, S) = SumFunctionOnSet(e, S)
<1>1. PICK g : IsFold(g, f, S)
  BY FoldIsSum
<1>2. PICK h : IsFold(h, e, S)
  BY FoldIsSum
<1>3. /\ Sums(g, f, SUBSET S) /\ SumFunctionOnSet(f, S) = g[S]
      /\ Sums(h, e, SUBSET S) /\ SumFunctionOnSet(e, S) = h[S]
  BY <1>1, <1>2 DEF IsFold
<1>4. \A s \in SUBSET S : g[s] = h[s]
  BY <1>3, SumsAgree
<1>5. QED
  BY <1>3, <1>4

-----------------------------------------------------------------------------
\* What a fold over a list makes of it, when every step stays within a set.  Such a fold is
\* a function of the sets of places, which takes the last place away.

\* g does the step for the last place of each set of D, on what it made of the others.
Iterates(g, base, step, last, D) ==
    \A s \in D : g[s] = IF s = {} THEN base ELSE step[<<g[s \ {last[s]}], last[s]>>]

LEMMA FoldIsThere ==
    ASSUME NEW S, IsFiniteSet(S), NEW A, NEW base \in A, NEW step \in [A \X S -> A],
           NEW last, \A s \in SUBSET S : s # {} => last[s] \in s
    PROVE  \E g \in [SUBSET S -> A] : Iterates(g, base, step, last, SUBSET S)
<1> DEFINE Upto(n) == {s \in SUBSET S : Cardinality(s) <= n}
           Made(n) == \E g \in [Upto(n) -> A] : Iterates(g, base, step, last, Upto(n))
           Bad == {n \in Nat : ~Made(n)}
<1>1. \A s \in SUBSET S : IsFiniteSet(s) /\ Cardinality(s) \in Nat /\ Cardinality(s) <= Cardinality(S)
  BY FS_Subset, FS_CardinalityType
<1>2. Cardinality(S) \in Nat
  BY FS_CardinalityType
<1>3. Made(0)
  <2>1. \A s \in Upto(0) : s = {}
    BY <1>1, FS_EmptySet
  <2> DEFINE g == [s \in Upto(0) |-> base]
  <2>2. g \in [Upto(0) -> A] /\ \A s \in Upto(0) : g[s] = base
    OBVIOUS
  <2>3. Iterates(g, base, step, last, Upto(0))
    BY <2>1, <2>2 DEF Iterates
  <2>4. QED
    BY <2>2, <2>3
<1>4. ASSUME NEW n \in Nat, Made(n) PROVE Made(n + 1)
  <2>1. PICK g \in [Upto(n) -> A] : Iterates(g, base, step, last, Upto(n))
    BY <1>4
  <2> DEFINE D == Upto(n + 1)
             value(s) == IF s = {} THEN base ELSE step[<<g[s \ {last[s]}], last[s]>>]
             h == [s \in D |-> value(s)]
  <2>2. \A s \in D : s # {} => /\ last[s] \in S
                               /\ s \ {last[s]} \in Upto(n)
                               /\ s \ {last[s]} \in D
    <3> SUFFICES ASSUME NEW s \in D, s # {}
                 PROVE  /\ last[s] \in S
                        /\ s \ {last[s]} \in Upto(n)
                        /\ s \ {last[s]} \in D
      OBVIOUS
    <3>1. last[s] \in s /\ s \in SUBSET S /\ Cardinality(s) <= n + 1
      OBVIOUS
    <3> DEFINE u == s \ {last[s]}
    <3>2. /\ u \in SUBSET S
          /\ Cardinality(s) \in Nat /\ Cardinality(u) \in Nat
          /\ Cardinality(u) = Cardinality(s) - 1
      BY <3>1, OneLess
    <3> HIDE DEF u
    <3>3. Cardinality(u) <= n /\ Cardinality(u) <= n + 1
      BY <3>1, <3>2
    <3>4. QED
      BY <3>1, <3>2, <3>3 DEF u
  <2>3. \A s \in Upto(n) : value(s) = g[s]
    BY <2>1 DEF Iterates
  <2>4. \A s \in D : value(s) \in A
    <3> SUFFICES ASSUME NEW s \in D, s # {} PROVE step[<<g[s \ {last[s]}], last[s]>>] \in A
      OBVIOUS
    <3>1. s \ {last[s]} \in Upto(n) /\ last[s] \in S
      BY <2>2
    <3> HIDE DEF Upto, D
    <3>2. g[s \ {last[s]}] \in A
      BY <3>1
    <3>3. QED
      BY <3>1, <3>2
  <2>5. \A s \in D : h[s] = value(s)
    OBVIOUS
  <2>6. h \in [D -> A]
    BY <2>4
  <2>7. \A s \in D : s # {} => h[s \ {last[s]}] = g[s \ {last[s]}]
    <3> SUFFICES ASSUME NEW s \in D, s # {} PROVE h[s \ {last[s]}] = g[s \ {last[s]}]
      OBVIOUS
    <3>1. s \ {last[s]} \in Upto(n) /\ s \ {last[s]} \in D
      BY <2>2
    <3> HIDE DEF value, h, D, Upto
    <3>2. QED
      BY <2>3, <2>5, <3>1
  <2>8. Iterates(h, base, step, last, D)
    <3> SUFFICES ASSUME NEW s \in D
                 PROVE  h[s] = IF s = {} THEN base ELSE step[<<h[s \ {last[s]}], last[s]>>]
      BY DEF Iterates
    <3>1. h[s] = value(s) /\ (s # {} => h[s \ {last[s]}] = g[s \ {last[s]}])
      BY <2>5, <2>7
    <3> HIDE DEF h, D
    <3>2. QED
      BY <3>1
  <2>9. QED
    BY <2>6, <2>8
<1>5. Bad = {}
  <2> SUFFICES ASSUME Bad # {} PROVE FALSE
    OBVIOUS
  <2>1. Bad \subseteq Nat /\ \A n \in Nat : n \notin Bad <=> Made(n)
    OBVIOUS
  <2> HIDE DEF Bad, Made
  <2>2. PICK b \in Bad : \A n \in Bad : b <= n
    BY <2>1, LeastOf
  <2>3. b \in Nat /\ b # 0
    BY <1>3, <2>1, <2>2
  <2>4. b - 1 \in Nat /\ b - 1 \notin Bad /\ (b - 1) + 1 = b
    BY <2>2, <2>3
  <2>5. Made(b)
    BY <1>4, <2>1, <2>4
  <2>6. QED
    BY <2>1, <2>3, <2>5
<1>6. Made(Cardinality(S))
  BY <1>2, <1>5
<1>7. Upto(Cardinality(S)) = SUBSET S
  BY <1>1
<1>8. QED
  <2> PICK D : D = Upto(Cardinality(S))
    OBVIOUS
  <2>1. PICK g \in [D -> A] : Iterates(g, base, step, last, D)
    BY <1>6
  <2>2. D = SUBSET S
    BY <1>7
  <2>3. g \in [SUBSET S -> A]
    BY <2>1, <2>2
  <2>4. Iterates(g, base, step, last, SUBSET S)
    BY <2>1, <2>2, Zenon
  <2>5. QED
    BY <2>3, <2>4, Zenon

\* A function of sets whose steps stay within A stays there.
LEMMA FoldStays ==
    ASSUME NEW S, IsFiniteSet(S), NEW A, NEW h, h[{}] \in A,
           NEW last, \A s \in SUBSET S : s # {} => last[s] \in s,
           \A s \in SUBSET S : s # {} /\ h[s \ {last[s]}] \in A => h[s] \in A
    PROVE  \A s \in SUBSET S : h[s] \in A
<1> DEFINE Bad == {Cardinality(s) : s \in {t \in SUBSET S : h[t] \notin A}}
<1> SUFFICES ASSUME Bad # {} PROVE FALSE
  OBVIOUS
<1>1. Bad \subseteq Nat
  BY FS_Subset, FS_CardinalityType
<1>2. PICK b \in Bad : \A n \in Bad : b <= n
  BY <1>1, LeastOf
<1>3. PICK s \in SUBSET S : h[s] \notin A /\ Cardinality(s) = b
  BY <1>2
<1>4. s # {} /\ last[s] \in s
  BY <1>3
<1>5. PICK u : u = s \ {last[s]}
  OBVIOUS
<1>6. u \in SUBSET S /\ Cardinality(u) \in Nat /\ Cardinality(s) \in Nat /\ Cardinality(u) = Cardinality(s) - 1
  BY <1>4, <1>5, OneLess
<1>7. h[u] \in A
  <2> SUFFICES ASSUME h[u] \notin A PROVE FALSE
    OBVIOUS
  <2>1. Cardinality(u) \in Bad
    BY <1>6
  <2>2. QED
    BY <1>2, <1>3, <1>6, <2>1
<1>8. QED
  BY <1>3, <1>4, <1>5, <1>7

\* The last place of each set of places of a list.
LEMMA LastPlaces ==
    ASSUME NEW n \in Nat
    PROVE  IsFiniteSet(1..n) /\ \A s \in SUBSET (1..n) : s # {} => Max(s) \in s
<1>1. IsFiniteSet(1..n)
  BY FS_Interval
<1>2. ASSUME NEW s \in SUBSET (1..n), s # {} PROVE Max(s) \in s
  <2>1. n \in Int /\ s \subseteq Int /\ \A d \in s : d <= n
    OBVIOUS
  <2>2. QED
    BY <1>2, <2>1, MaxIsGreatest
<1>3. QED
  BY <1>1, <1>2

\* g takes the step for the last place of a list of n.
FoldsList(g, base, step, n) ==
    \A s \in SUBSET (1..n) : g[s] = IF s = {} THEN base ELSE step[<<g[s \ {Max(s)}], Max(s)>>]

\* A fold over a list of n is there, and every function of sets that takes its step for
\* the last place ends within A.
LEMMA ListFoldIsThere ==
    ASSUME NEW n \in Nat, NEW A, NEW base \in A, NEW step \in [A \X (1..n) -> A]
    PROVE  \E g \in [SUBSET (1..n) -> A] : FoldsList(g, base, step, n)
<1> DEFINE last == [s \in SUBSET (1..n) |-> Max(s)]
<1>1. \A s \in SUBSET (1..n) : last[s] = Max(s)
  OBVIOUS
<1>2. IsFiniteSet(1..n) /\ \A s \in SUBSET (1..n) : s # {} => last[s] \in s
  BY <1>1, LastPlaces
<1> HIDE DEF last
<1>3. PICK S : S = 1..n
  OBVIOUS
<1>4. PICK g \in [SUBSET S -> A] : Iterates(g, base, step, last, SUBSET S)
  BY <1>2, <1>3, FoldIsThere
<1>5. QED
  BY <1>1, <1>3, <1>4 DEF Iterates, FoldsList

LEMMA ListFoldLands ==
    ASSUME NEW n \in Nat, NEW A, NEW h, h[{}] \in A,
           \A s \in SUBSET (1..n) : s # {} /\ h[s \ {Max(s)}] \in A => h[s] \in A
    PROVE  h[1..n] \in A
<1> DEFINE last == [s \in SUBSET (1..n) |-> Max(s)]
<1>1. \A s \in SUBSET (1..n) : last[s] = Max(s)
  OBVIOUS
<1>2. IsFiniteSet(1..n) /\ \A s \in SUBSET (1..n) : s # {} => last[s] \in s
  BY <1>1, LastPlaces
<1>3. \A s \in SUBSET (1..n) : s # {} /\ h[s \ {last[s]}] \in A => h[s] \in A
  BY <1>1
<1> HIDE DEF last
<1>4. PICK S : S = 1..n
  OBVIOUS
<1>5. \A s \in SUBSET S : h[s] \in A
  BY <1>2, <1>3, <1>4, FoldStays
<1>6. QED
  BY <1>4, <1>5
=============================================================================
