------------------------- MODULE FinanceViewsProofs -------------------------
(***************************************************************************)
(* What analytics say of a database agrees, and an annotation never hangs  *)
(* in the air, for any finite set of transactions, any facts, categories   *)
(* and budgets.                                                            *)
(*                                                                         *)
(* The first part is about sums over finite sets: what SumFunctionOnSet    *)
(* gives, by induction over the subsets of a set.  The second is about the *)
(* reports of one database of the right types, whatever led to it; the     *)
(* third about the steps of syncs and turns.                               *)
(***************************************************************************)
EXTENDS FinanceViews, FiniteSetTheorems, WellFoundedInduction, TLAPS
-----------------------------------------------------------------------------
(* Sums over finite sets.                                                  *)

\* A set of naturals that is not empty has a least element.
LEMMA LeastNatural ==
    ASSUME NEW N \in SUBSET Nat, N # {}
    PROVE  \E m \in N : \A n \in N : m <= n
<1> DEFINE R == OpToRel(<, Nat)
<1>1. IsWellFoundedOn(R, Nat)
  BY NatLessThanWellFounded
<1>2. \A x, y \in Nat : x < y => <<x, y>> \in R
  BY DEF OpToRel
<1> HIDE DEF R
<1>3. PICK m \in N : \A n \in N : <<n, m>> \notin R
  BY <1>1, WFMin
<1>4. \A n \in N : n \in Nat /\ m \in Nat /\ ~(n < m)
  BY <1>2, <1>3
<1> QED BY <1>4

\* Induction over the subsets of a finite set: what holds of a set when it
\* holds of the set without any one of its elements, holds of all of them.
LEMMA SubsetInduction ==
    ASSUME NEW S, IsFiniteSet(S), NEW F,
           \A T \in SUBSET S : (\A x \in T : T \ {x} \in F) => T \in F
    PROVE  \A T \in SUBSET S : T \in F
<1> SUFFICES ASSUME NEW T0 \in SUBSET S, T0 \notin F PROVE FALSE
  OBVIOUS
<1> DEFINE Bad == {T \in SUBSET S : T \notin F}
           Sizes == {Cardinality(T) : T \in Bad}
<1>1. \A T \in SUBSET S : IsFiniteSet(T) /\ Cardinality(T) \in Nat
  BY FS_Subset, FS_CardinalityType
<1>2. Sizes \in SUBSET Nat /\ Sizes # {}
  BY <1>1
<1>3. PICK m \in Sizes : \A n \in Sizes : m <= n
  <2> HIDE DEF Sizes
  <2> QED BY <1>2, LeastNatural
<1>4. PICK T \in Bad : m = Cardinality(T)
  OBVIOUS
<1>5. ASSUME NEW x \in T PROVE T \ {x} \in F
  <2>1. Cardinality(T \ {x}) = Cardinality(T) - 1 /\ T \ {x} \in SUBSET S
    BY <1>1, <1>4, FS_RemoveElement
  <2>2. T \ {x} \notin Bad
    <3> SUFFICES ASSUME T \ {x} \in Bad PROVE FALSE
      OBVIOUS
    <3>1. Cardinality(T \ {x}) \in Sizes
      OBVIOUS
    <3>2. m <= Cardinality(T) - 1
      BY <1>3, <2>1, <3>1
    <3>3. Cardinality(T) \in Nat /\ m = Cardinality(T)
      BY <1>1, <1>4
    <3> HIDE DEF Bad, Sizes
    <3> QED BY <3>2, <3>3
  <2> QED BY <2>1, <2>2
<1> QED BY <1>4, <1>5

\* One step of a sum.
SumStep(g, it, s) ==
    IF s = {} THEN 0
    ELSE LET x == CHOOSE x \in s : TRUE IN g[x] + it[s \ {x}]

\* it[s] is the sum of g over s, for every subset s of S.
IsSum(g, S, it) == it = [s \in SUBSET S |-> SumStep(g, it, s)]

\* For short.
Sum(g, S) == SumFunctionOnSet(g, S)

\* What it[s] is in terms of smaller sets.
LEMMA SumSteps ==
    ASSUME NEW g, NEW S, NEW it, IsSum(g, S, it), NEW s \in SUBSET S
    PROVE  it[s] = SumStep(g, it, s)
<1>1. [r \in SUBSET S |-> SumStep(g, it, r)][s] = SumStep(g, it, s)
  OBVIOUS
<1> QED BY <1>1, Zenon DEF IsSum

\* There is such a function for a finite set.
LEMMA SumExists ==
    ASSUME NEW S, IsFiniteSet(S), NEW g
    PROVE  \E it : IsSum(g, S, it)
<1> DEFINE Upto(n) == {s \in SUBSET S : Cardinality(s) <= n}
           Does(n, it) == it = [s \in Upto(n) |-> SumStep(g, it, s)]
           N == {n \in Nat : ~ \E it : Does(n, it)}
<1>1. \A T \in SUBSET S : /\ IsFiniteSet(T) /\ Cardinality(T) \in Nat
                          /\ Cardinality(T) <= Cardinality(S)
  BY FS_Subset, FS_CardinalityType
<1>2. \E it : Does(0, it)
  <2>1. \A s \in Upto(0) : s = {}
    BY <1>1, FS_EmptySet
  <2>2. Does(0, [s \in Upto(0) |-> 0])
    BY <2>1 DEF SumStep
  <2> QED BY <2>2
<1>3. ASSUME NEW n \in Nat, NEW it, Does(n, it)
      PROVE  \E jt : Does(n + 1, jt)
  <2> DEFINE jt == [s \in Upto(n + 1) |-> SumStep(g, it, s)]
  <2>1. \A s \in Upto(n) : s \in Upto(n + 1) /\ it[s] = SumStep(g, it, s)
    BY <1>1, <1>3
  <2>2. \A s \in Upto(n) : jt[s] = it[s]
    BY <2>1
  <2>3. ASSUME NEW s \in Upto(n + 1), s # {}
        PROVE  s \ {CHOOSE x \in s : TRUE} \in Upto(n)
    <3> DEFINE c == CHOOSE x \in s : TRUE
    <3>1. c \in s
      BY <2>3
    <3>2. s \in SUBSET S /\ IsFiniteSet(s) /\ Cardinality(s) \in Nat
          /\ Cardinality(s) <= n + 1
      BY <1>1
    <3> HIDE DEF c
    <3>3. Cardinality(s \ {c}) = Cardinality(s) - 1
      BY <3>1, <3>2, FS_RemoveElement
    <3>4. s \ {c} \in SUBSET S /\ Cardinality(s \ {c}) <= n
      BY <3>2, <3>3
    <3>5. s \ {c} \in Upto(n)
      BY <3>4
    <3> QED BY <3>5 DEF c
  <2> HIDE DEF Upto, jt
  <2>4. \A s \in Upto(n + 1) : SumStep(g, it, s) = SumStep(g, jt, s)
    BY <2>2, <2>3 DEF SumStep
  <2>5. Does(n + 1, jt)
    BY <2>4 DEF jt
  <2> QED BY <2>5
<1>4. N = {}
  <2> SUFFICES ASSUME N # {} PROVE FALSE
    OBVIOUS
  <2>1. PICK m \in N : \A n \in N : m <= n
    <3>1. N \in SUBSET Nat
      OBVIOUS
    <3> HIDE DEF N
    <3> QED BY <3>1, LeastNatural
  <2>2. m # 0 /\ m - 1 \in Nat /\ m = (m - 1) + 1 /\ m - 1 \notin N
    <3>1. m \in Nat /\ 0 \notin N
      BY <1>2
    <3> HIDE DEF N
    <3> QED BY <2>1, <3>1
  <2>3. PICK it : Does(m - 1, it)
    BY <2>2
  <2> HIDE DEF Does
  <2>4. \E jt : Does(m, jt)
    BY <1>3, <2>2, <2>3
  <2> QED BY <2>1, <2>4
<1>5. Cardinality(S) \in Nat /\ SUBSET S = Upto(Cardinality(S))
  BY <1>1
<1>6. PICK it : Does(Cardinality(S), it)
  BY <1>4, <1>5
<1>7. IsSum(g, S, it)
  BY <1>5, <1>6 DEF IsSum
<1> QED BY <1>7

\* There is only one, and it depends on g within s alone.
LEMMA SumUnique ==
    ASSUME NEW S, IsFiniteSet(S), NEW T, IsFiniteSet(T),
           NEW g, NEW h, NEW it, NEW jt, IsSum(g, S, it), IsSum(h, T, jt),
           NEW s \in SUBSET (S \cap T), \A x \in s : g[x] = h[x]
    PROVE  it[s] = jt[s]
<1> DEFINE F == {r \in SUBSET s : it[r] = jt[r]}
<1>1. ASSUME NEW r \in SUBSET s, \A x \in r : r \ {x} \in F
      PROVE  r \in F
  <2>1. it[r] = SumStep(g, it, r) /\ jt[r] = SumStep(h, jt, r)
    BY SumSteps
  <2>2. CASE r = {}
    BY <2>1, <2>2 DEF SumStep
  <2>3. CASE r # {}
    <3> DEFINE c == CHOOSE x \in r : TRUE
    <3>1. c \in r
      BY <2>3
    <3> HIDE DEF c
    <3>2. it[r \ {c}] = jt[r \ {c}] /\ g[c] = h[c]
      BY <1>1, <3>1
    <3>3. it[r] = g[c] + it[r \ {c}] /\ jt[r] = h[c] + jt[r \ {c}]
      BY <2>1, <2>3 DEF SumStep, c
    <3> QED BY <3>2, <3>3
  <2> QED BY <2>2, <2>3
<1>2. IsFiniteSet(s)
  BY FS_Subset
<1>3. \A r \in SUBSET s : r \in F
  <2> HIDE DEF F
  <2> QED BY <1>1, <1>2, SubsetInduction
<1> QED BY <1>3

\* Whatever adds g up over the subsets of S, has its sum over S.
LEMMA SumIs ==
    ASSUME NEW S, IsFiniteSet(S), NEW g, NEW it, IsSum(g, S, it)
    PROVE  it[S] = Sum(g, S)
<1> DEFINE jt == CHOOSE jt : IsSum(g, S, jt)
<1>1. Sum(g, S) = jt[S]
  BY DEF Sum, SumFunctionOnSet, FoldFunctionOnSet, MapThenFoldSet, IsSum, SumStep
<1>2. IsSum(g, S, jt)
  OBVIOUS
<1> HIDE DEF jt
<1> QED BY <1>1, <1>2, SumUnique

\* A sum is what the elements of its set give.
LEMMA SumCongruent ==
    ASSUME NEW S, IsFiniteSet(S), NEW g, NEW h, \A x \in S : g[x] = h[x]
    PROVE  Sum(g, S) = Sum(h, S)
<1>1. PICK it : IsSum(g, S, it)
  BY SumExists
<1>2. PICK jt : IsSum(h, S, jt)
  BY SumExists
<1> QED BY <1>1, <1>2, SumIs, SumUnique

\* Nothing adds up to zero.
LEMMA SumOfNone == ASSUME NEW g PROVE Sum(g, {}) = 0
<1>1. PICK it : IsSum(g, {}, it)
  BY SumExists, FS_EmptySet
<1>2. it[{}] = 0
  BY <1>1, SumSteps DEF SumStep
<1> QED BY <1>1, <1>2, SumIs, FS_EmptySet

\* A sum takes some element first.
LEMMA SumTakesOne ==
    ASSUME NEW S, IsFiniteSet(S), S # {}, NEW g
    PROVE  \E c \in S : Sum(g, S) = g[c] + Sum(g, S \ {c})
<1> DEFINE c == CHOOSE x \in S : TRUE
<1>1. c \in S
  OBVIOUS
<1>2. PICK it : IsSum(g, S, it)
  BY SumExists
<1>3. it[S] = g[c] + it[S \ {c}]
  BY <1>2, SumSteps DEF SumStep
<1> HIDE DEF c
<1>4. IsFiniteSet(S \ {c})
  BY FS_Subset
<1>5. PICK jt : IsSum(g, S \ {c}, jt)
  BY <1>4, SumExists
<1>6. it[S \ {c}] = jt[S \ {c}]
  BY <1>2, <1>4, <1>5, SumUnique
<1>7. it[S] = Sum(g, S) /\ jt[S \ {c}] = Sum(g, S \ {c})
  BY <1>2, <1>4, <1>5, SumIs
<1> QED BY <1>1, <1>3, <1>6, <1>7

\* Integers add up to an integer.
LEMMA SumIsInt ==
    ASSUME NEW S, IsFiniteSet(S), NEW g, \A x \in S : g[x] \in Int
    PROVE  Sum(g, S) \in Int
<1> DEFINE F == {T \in SUBSET S : Sum(g, T) \in Int}
<1>1. ASSUME NEW T \in SUBSET S, \A x \in T : T \ {x} \in F
      PROVE  T \in F
  <2>1. CASE T = {}
    BY <2>1, SumOfNone
  <2>2. CASE T # {}
    <3>1. IsFiniteSet(T)
      BY FS_Subset
    <3>2. PICK c \in T : Sum(g, T) = g[c] + Sum(g, T \ {c})
      BY <2>2, <3>1, SumTakesOne
    <3>3. Sum(g, T \ {c}) \in Int /\ g[c] \in Int
      BY <1>1
    <3>4. Sum(g, T) \in Int
      BY <3>2, <3>3
    <3> QED BY <3>4
  <2> QED BY <2>1, <2>2
<1>2. \A T \in SUBSET S : T \in F
  <2> HIDE DEF F
  <2> QED BY <1>1, SubsetInduction
<1> QED BY <1>2

\* ... or any other: the order does not matter.
LEMMA SumTakesAny ==
    ASSUME NEW S, IsFiniteSet(S), NEW g, \A x \in S : g[x] \in Int
    PROVE  \A y \in S : Sum(g, S) = g[y] + Sum(g, S \ {y})
<1> DEFINE F == {T \in SUBSET S : \A y \in T : Sum(g, T) = g[y] + Sum(g, T \ {y})}
<1>1. \A T \in SUBSET S : IsFiniteSet(T) /\ Sum(g, T) \in Int
  <2> SUFFICES ASSUME NEW T \in SUBSET S PROVE IsFiniteSet(T) /\ Sum(g, T) \in Int
    OBVIOUS
  <2>1. IsFiniteSet(T)
    BY FS_Subset
  <2> QED BY <2>1, SumIsInt
<1>2. ASSUME NEW T \in SUBSET S, \A x \in T : T \ {x} \in F
      PROVE  T \in F
  <2> SUFFICES ASSUME NEW y \in T PROVE Sum(g, T) = g[y] + Sum(g, T \ {y})
    OBVIOUS
  <2>1. PICK c \in T : Sum(g, T) = g[c] + Sum(g, T \ {c})
    BY <1>1, SumTakesOne
  <2>2. CASE c # y
    <3>1. Sum(g, T \ {c}) = g[y] + Sum(g, (T \ {c}) \ {y})
      BY <1>2, <2>2
    <3>2. Sum(g, T \ {y}) = g[c] + Sum(g, (T \ {y}) \ {c})
      BY <1>2, <2>2
    <3> DEFINE n == Sum(g, (T \ {y}) \ {c})
    <3>3. Sum(g, (T \ {c}) \ {y}) = n
      <4>1. (T \ {c}) \ {y} = (T \ {y}) \ {c}
        OBVIOUS
      <4> QED BY <4>1, Zenon
    <3>4. g[c] \in Int /\ g[y] \in Int /\ n \in Int
      BY <1>1
    <3>5. Sum(g, T) = g[c] + (g[y] + n) /\ Sum(g, T \ {y}) = g[c] + n
      BY <2>1, <3>1, <3>2, <3>3, Zenon
    <3> HIDE DEF F, n
    <3> QED BY <3>4, <3>5
  <2> QED BY <2>1, <2>2
<1>3. \A T \in SUBSET S : T \in F
  <2> HIDE DEF F
  <2> QED BY <1>2, SubsetInduction
<1> QED BY <1>3

\* One element is its own sum.
LEMMA SumOfOne ==
    ASSUME NEW x, NEW g, g[x] \in Int
    PROVE  Sum(g, {x}) = g[x]
<1>1. IsFiniteSet({x}) /\ {x} \ {x} = {}
  BY FS_Singleton
<1>2. Sum(g, {x}) = g[x] + Sum(g, {x} \ {x})
  BY <1>1, SumTakesAny
<1> QED BY <1>1, <1>2, SumOfNone

\* Zeros add up to zero.
LEMMA SumOfZeros ==
    ASSUME NEW S, IsFiniteSet(S), NEW g, \A x \in S : g[x] = 0
    PROVE  Sum(g, S) = 0
<1> DEFINE F == {T \in SUBSET S : Sum(g, T) = 0}
<1>1. ASSUME NEW T \in SUBSET S, \A x \in T : T \ {x} \in F
      PROVE  T \in F
  <2>1. CASE T = {}
    BY <2>1, SumOfNone
  <2>2. CASE T # {}
    <3>1. IsFiniteSet(T)
      BY FS_Subset
    <3>2. PICK c \in T : Sum(g, T) = g[c] + Sum(g, T \ {c})
      BY <2>2, <3>1, SumTakesOne
    <3>3. Sum(g, T \ {c}) = 0 /\ g[c] = 0
      BY <1>1
    <3>4. Sum(g, T) = 0
      BY <3>2, <3>3
    <3> QED BY <3>4
  <2> QED BY <2>1, <2>2
<1>2. \A T \in SUBSET S : T \in F
  <2> HIDE DEF F
  <2> QED BY <1>1, SubsetInduction
<1> QED BY <1>2

\* The sum of opposites is the opposite of the sum.
LEMMA SumOfOpposites ==
    ASSUME NEW S, IsFiniteSet(S), NEW g, NEW h, \A x \in S : g[x] \in Int /\ h[x] = -g[x]
    PROVE  Sum(h, S) = -Sum(g, S)
<1> DEFINE F == {T \in SUBSET S : Sum(h, T) = -Sum(g, T)}
<1>1. ASSUME NEW T \in SUBSET S, \A x \in T : T \ {x} \in F
      PROVE  T \in F
  <2>1. CASE T = {}
    BY <2>1, SumOfNone
  <2>2. CASE T # {}
    <3>1. IsFiniteSet(T) /\ \A x \in T : g[x] \in Int /\ h[x] \in Int
      BY FS_Subset
    <3>2. PICK c \in T : Sum(g, T) = g[c] + Sum(g, T \ {c})
      BY <2>2, <3>1, SumTakesOne
    <3>3. Sum(h, T) = h[c] + Sum(h, T \ {c})
      BY <3>1, SumTakesAny
    <3>4. Sum(h, T \ {c}) = -Sum(g, T \ {c}) /\ h[c] = -g[c] /\ g[c] \in Int
      BY <1>1
    <3>5. Sum(g, T \ {c}) \in Int
      <4>1. IsFiniteSet(T \ {c}) /\ \A x \in T \ {c} : g[x] \in Int
        BY <3>1, FS_RemoveElement
      <4> QED BY <4>1, SumIsInt
    <3>6. Sum(h, T) = -Sum(g, T)
      BY <3>2, <3>3, <3>4, <3>5
    <3> QED BY <3>6
  <2> QED BY <2>1, <2>2
<1>2. \A T \in SUBSET S : T \in F
  <2> HIDE DEF F
  <2> QED BY <1>1, SubsetInduction
<1> QED BY <1>2

\* The sum of a set is that of a part and of the rest.
LEMMA SumSplits ==
    ASSUME NEW S, IsFiniteSet(S), NEW g, \A x \in S : g[x] \in Int, NEW A \in SUBSET S
    PROVE  Sum(g, S) = Sum(g, A) + Sum(g, S \ A)
<1> DEFINE F == {T \in SUBSET S : Sum(g, T) = Sum(g, T \cap A) + Sum(g, T \ A)}
<1>1. \A T \in SUBSET S : IsFiniteSet(T) /\ Sum(g, T) \in Int
  <2> SUFFICES ASSUME NEW T \in SUBSET S PROVE IsFiniteSet(T) /\ Sum(g, T) \in Int
    OBVIOUS
  <2>1. IsFiniteSet(T)
    BY FS_Subset
  <2> QED BY <2>1, SumIsInt
<1>2. ASSUME NEW T \in SUBSET S, \A x \in T : T \ {x} \in F
      PROVE  T \in F
  <2>1. CASE T = {}
    <3>1. T \cap A = {} /\ T \ A = {}
      BY <2>1
    <3> QED BY <2>1, <3>1, SumOfNone
  <2>2. CASE T # {}
    <3>1. PICK c \in T : TRUE
      BY <2>2
    <3>2. Sum(g, T \ {c}) = Sum(g, (T \ {c}) \cap A) + Sum(g, (T \ {c}) \ A)
      BY <1>2
    <3>3. Sum(g, T) = g[c] + Sum(g, T \ {c}) /\ g[c] \in Int
      BY <1>1, SumTakesAny
    <3>4. Sum(g, T \cap A) \in Int /\ Sum(g, T \ A) \in Int
          /\ Sum(g, (T \ {c}) \cap A) \in Int /\ Sum(g, (T \ {c}) \ A) \in Int
      BY <1>1
    <3>5. CASE c \in A
      <4>1. (T \cap A) \ {c} = (T \ {c}) \cap A /\ T \ A = (T \ {c}) \ A
        BY <3>5
      <4>2. IsFiniteSet(T \cap A) /\ c \in T \cap A
        BY <1>1, <3>5
      <4>3. Sum(g, T \cap A) = g[c] + Sum(g, (T \cap A) \ {c})
        BY <4>2, SumTakesAny
      <4> DEFINE m == Sum(g, (T \ {c}) \cap A)
                 n == Sum(g, (T \ {c}) \ A)
      <4>4. Sum(g, T) = g[c] + (m + n) /\ Sum(g, T \cap A) = g[c] + m /\ Sum(g, T \ A) = n
        BY <3>2, <3>3, <4>1, <4>3, Zenon
      <4>5. m \in Int /\ n \in Int
        BY <3>4
      <4> HIDE DEF m, n
      <4>6. Sum(g, T) = Sum(g, T \cap A) + Sum(g, T \ A)
        BY <3>3, <4>4, <4>5
      <4> QED BY <4>6
    <3>6. CASE c \notin A
      <4>1. (T \ A) \ {c} = (T \ {c}) \ A /\ T \cap A = (T \ {c}) \cap A
        BY <3>6
      <4>2. IsFiniteSet(T \ A) /\ c \in T \ A
        BY <1>1, <3>6
      <4>3. Sum(g, T \ A) = g[c] + Sum(g, (T \ A) \ {c})
        BY <4>2, SumTakesAny
      <4> DEFINE m == Sum(g, (T \ {c}) \cap A)
                 n == Sum(g, (T \ {c}) \ A)
      <4>4. Sum(g, T) = g[c] + (m + n) /\ Sum(g, T \cap A) = m /\ Sum(g, T \ A) = g[c] + n
        BY <3>2, <3>3, <4>1, <4>3, Zenon
      <4>5. m \in Int /\ n \in Int
        BY <3>4
      <4> HIDE DEF m, n
      <4>6. Sum(g, T) = Sum(g, T \cap A) + Sum(g, T \ A)
        BY <3>3, <4>4, <4>5
      <4> QED BY <4>6
    <3> QED BY <3>5, <3>6
  <2> QED BY <2>1, <2>2
<1>3. \A T \in SUBSET S : T \in F
  <2> HIDE DEF F
  <2> QED BY <1>2, SubsetInduction
<1>4. S \cap A = A
  OBVIOUS
<1> QED BY <1>3, <1>4

\* The elements of S in one class.
Class(S, part, p) == {x \in S : part[x] = p}

\* A sum can be taken class by class: every x of S is in the class part[x].
LEMMA SumByParts ==
    ASSUME NEW S, IsFiniteSet(S), NEW g, \A x \in S : g[x] \in Int,
           NEW P, IsFiniteSet(P), NEW part, \A x \in S : part[x] \in P,
           NEW h, \A p \in P : h[p] = Sum(g, Class(S, part, p))
    PROVE  Sum(g, S) = Sum(h, P)
<1> DEFINE Of(Q) == {x \in S : part[x] \in Q}
           F == {Q \in SUBSET P : Sum(g, Of(Q)) = Sum(h, Q)}
<1>1. \A T \in SUBSET S : IsFiniteSet(T) /\ Sum(g, T) \in Int
  <2> SUFFICES ASSUME NEW T \in SUBSET S PROVE IsFiniteSet(T) /\ Sum(g, T) \in Int
    OBVIOUS
  <2>1. IsFiniteSet(T)
    BY FS_Subset
  <2> QED BY <2>1, SumIsInt
<1>2. \A p \in P : h[p] \in Int
  BY <1>1 DEF Class
<1>3. ASSUME NEW Q \in SUBSET P, \A p \in Q : Q \ {p} \in F
      PROVE  Q \in F
  <2>1. CASE Q = {}
    <3>1. Of(Q) = {}
      BY <2>1
    <3> QED BY <2>1, <3>1, SumOfNone
  <2>2. CASE Q # {}
    <3>1. PICK p \in Q : TRUE
      BY <2>2
    <3>2. Sum(g, Of(Q \ {p})) = Sum(h, Q \ {p})
      BY <1>3
    <3>3. Class(S, part, p) \in SUBSET Of(Q) /\ Of(Q) \ Class(S, part, p) = Of(Q \ {p})
      BY DEF Class
    <3>4. IsFiniteSet(Of(Q)) /\ \A x \in Of(Q) : g[x] \in Int
      BY <1>1
    <3>5. h[p] = Sum(g, Class(S, part, p))
      OBVIOUS
    <3> DEFINE A == Class(S, part, p)
    <3>6. Sum(g, Of(Q)) = h[p] + Sum(g, Of(Q \ {p}))
      <4>1. Sum(g, Of(Q)) = Sum(g, A) + Sum(g, Of(Q) \ A)
        <5>1. A \in SUBSET Of(Q)
          BY <3>3
        <5> HIDE DEF Of, A
        <5> QED BY <3>4, <5>1, SumSplits
      <4>2. Of(Q) \ A = Of(Q \ {p})
        BY <3>3
      <4> HIDE DEF F, Of
      <4> QED BY <3>5, <4>1, <4>2, Zenon
    <3> HIDE DEF Of, A
    <3>7. IsFiniteSet(Q)
      BY FS_Subset
    <3>8. Sum(h, Q) = h[p] + Sum(h, Q \ {p})
      BY <1>2, <3>7, SumTakesAny
    <3>9. Sum(g, Of(Q)) = Sum(h, Q)
      BY <3>2, <3>6, <3>8
    <3> QED BY <3>9
  <2> QED BY <2>1, <2>2
<1>4. \A Q \in SUBSET P : Q \in F
  <2> HIDE DEF F
  <2> QED BY <1>3, SubsetInduction
<1>5. Of(P) = S
  OBVIOUS
<1> QED BY <1>4, <1>5
-----------------------------------------------------------------------------
(* Views: the transactions a report reads, classified.                     *)

\* The image of a finite set is finite.
LEMMA ImageIsFinite ==
    ASSUME NEW S, IsFiniteSet(S), NEW f
    PROVE  /\ IsFiniteSet({f[x] : x \in S})
           /\ Cardinality({f[x] : x \in S}) <= Cardinality(S)
<1> DEFINE T == {f[x] : x \in S}
           g == [x \in S |-> f[x]]
<1>1. g \in Surjection(S, T)
  BY DEF Surjection
<1> HIDE DEF T, g
<1>2. IsFiniteSet(T) /\ Cardinality(T) <= Cardinality(S)
  BY <1>1, FS_Surjection
<1> QED BY <1>2 DEF T

\* A set of classified transactions, each once.
IsView(txns) ==
    /\ IsFiniteSet(txns)
    /\ \A t \in txns : /\ t.id \in Nat /\ t.fact \in Fact /\ t.class.category \in Labels
                       /\ t.class.transfer \in BOOLEAN /\ t.class.income \in BOOLEAN
    /\ \A t, u \in txns : t.id = u.id => t = u

\* A part of a view is a view.
LEMMA PartIsView ==
    ASSUME NEW V, IsView(V), NEW T \in SUBSET V
    PROVE  IsView(T)
<1>1. IsFiniteSet(T)
  BY FS_Subset DEF IsView
<1> QED BY <1>1 DEF IsView

\* A category is a label.
LEMMA ClassIsClass ==
    ASSUME NEW o \in Labels \cup {NoLabel}, NEW fact \in Fact
    PROVE  /\ Classify(o, fact).category \in Labels
           /\ Classify(o, fact).transfer \in BOOLEAN
           /\ Classify(o, fact).income \in BOOLEAN
<1>1. RawLabel(fact) \in Labels
  BY LabelsAssumption DEF RawLabel, Fact
<1>2. CASE o = NoLabel
  <2>1. Classify(o, fact) = [category |-> RawLabel(fact),
                             transfer |-> "transfer" \in {fact.pfcKind, fact.topKind},
                             income |-> "income" \in {fact.pfcKind, fact.topKind}]
    BY <1>2 DEF Classify
  <2> QED BY <1>1, <2>1
<1>3. CASE o # NoLabel
  <2>1. Classify(o, fact) = [category |-> o,
                             transfer |-> casefold[o] = "transfer",
                             income |-> casefold[o] \in {"payroll", "income"}]
    BY <1>3 DEF Classify
  <2> QED BY <1>3, <2>1
<1> QED BY <1>2, <1>3

\* The transactions a report reads.
LEMMA EffectiveIsView ==
    ASSUME TypeOK, NEW period
    PROVE  IsView(View(Database, period))
<1> DEFINE f == [u \in Txns |-> [id |-> u, fact |-> rows[u],
                                 class |-> Classify(override[u], rows[u])]]
           Ids == {u \in Live : Within(rows[u].date, period)}
           V == View(Database, period)
<1>1. V = {f[u] : u \in Ids} /\ Ids \subseteq Txns
  BY DEF View, Database, Effective, Live, Present
<1>2. \A u \in Ids : u \in Nat /\ rows[u] \in Fact /\ override[u] \in Labels \cup {NoLabel}
  BY ViewsAssumption DEF Live, Present, TypeOK
<1>3. IsFiniteSet(V)
  <2>1. IsFiniteSet(Ids)
    BY <1>1, ViewsAssumption, FS_Subset
  <2> HIDE DEF f, Ids, V
  <2> QED BY <1>1, <2>1, ImageIsFinite
<1>4. \A t \in V : \E u \in Ids : t = [id |-> u, fact |-> rows[u],
                                       class |-> Classify(override[u], rows[u])]
  BY <1>1
<1> HIDE DEF f, Ids, V
<1>5. ASSUME NEW t \in V
      PROVE  /\ t.id \in Nat /\ t.fact \in Fact /\ t.class.category \in Labels
             /\ t.class.transfer \in BOOLEAN /\ t.class.income \in BOOLEAN
  <2>1. PICK u \in Ids : t = [id |-> u, fact |-> rows[u],
                              class |-> Classify(override[u], rows[u])]
    BY <1>4
  <2> QED BY <1>2, <2>1, ClassIsClass
<1>6. ASSUME NEW t \in V, NEW u \in V, t.id = u.id
      PROVE  t = u
  <2>1. PICK i \in Ids : t = [id |-> i, fact |-> rows[i],
                              class |-> Classify(override[i], rows[i])]
    BY <1>4
  <2>2. PICK j \in Ids : u = [id |-> j, fact |-> rows[j],
                              class |-> Classify(override[j], rows[j])]
    BY <1>4
  <2>3. i = j
    BY <1>6, <2>1, <2>2
  <2> QED BY <2>1, <2>2, <2>3
<1> QED BY <1>3, <1>5, <1>6 DEF IsView, V

\* The amounts of a view, and their total.
Amounts(txns) == [t \in txns |-> t.fact.amount]

\* The total of a part adds the same amounts up.
LEMMA AmountIsSum ==
    ASSUME NEW V, IsFiniteSet(V), NEW T \in SUBSET V
    PROVE  AmountOf(T) = Sum(Amounts(V), T)
<1>1. IsFiniteSet(T)
  BY FS_Subset
<1>2. AmountOf(T) = Sum(Amounts(T), T)
  BY DEF AmountOf, Amounts, SumFunction, Sum
<1>3. \A t \in T : Amounts(T)[t] = Amounts(V)[t]
  BY DEF Amounts
<1> QED BY <1>1, <1>2, <1>3, SumCongruent

\* The amounts of a view are integers, and so is their total.
LEMMA AmountIsInt ==
    ASSUME NEW V, IsView(V), NEW T \in SUBSET V
    PROVE  /\ IsFiniteSet(V) /\ IsFiniteSet(T)
           /\ \A t \in V : Amounts(V)[t] = t.fact.amount /\ Amounts(V)[t] \in Int
           /\ AmountOf(T) = Sum(Amounts(V), T) /\ AmountOf(T) \in Int
<1>1. IsFiniteSet(V) /\ IsFiniteSet(T)
  BY FS_Subset DEF IsView
<1>2. \A t \in V : Amounts(V)[t] = t.fact.amount /\ Amounts(V)[t] \in Int
  BY DEF IsView, Amounts, Fact
<1>3. AmountOf(T) = Sum(Amounts(V), T)
  BY <1>1, AmountIsSum
<1>4. Sum(Amounts(V), T) \in Int
  BY <1>1, <1>2, SumIsInt
<1> QED BY <1>1, <1>2, <1>3, <1>4

\* A total is that of a part and that of the rest.
LEMMA AmountSplits ==
    ASSUME NEW V, IsView(V), NEW A \in SUBSET V
    PROVE  AmountOf(V) = AmountOf(A) + AmountOf(V \ A)
<1>1. /\ IsFiniteSet(V) /\ \A t \in V : Amounts(V)[t] \in Int
      /\ AmountOf(V) = Sum(Amounts(V), V) /\ AmountOf(A) = Sum(Amounts(V), A)
      /\ AmountOf(V \ A) = Sum(Amounts(V), V \ A)
  BY AmountIsInt
<1>2. Sum(Amounts(V), V) = Sum(Amounts(V), A) + Sum(Amounts(V), V \ A)
  BY <1>1, SumSplits
<1> QED BY <1>1, <1>2

\* The categories of D add up to the spending on them, although those that net
\* to zero are left out.
LEMMA CategoriesAddUp ==
    ASSUME NEW V, IsView(V), NEW D \in SUBSET Labels
    PROVE  LET byCategory == SpendingByCategory(V) IN
           /\ IsFiniteSet(DOMAIN byCategory)
           /\ Sum(byCategory, DOMAIN byCategory \cap D)
                = AmountOf({t \in V : IsSpending(t) /\ t.class.category \in D})
<1> DEFINE byCategory == SpendingByCategory(V)
           S == {t \in V : IsSpending(t) /\ t.class.category \in D}
           part == [t \in V |-> t.class.category]
           All == {part[t] : t \in V}
           h == [c \in Labels |-> SpentOn(V, c)]
           g == Amounts(V)
<1>1. IsFiniteSet(V) /\ \A t \in V : g[t] \in Int /\ t.class.category \in Labels
  BY AmountIsInt DEF IsView
<1>2. IsFiniteSet(All) /\ All \subseteq Labels
  BY <1>1, ImageIsFinite
<1>3. \A c \in Labels : SpentOn(V, c) = Sum(g, {t \in V : IsSpending(t) /\ t.class.category = c})
  <2> SUFFICES ASSUME NEW c \in Labels
               PROVE  SpentOn(V, c) = Sum(g, {t \in V : IsSpending(t) /\ t.class.category = c})
    OBVIOUS
  <2>1. {t \in V : IsSpending(t) /\ t.class.category = c} \in SUBSET V
    OBVIOUS
  <2> QED BY <2>1, AmountIsInt DEF SpentOn
<1>4. \A c \in Labels \ All : h[c] = 0
  <2> SUFFICES ASSUME NEW c \in Labels \ All PROVE SpentOn(V, c) = 0
    OBVIOUS
  <2>1. {t \in V : IsSpending(t) /\ t.class.category = c} = {}
    OBVIOUS
  <2> QED BY <1>3, <2>1, SumOfNone
<1>5. /\ DOMAIN byCategory = {c \in Labels : h[c] # 0}
      /\ \A c \in DOMAIN byCategory : byCategory[c] = h[c]
  BY DEF SpendingByCategory
<1>6. DOMAIN byCategory \subseteq All /\ IsFiniteSet(DOMAIN byCategory)
  <2>1. DOMAIN byCategory \subseteq All
    BY <1>4, <1>5
  <2> HIDE DEF byCategory, All
  <2> QED BY <1>2, <2>1, FS_Subset
<1> DEFINE P == All \cap D
           P0 == DOMAIN byCategory \cap D
<1>7. IsFiniteSet(P) /\ P0 \in SUBSET P /\ IsFiniteSet(P0) /\ P0 \subseteq DOMAIN byCategory
  <2> HIDE DEF byCategory, All
  <2> QED BY <1>2, <1>6, FS_Subset
<1>8. \A c \in Labels : h[c] = SpentOn(V, c) /\ h[c] \in Int
  <2> SUFFICES ASSUME NEW c \in Labels PROVE SpentOn(V, c) \in Int
    OBVIOUS
  <2>1. {t \in V : IsSpending(t) /\ t.class.category = c} \in SUBSET V
    OBVIOUS
  <2> QED BY <2>1, AmountIsInt DEF SpentOn
<1>9. \A c \in P \ P0 : h[c] = 0
  BY <1>2, <1>5
<1>10. Sum(g, S) = Sum(h, P)
  <2>1. IsFiniteSet(S) /\ \A t \in S : g[t] \in Int /\ part[t] \in P
    <3>1. S \in SUBSET V
      OBVIOUS
    <3>2. IsFiniteSet(S)
      BY <1>1, <3>1, FS_Subset
    <3>3. \A t \in S : g[t] \in Int /\ part[t] \in P
      BY <1>1
    <3> QED BY <3>2, <3>3
  <2>2. \A c \in P : h[c] = Sum(g, Class(S, part, c))
    <3> SUFFICES ASSUME NEW c \in P PROVE h[c] = Sum(g, Class(S, part, c))
      OBVIOUS
    <3>1. Class(S, part, c) = {t \in V : IsSpending(t) /\ t.class.category = c}
      BY DEF Class
    <3>2. c \in Labels /\ h[c] = SpentOn(V, c)
      BY <1>2
    <3> HIDE DEF h, part, S, g
    <3> QED BY <1>3, <3>1, <3>2
  <2> HIDE DEF S, g, part, h, P
  <2> QED BY <1>7, <2>1, <2>2, SumByParts
<1>11. Sum(h, P) = Sum(h, P0)
  <2>1. \A c \in P : h[c] \in Int
    BY <1>2, <1>8
  <2>2. IsFiniteSet(P \ P0)
    BY <1>7, FS_Subset
  <2> HIDE DEF P, P0, h
  <2>3. Sum(h, P) = Sum(h, P0) + Sum(h, P \ P0)
    BY <1>7, <2>1, SumSplits
  <2>4. Sum(h, P \ P0) = 0
    BY <1>9, <2>2, SumOfZeros
  <2>5. Sum(h, P0) \in Int
    BY <1>7, <2>1, SumIsInt
  <2> QED BY <2>3, <2>4, <2>5
<1>12. Sum(byCategory, P0) = Sum(h, P0)
  <2>1. \A c \in P0 : byCategory[c] = h[c]
    BY <1>5, <1>7
  <2> HIDE DEF P0, h, byCategory
  <2> QED BY <1>7, <2>1, SumCongruent
<1>13. AmountOf(S) = Sum(g, S)
  <2>1. S \in SUBSET V
    OBVIOUS
  <2> HIDE DEF S
  <2> QED BY <2>1, AmountIsInt
<1> QED BY <1>6, <1>10, <1>11, <1>12, <1>13
-----------------------------------------------------------------------------
(* Totals.                                                                 *)

\* Every month is a period that the tools accept, and begins where the one
\* before it ends.
LEMMA MonthIs ==
    ASSUME NEW m \in 1..13
    PROVE  /\ (m - 1) * DaysPerMonth \in Int /\ m * DaysPerMonth \in Int
           /\ MonthBounds(1, m).start = (m - 1) * DaysPerMonth
           /\ m < 13 => MonthBounds(1, m).end = m * DaysPerMonth
           /\ m * DaysPerMonth = (m - 1) * DaysPerMonth + DaysPerMonth
           /\ m < 13 => require_period(MonthBounds(1, m))
<1>1. DaysPerMonth \in Nat /\ DaysPerMonth > 0 /\ DaysPerMonth <= MAX_PERIOD_DAYS
      /\ MAX_PERIOD_DAYS \in Nat
  BY LabelsAssumption, MaxPeriodAssumption
<1>2. MonthBounds(1, m).start = (m - 1) * DaysPerMonth
  BY <1>1 DEF MonthBounds, FirstDay
<1>3. m < 13 => MonthBounds(1, m).end = m * DaysPerMonth
  <2>1. CASE m = 12
    BY <1>1, <2>1 DEF MonthBounds, FirstDay
  <2>2. CASE m # 12
    BY <1>1, <2>2 DEF MonthBounds, FirstDay
  <2> QED BY <2>1, <2>2
<1>4. m * DaysPerMonth = (m - 1) * DaysPerMonth + DaysPerMonth
      /\ (m - 1) * DaysPerMonth \in Int /\ m * DaysPerMonth \in Int
  BY <1>1
<1>5. m < 13 => require_period(MonthBounds(1, m))
  BY <1>1, <1>2, <1>3, <1>4 DEF require_period
<1> QED BY <1>2, <1>3, <1>4, <1>5

\* The periods a report may be asked for.
LEMMA PeriodIs ==
    ASSUME NEW p \in AnyPeriod
    PROVE  /\ p.start \in Int /\ p.end \in Int /\ p = [start |-> p.start, end |-> p.end]
           /\ p \in Reportable <=> require_period(p)
<1>1. CASE p \in MonthPeriods
  <2>1. PICK m \in MonthNumbers, n \in 1..(LastMonth + 1) :
          p = [start |-> MonthBounds(1, m).start, end |-> MonthBounds(1, n).start]
    BY <1>1 DEF MonthPeriods
  <2>2. m \in 1..13 /\ n \in 1..13
    BY ViewsAssumption DEF MonthNumbers
  <2>3. MonthBounds(1, m).start \in Int /\ MonthBounds(1, n).start \in Int
    BY <2>2, MonthIs
  <2> QED BY <2>1, <2>3 DEF Reportable, require_period
<1>2. CASE p = [start |-> 0, end |-> MAX_PERIOD_DAYS + 1]
  BY <1>2, MaxPeriodAssumption DEF Reportable, require_period
<1> QED BY <1>1, <1>2 DEF AnyPeriod

\* A period that is not too wide is one of months.
LEMMA ReportableIs ==
    ASSUME NEW p \in Reportable
    PROVE  p \in AnyPeriod /\ require_period(p) /\ p \in MonthPeriods
<1>1. p \in AnyPeriod /\ require_period(p)
  BY PeriodIs DEF Reportable
<1>2. ~require_period([start |-> 0, end |-> MAX_PERIOD_DAYS + 1])
  BY MaxPeriodAssumption DEF require_period
<1> QED BY <1>1, <1>2 DEF AnyPeriod

\* What the reports of an accepted period say of the transactions they read.
LEMMA ReportsAre ==
    ASSUME NEW db, NEW p, require_period(p)
    PROVE  LET V == View(db, p)
               byCategory == SpendingByCategory(V)
           IN  /\ get_category_summary(db, p).categories = byCategory
               /\ get_category_summary(db, p).total_spent = Sum(byCategory, DOMAIN byCategory)
               /\ get_spending_by_category(db, p).categories = byCategory
               /\ get_spending_summary(db, p).total_spent = SpendingSummary(V)
               /\ get_income_summary(db, p).total_income = IncomeSummary(V)
               /\ calculate_cashflow(db, db, p) = Cashflow(V, V)
               /\ \A c : /\ compare_periods(db, db, p, p, c).amount_a = AmountIn(V, c)
                         /\ compare_periods(db, db, p, p, c).amount_b = AmountIn(V, c)
<1> DEFINE V == View(db, p)
           byCategory == SpendingByCategory(V)
<1>1. get_category_summary(db, p) =
        [category_count |-> Cardinality(DOMAIN byCategory),
         total_spent |-> Sum(byCategory, DOMAIN byCategory), categories |-> byCategory]
  BY DEF get_category_summary, Answer, SumFunction, Sum
<1>2. get_spending_by_category(db, p) = [categories |-> byCategory]
  BY DEF get_spending_by_category, Answer
<1>3. get_spending_summary(db, p) = [total_spent |-> SpendingSummary(V)]
  BY DEF get_spending_summary, Answer
<1>4. get_income_summary(db, p) = [total_income |-> IncomeSummary(V)]
  BY DEF get_income_summary, Answer
<1>5. calculate_cashflow(db, db, p) = Cashflow(V, V)
  BY DEF calculate_cashflow, Answer
<1>6. ASSUME NEW c
      PROVE  /\ compare_periods(db, db, p, p, c).amount_a = AmountIn(V, c)
             /\ compare_periods(db, db, p, p, c).amount_b = AmountIn(V, c)
  BY DEF compare_periods, Answer
<1> HIDE DEF V, byCategory
<1> QED BY <1>1, <1>2, <1>3, <1>4, <1>5, <1>6 DEF V, byCategory

\* One that is not accepted gets no total.
LEMMA ReportsRefuse ==
    ASSUME NEW db, NEW p, ~require_period(p),
           NEW answer \in {get_spending_summary(db, p), get_category_summary(db, p),
                           get_income_summary(db, p), calculate_cashflow(db, db, p),
                           compare_periods(db, db, p, p, NoLabel)}
    PROVE  "error" \in DOMAIN answer
<1>1. answer = Refused
  <2>1. CASE answer = get_spending_summary(db, p)
    BY <2>1 DEF get_spending_summary, Answer
  <2>2. CASE answer = get_category_summary(db, p)
    BY <2>2 DEF get_category_summary, Answer
  <2>3. CASE answer = get_income_summary(db, p)
    BY <2>3 DEF get_income_summary, Answer
  <2>4. CASE answer = calculate_cashflow(db, db, p)
    BY <2>4 DEF calculate_cashflow, Answer
  <2>5. CASE answer = compare_periods(db, db, p, p, NoLabel)
    BY <2>5 DEF compare_periods, Answer
  <2> QED BY <2>1, <2>2, <2>3, <2>4, <2>5
<1> QED BY <1>1 DEF Refused

\* The categories add up to the spending, and those of one name to what is
\* compared under the name.
LEMMA ViewAddsUp ==
    ASSUME NEW V, IsView(V)
    PROVE  LET byCategory == SpendingByCategory(V) IN
           /\ IsFiniteSet(DOMAIN byCategory)
           /\ Sum(byCategory, DOMAIN byCategory) = SpendingSummary(V)
           /\ AmountIn(V, NoLabel) = SpendingSummary(V)
           /\ Cashflow(V, V).spending = SpendingSummary(V)
           /\ \A c \in Labels :
                AmountIn(V, c) = Sum(byCategory,
                                     {d \in DOMAIN byCategory : casefold[d] = casefold[c]})
<1> DEFINE byCategory == SpendingByCategory(V)
<1>1. IsFiniteSet(DOMAIN byCategory) /\ DOMAIN byCategory \subseteq Labels
  BY CategoriesAddUp DEF SpendingByCategory
<1>2. Sum(byCategory, DOMAIN byCategory) = SpendingSummary(V)
  <2>1. Sum(byCategory, DOMAIN byCategory \cap Labels)
          = AmountOf({t \in V : IsSpending(t) /\ t.class.category \in Labels})
    BY CategoriesAddUp
  <2>2. {t \in V : IsSpending(t) /\ t.class.category \in Labels} = {t \in V : IsSpending(t)}
    BY DEF IsView
  <2>3. DOMAIN byCategory \cap Labels = DOMAIN byCategory
    BY <1>1
  <2> HIDE DEF byCategory
  <2> QED BY <2>1, <2>2, <2>3 DEF SpendingSummary
<1>3. AmountIn(V, NoLabel) = SpendingSummary(V)
  <2>1. {t \in V : IsSpending(t)
           /\ (NoLabel # NoLabel => casefold[t.class.category] = casefold[NoLabel])}
          = {t \in V : IsSpending(t)}
    OBVIOUS
  <2> QED BY <2>1 DEF AmountIn, SpendingSummary
<1>4. Cashflow(V, V).spending = SpendingSummary(V)
  BY DEF Cashflow
<1>5. ASSUME NEW c \in Labels
      PROVE  AmountIn(V, c) = Sum(byCategory,
                                  {d \in DOMAIN byCategory : casefold[d] = casefold[c]})
  <2> DEFINE D == {d \in Labels : casefold[d] = casefold[c]}
  <2>1. Sum(byCategory, DOMAIN byCategory \cap D)
          = AmountOf({t \in V : IsSpending(t) /\ t.class.category \in D})
    BY CategoriesAddUp
  <2>2. {t \in V : IsSpending(t) /\ t.class.category \in D}
          = {t \in V : IsSpending(t)
               /\ (c # NoLabel => casefold[t.class.category] = casefold[c])}
    BY LabelsAssumption DEF IsView
  <2>3. DOMAIN byCategory \cap D = {d \in DOMAIN byCategory : casefold[d] = casefold[c]}
    BY <1>1
  <2> HIDE DEF byCategory, D
  <2> QED BY <2>1, <2>2, <2>3 DEF AmountIn
<1> HIDE DEF byCategory
<1> QED BY <1>1, <1>2, <1>3, <1>4, <1>5 DEF byCategory

\* In any database of the right types the reports of a period agree on its total
\* (analytics/spending.py, cashflow.py, agent/tools/read.py).
LEMMA TotalsHold == TypeOK => TotalsAgree
<1> SUFFICES ASSUME TypeOK PROVE TotalsAgree
  OBVIOUS
<1> DEFINE db == Database
<1>1. ASSUME NEW p \in Reportable
      PROVE  LET summary == get_category_summary(db, p) IN
             /\ summary.total_spent = get_spending_summary(db, p).total_spent
             /\ summary.total_spent = compare_periods(db, db, p, p, NoLabel).amount_a
             /\ summary.total_spent = calculate_cashflow(db, db, p).spending
             /\ \A c \in Labels : compare_periods(db, db, p, p, c).amount_b =
                  SumFunctionOnSet(summary.categories,
                     {d \in DOMAIN summary.categories : casefold[d] = casefold[c]})
  <2> DEFINE V == View(db, p)
             summary == get_category_summary(db, p)
  <2>1. require_period(p)
    BY PeriodIs DEF Reportable
  <2>2. IsView(V)
    BY EffectiveIsView
  <2>3. /\ summary.categories = SpendingByCategory(V)
        /\ summary.total_spent = Sum(summary.categories, DOMAIN summary.categories)
        /\ get_spending_summary(db, p).total_spent = SpendingSummary(V)
        /\ calculate_cashflow(db, db, p) = Cashflow(V, V)
        /\ \A c : /\ compare_periods(db, db, p, p, c).amount_a = AmountIn(V, c)
                  /\ compare_periods(db, db, p, p, c).amount_b = AmountIn(V, c)
    BY <2>1, ReportsAre
  <2>4. \A c \in Labels :
          AmountIn(V, c) = Sum(summary.categories,
            {d \in DOMAIN summary.categories : casefold[d] = casefold[c]})
    BY <2>2, <2>3, ViewAddsUp
  <2>5. \A c \in Labels : compare_periods(db, db, p, p, c).amount_b =
          SumFunctionOnSet(summary.categories,
            {d \in DOMAIN summary.categories : casefold[d] = casefold[c]})
    <3> HIDE DEF db, V, summary
    <3> QED BY <2>3, <2>4 DEF Sum
  <2> HIDE DEF db, V
  <2>6. /\ summary.total_spent = get_spending_summary(db, p).total_spent
        /\ summary.total_spent = compare_periods(db, db, p, p, NoLabel).amount_a
        /\ summary.total_spent = calculate_cashflow(db, db, p).spending
    <3> HIDE DEF summary
    <3> QED BY <2>2, <2>3, ViewAddsUp
  <2> QED BY <2>5, <2>6
<1>2. ASSUME NEW m \in MonthNumbers
      PROVE  LET tool == get_category_summary(db, MonthBounds(1, m))
                 cli  == spending(db, db, Month(m), NoLabel)
             IN  cli = [by_category |-> tool.categories, total |-> tool.total_spent]
  <2> DEFINE p == MonthBounds(1, m)
             V == View(db, p)
             tool == get_category_summary(db, p)
  <2>1. m \in 1..13 /\ m < 13
    BY ViewsAssumption DEF MonthNumbers
  <2>2. require_period(p)
    BY <2>1, MonthIs
  <2>3. IsView(V)
    BY EffectiveIsView
  <2>4. _resolve_period(Month(m)) = p
    BY DEF _resolve_period, Month
  <2>5. tool.categories = SpendingByCategory(V) /\ tool.total_spent = SpendingSummary(V)
    BY <2>2, <2>3, ReportsAre, ViewAddsUp
  <2>6. spending(db, db, Month(m), NoLabel)
          = [by_category |-> SpendingByCategory(V), total |-> SpendingSummary(V)]
    <3>1. SpendingByCategory(V)
            = [c \in {c \in DOMAIN SpendingByCategory(V) :
                        NoLabel # NoLabel => casefold[c] = casefold[NoLabel]}
                 |-> SpendingByCategory(V)[c]]
      BY DEF SpendingByCategory
    <3> HIDE DEF db, p
    <3> QED BY <2>4, <3>1 DEF spending
  <2> HIDE DEF db, p, V, tool
  <2> QED BY <2>5, <2>6 DEF tool, p
<1>3. ASSUME NEW p \in AnyPeriod \ Reportable
      PROVE  \A answer \in {get_spending_summary(db, p), get_category_summary(db, p),
                            get_income_summary(db, p), calculate_cashflow(db, db, p),
                            compare_periods(db, db, p, p, NoLabel)} : "error" \in DOMAIN answer
  BY PeriodIs, ReportsRefuse
<1> HIDE DEF db
<1> QED BY <1>1, <1>2, <1>3 DEF TotalsAgree, db
-----------------------------------------------------------------------------
(* Months and cash flow.                                                   *)

\* Multiples are in order.
LEMMA MultiplesInOrder ==
    ASSUME NEW a \in Int, NEW b \in Int, NEW d \in Nat, a <= b
    PROVE  a * d <= b * d
<1>1. PICK n \in Nat : b = a + n
  <2>1. b - a \in Nat /\ b = a + (b - a)
    OBVIOUS
  <2> QED BY <2>1
<1>2. n * d \in Nat /\ a * d \in Int
  OBVIOUS
<1>3. b * d = a * d + n * d
  BY <1>1
<1> QED BY <1>2, <1>3

\* The months of a period of whole months.
Inside(p) == {m \in 1..LastMonth : p.start <= MonthBounds(1, m).start
                                   /\ MonthBounds(1, m).end <= p.end}

\* A date of the period is in exactly one of them, on the boundaries too.
LEMMA DateIsInOneMonth ==
    ASSUME NEW p \in MonthPeriods, NEW date \in Int, Within(date, p)
    PROVE  \E m \in Inside(p) : \A n \in Inside(p) : Within(date, MonthBounds(1, n)) <=> n = m
<1> DEFINE D == DaysPerMonth
           N == {n \in Nat : date < n * D}
<1>1. PICK a \in MonthNumbers, b \in 1..(LastMonth + 1) :
        p = [start |-> MonthBounds(1, a).start, end |-> MonthBounds(1, b).start]
  BY DEF MonthPeriods
<1>2. a \in 1..12 /\ b \in 1..13 /\ a <= LastMonth /\ b <= LastMonth + 1
      /\ LastMonth \in 1..12 /\ D \in Nat /\ D > 0
  BY ViewsAssumption, LabelsAssumption DEF MonthNumbers
<1>3. p.start = (a - 1) * D /\ p.end = (b - 1) * D
  BY <1>1, <1>2, MonthIs
<1>4. (a - 1) * D <= date /\ date < (b - 1) * D
  BY <1>3 DEF Within
<1>5. b - 1 \in N
  BY <1>2, <1>4
<1>6. PICK m \in N : \A n \in N : m <= n
  <2>1. N \in SUBSET Nat /\ N # {}
    BY <1>5
  <2> HIDE DEF N
  <2> QED BY <2>1, LeastNatural
<1>7. m \in Nat /\ date < m * D /\ m <= b - 1
  BY <1>5, <1>6
<1>8. a <= m
  <2> SUFFICES ASSUME m <= a - 1 PROVE FALSE
    BY <1>2, <1>7
  <2>1. m * D <= (a - 1) * D
    BY <1>2, <1>7, MultiplesInOrder
  <2>2. m * D \in Int /\ (a - 1) * D \in Int
    BY <1>2, <1>7
  <2> QED BY <1>4, <1>7, <2>1, <2>2
<1>9. (m - 1) * D <= date
  <2>1. m - 1 \in Nat /\ m - 1 \notin N
    BY <1>2, <1>6, <1>7, <1>8
  <2>2. (m - 1) * D \in Int
    BY <1>2, <1>7
  <2> QED BY <2>1, <2>2
<1> HIDE DEF N
<1>10. m \in 1..12 /\ m <= LastMonth
  BY <1>2, <1>7, <1>8
<1>11. \A n \in 1..12 : /\ MonthBounds(1, n).start = (n - 1) * D /\ MonthBounds(1, n).end = n * D
                        /\ (n - 1) * D \in Int /\ n * D \in Int
  BY MonthIs
<1>12. m \in Inside(p)
  <2>1. (a - 1) * D <= (m - 1) * D
    BY <1>2, <1>7, <1>8, MultiplesInOrder
  <2>2. m * D <= (b - 1) * D
    BY <1>2, <1>7, MultiplesInOrder
  <2> QED BY <1>2, <1>3, <1>10, <1>11, <2>1, <2>2 DEF Inside
<1>13. ASSUME NEW n \in Inside(p), Within(date, MonthBounds(1, n))
       PROVE  n = m
  <2>1. n \in 1..12 /\ (n - 1) * D <= date /\ date < n * D
    BY <1>2, <1>11, <1>13 DEF Inside, Within
  <2>2. (n - 1) * D \in Int /\ n * D \in Int /\ m * D \in Int /\ (m - 1) * D \in Int
    BY <1>10, <1>11, <2>1
  <2>3. CASE n < m
    <3>1. n * D <= (m - 1) * D
      BY <1>2, <1>10, <2>1, <2>3, MultiplesInOrder
    <3> QED BY <1>9, <2>1, <2>2, <3>1
  <2>4. CASE m < n
    <3>1. m * D <= (n - 1) * D
      BY <1>2, <1>10, <2>1, <2>4, MultiplesInOrder
    <3> QED BY <1>7, <2>1, <2>2, <3>1
  <2> QED BY <1>10, <2>1, <2>3, <2>4
<1>14. Within(date, MonthBounds(1, m))
  BY <1>7, <1>9, <1>10, <1>11 DEF Within
<1> QED BY <1>12, <1>13, <1>14

\* The transactions of a month of the period are those of the period.
LEMMA MonthOfPeriod ==
    ASSUME TypeOK, NEW p \in MonthPeriods, NEW m \in Inside(p)
    PROVE  View(Database, MonthBounds(1, m))
             = {t \in View(Database, p) : Within(t.fact.date, MonthBounds(1, m))}
<1> DEFINE q == MonthBounds(1, m)
           T(u) == [id |-> u, fact |-> rows[u], class |-> Classify(override[u], rows[u])]
<1>1. p.start <= q.start /\ q.end <= p.end /\ m \in 1..12
  BY ViewsAssumption DEF Inside
<1>2. p.start \in Int /\ p.end \in Int /\ q.start \in Int /\ q.end \in Int
  BY <1>1, PeriodIs, MonthIs DEF AnyPeriod
<1>3. \A u \in Live : rows[u].date \in Int
  BY ViewsAssumption DEF Live, Present, TypeOK, Fact
<1>4. \A u \in Live : Within(rows[u].date, q) => Within(rows[u].date, p)
  <2> HIDE DEF q
  <2> QED BY <1>1, <1>2, <1>3 DEF Within
<1>5. \A r : View(Database, r) = {T(u) : u \in {v \in Live : Within(rows[v].date, r)}}
  BY DEF View, Database, Effective
<1>6. \A u : T(u).fact = rows[u]
  OBVIOUS
<1> HIDE DEF T, q
<1> QED BY <1>4, <1>5, <1>6 DEF q

\* So amounts of whatever kind add up month by month.
LEMMA MonthsOfAmounts ==
    ASSUME TypeOK, NEW p \in MonthPeriods, NEW S \in SUBSET View(Database, p),
           NEW h, \A m \in Inside(p) :
                    h[m] = AmountOf({t \in S : Within(t.fact.date, MonthBounds(1, m))})
    PROVE  AmountOf(S) = Sum(h, Inside(p)) /\ AmountOf(S) \in Int /\ IsFiniteSet(Inside(p))
           /\ \A m \in Inside(p) : h[m] \in Int
<1> DEFINE V == View(Database, p)
           g == Amounts(V)
           Is(t, m) == Within(t.fact.date, MonthBounds(1, m))
           part == [t \in S |-> CHOOSE m \in Inside(p) : Is(t, m)]
<1>1. IsView(V)
  BY EffectiveIsView
<1>2. IsFiniteSet(S) /\ (\A t \in S : g[t] \in Int) /\ AmountOf(S) = Sum(g, S)
      /\ AmountOf(S) \in Int
  <2> HIDE DEF V
  <2>1. IsFiniteSet(S) /\ (\A t \in V : g[t] \in Int) /\ AmountOf(S) = Sum(g, S)
        /\ AmountOf(S) \in Int
    BY <1>1, AmountIsInt DEF V
  <2> QED BY <2>1 DEF V
<1>3. ASSUME NEW t \in S
      PROVE  /\ part[t] \in Inside(p)
             /\ \A m \in Inside(p) : Is(t, m) <=> part[t] = m
  <2>1. Within(t.fact.date, p) /\ t.fact.date \in Int
    <3>1. t \in V
      OBVIOUS
    <3>2. t.fact.date \in Int
      BY <1>1, <3>1 DEF IsView, Fact
    <3>3. Within(t.fact.date, p)
      BY <3>1 DEF View, Effective, Database
    <3> QED BY <3>2, <3>3
  <2>2. PICK m \in Inside(p) : \A n \in Inside(p) : Is(t, n) <=> n = m
    BY <2>1, DateIsInOneMonth
  <2> HIDE DEF Is
  <2> QED BY <2>2
<1>4. IsFiniteSet(Inside(p))
  <2>1. IsFiniteSet(1..LastMonth)
    BY ViewsAssumption, FS_Interval
  <2>2. Inside(p) \in SUBSET (1..LastMonth)
    BY DEF Inside
  <2> QED BY <2>1, <2>2, FS_Subset
<1>5. \A m \in Inside(p) : h[m] = Sum(g, Class(S, part, m)) /\ h[m] \in Int
  <2> SUFFICES ASSUME NEW m \in Inside(p)
               PROVE  h[m] = Sum(g, Class(S, part, m)) /\ h[m] \in Int
    OBVIOUS
  <2>1. Class(S, part, m) = {t \in S : Is(t, m)}
    <3> HIDE DEF part, Is
    <3> QED BY <1>3 DEF Class
  <2>2. Class(S, part, m) \in SUBSET V
    BY DEF Class
  <2>3. AmountOf(Class(S, part, m)) = Sum(g, Class(S, part, m))
        /\ AmountOf(Class(S, part, m)) \in Int
    <3> HIDE DEF V, part
    <3> QED BY <1>1, <2>2, AmountIsInt
  <2> QED BY <2>1, <2>3
<1> HIDE DEF V, g, part, Is
<1>6. Sum(g, S) = Sum(h, Inside(p))
  BY <1>2, <1>3, <1>4, <1>5, SumByParts
<1> QED BY <1>2, <1>4, <1>5, <1>6

\* ... and the reports of the months of a period add up to that of the period
\* (analytics/periods.py, month_bounds).
LEMMA MonthsHold == TypeOK => MonthsAddUp
<1> SUFFICES ASSUME TypeOK, NEW p \in Reportable
             PROVE  /\ get_spending_summary(Database, p).total_spent =
                         SumFunction([m \in Inside(p) |->
                            spending(Database, Database, Month(m), NoLabel).total])
                    /\ get_income_summary(Database, p).total_income =
                         SumFunction([m \in Inside(p) |-> income(Database, Month(m))])
  BY DEF MonthsAddUp, Inside
<1> DEFINE db == Database
           V == View(db, p)
           W(m) == View(db, MonthBounds(1, m))
           spent == [m \in Inside(p) |-> spending(db, db, Month(m), NoLabel).total]
           earned == [m \in Inside(p) |-> income(db, Month(m))]
           paid == [m \in Inside(p) |-> AmountOf({t \in W(m) : t.class.income})]
<1>1. p \in MonthPeriods /\ require_period(p)
  BY ReportableIs
<1>2. \A m : spending(db, db, Month(m), NoLabel).total = SpendingSummary(W(m))
             /\ income(db, Month(m)) = IncomeSummary(W(m))
  BY DEF spending, income, _resolve_period, Month
<1>3. \A m \in Inside(p) : W(m) = {t \in V : Within(t.fact.date, MonthBounds(1, m))}
  BY <1>1, MonthOfPeriod
<1> HIDE DEF db, V, W
<1>4. SpendingSummary(V) = SumFunction(spent)
  <2> DEFINE S == {t \in V : IsSpending(t)}
  <2>1. ASSUME NEW m \in Inside(p)
        PROVE  spent[m] = AmountOf({t \in S : Within(t.fact.date, MonthBounds(1, m))})
    <3>1. {t \in S : Within(t.fact.date, MonthBounds(1, m))} = {t \in W(m) : IsSpending(t)}
      BY <1>3
    <3> HIDE DEF S
    <3> QED BY <1>2, <3>1 DEF SpendingSummary
  <2>2. S \in SUBSET V
    OBVIOUS
  <2> HIDE DEF S, spent
  <2>3. AmountOf(S) = Sum(spent, Inside(p))
    BY <1>1, <2>1, <2>2, MonthsOfAmounts DEF V, db
  <2> QED BY <2>3 DEF SpendingSummary, S, Sum, SumFunction, spent
<1>5. IncomeSummary(V) = SumFunction(earned)
  <2> DEFINE S == {t \in V : t.class.income}
  <2>1. ASSUME NEW m \in Inside(p)
        PROVE  paid[m] = AmountOf({t \in S : Within(t.fact.date, MonthBounds(1, m))})
    <3>1. {t \in S : Within(t.fact.date, MonthBounds(1, m))} = {t \in W(m) : t.class.income}
      BY <1>3
    <3> HIDE DEF S
    <3> QED BY <3>1
  <2>2. S \in SUBSET V
    OBVIOUS
  <2>3. \A m \in Inside(p) : earned[m] = -paid[m]
    BY <1>2 DEF IncomeSummary
  <2>4. DOMAIN earned = Inside(p)
    OBVIOUS
  <2> HIDE DEF S, paid, earned
  <2>5. AmountOf(S) = Sum(paid, Inside(p)) /\ IsFiniteSet(Inside(p))
        /\ \A m \in Inside(p) : paid[m] \in Int
    BY <1>1, <2>1, <2>2, MonthsOfAmounts DEF V, db
  <2>6. Sum(earned, Inside(p)) = -AmountOf(S)
    BY <2>3, <2>5, SumOfOpposites
  <2> QED BY <2>4, <2>6 DEF IncomeSummary, S, Sum, SumFunction
<1>6. /\ get_spending_summary(db, p).total_spent = SpendingSummary(V)
      /\ get_income_summary(db, p).total_income = IncomeSummary(V)
  BY <1>1, ReportsAre DEF V
<1> QED BY <1>4, <1>5, <1>6 DEF db

\* Income and spending are what is not a transfer.
LEMMA NetIsOfNonTransfers ==
    ASSUME NEW V, IsView(V)
    PROVE  Cashflow(V, V).net
             = -AmountOf({t \in V : t.class.income \/ ~t.class.transfer})
<1> DEFINE N == {t \in V : t.class.income \/ ~t.class.transfer}
           I == {t \in V : t.class.income}
           S == {t \in V : IsSpending(t)}
<1>1. N \in SUBSET V /\ I \in SUBSET N /\ I \in SUBSET V /\ S \in SUBSET V /\ N \ I = S
  BY DEF IsView, IsSpending
<1>2. Cashflow(V, V).net = -AmountOf(I) - AmountOf(S)
  BY DEF Cashflow, IncomeSummary, SpendingSummary
<1> HIDE DEF N, I, S
<1>3. AmountOf(N) = AmountOf(I) + AmountOf(S)
  BY <1>1, PartIsView, AmountSplits
<1>4. AmountOf(I) \in Int /\ AmountOf(S) \in Int
  BY <1>1, AmountIsInt
<1>5. Cashflow(V, V).net = -AmountOf(N)
  BY <1>2, <1>3, <1>4
<1> QED BY <1>5 DEF N

\* ... and cash flow accounts for every row that is not a transfer
\* (analytics/cashflow.py, docs/analytics.md).
LEMMA CashflowHolds == TypeOK => CashflowBalances
<1> SUFFICES ASSUME TypeOK, NEW p \in Reportable
             PROVE  calculate_cashflow(Database, Database, p).net =
                      -SumFunction([t \in {u \in Live : p.start <= rows[u].date
                                             /\ rows[u].date < p.end /\ ~IsTransfer(u)}
                                      |-> rows[t].amount])
  BY DEF CashflowBalances
<1> DEFINE V == View(Database, p)
           N == {t \in V : t.class.income \/ ~t.class.transfer}
           P == {u \in Live : p.start <= rows[u].date /\ rows[u].date < p.end /\ ~IsTransfer(u)}
           T(u) == [id |-> u, fact |-> rows[u], class |-> Classify(override[u], rows[u])]
           h == [u \in P |-> rows[u].amount]
           part == [t \in N |-> t.id]
<1>1. require_period(p) /\ p \in AnyPeriod
  BY PeriodIs DEF Reportable
<1>2. IsView(V)
  BY EffectiveIsView
<1>3. calculate_cashflow(Database, Database, p).net = -AmountOf(N)
  <2> HIDE DEF V
  <2>1. calculate_cashflow(Database, Database, p).net = Cashflow(V, V).net
    BY <1>1, ReportsAre DEF V
  <2>2. Cashflow(V, V).net = -AmountOf(N)
    BY <1>2, NetIsOfNonTransfers
  <2> QED BY <2>1, <2>2
<1>4. V = {T(u) : u \in {v \in Live : Within(rows[v].date, p)}}
  BY DEF View, Effective, Database
<1>5. ASSUME NEW u \in Live
      PROVE  (T(u).class.income \/ ~T(u).class.transfer) <=> ~IsTransfer(u)
  <2>1. CASE override[u] = NoLabel
    BY <2>1 DEF Classify, IsTransfer
  <2>2. CASE override[u] # NoLabel
    BY <2>2 DEF Classify, IsTransfer
  <2> QED BY <2>1, <2>2
<1>6. N = {T(u) : u \in P}
  <2>1. \A u \in Live : Within(rows[u].date, p) <=> p.start <= rows[u].date /\ rows[u].date < p.end
    BY DEF Within
  <2> HIDE DEF T
  <2> QED BY <1>4, <1>5, <2>1
<1>7. \A u : T(u).id = u /\ T(u).fact = rows[u]
  OBVIOUS
<1>8. IsFiniteSet(P)
  <2>1. P \in SUBSET Txns
    BY DEF Live, Present
  <2> HIDE DEF P
  <2> QED BY <2>1, ViewsAssumption, FS_Subset
<1> HIDE DEF T, P
<1>9. /\ IsFiniteSet(N) /\ AmountOf(N) = Sum(Amounts(V), N)
      /\ \A t \in N : Amounts(V)[t] \in Int /\ Amounts(V)[t] = t.fact.amount
  <2>1. N \in SUBSET V
    OBVIOUS
  <2> HIDE DEF N, V
  <2>2. \A t \in V : Amounts(V)[t] \in Int /\ Amounts(V)[t] = t.fact.amount
    BY <1>2, AmountIsInt
  <2> QED BY <1>2, <2>1, <2>2, AmountIsInt
<1>10. \A t \in N : part[t] \in P
  BY <1>6, <1>7
<1>11. \A u \in P : h[u] = Sum(Amounts(V), Class(N, part, u))
  <2> SUFFICES ASSUME NEW u \in P PROVE h[u] = Sum(Amounts(V), Class(N, part, u))
    OBVIOUS
  <2>1. T(u) \in N
    BY <1>6
  <2>2. Class(N, part, u) = {T(u)}
    BY <1>6, <1>7, <2>1 DEF Class
  <2>3. Sum(Amounts(V), {T(u)}) = Amounts(V)[T(u)]
    BY <1>9, <2>1, SumOfOne
  <2>4. Amounts(V)[T(u)] = rows[u].amount
    BY <1>7, <1>9, <2>1
  <2> HIDE DEF N, V, part
  <2> QED BY <2>2, <2>3, <2>4
<1>12. Sum(Amounts(V), N) = Sum(h, P)
  <2> HIDE DEF N, V, part, h
  <2> QED BY <1>8, <1>9, <1>10, <1>11, SumByParts
<1>13. Sum(h, P) = SumFunction(h)
  BY DEF Sum, SumFunction
<1> QED BY <1>3, <1>9, <1>12, <1>13 DEF P
-----------------------------------------------------------------------------
(* Budgets.                                                                *)

\* A budget whose category has one spelling is measured by the spending in it.
LEMMA OneSpellingIsMeasured ==
    ASSUME NEW V, IsView(V), NEW c \in Labels,
           Cardinality({d \in DOMAIN SpendingByCategory(V) : casefold[d] = casefold[c]}) <= 1
    PROVE  BudgetActual(V, c) = AmountIn(V, c) /\ AmountIn(V, c) \in Int
<1> DEFINE byCategory == SpendingByCategory(V)
           spellings == {d \in DOMAIN byCategory : casefold[d] = casefold[c]}
<1>1. AmountIn(V, c) = Sum(byCategory, spellings)
  BY ViewAddsUp
<1>2. IsFiniteSet(spellings)
  <2>1. IsFiniteSet(DOMAIN byCategory) /\ spellings \in SUBSET DOMAIN byCategory
    BY ViewAddsUp
  <2> HIDE DEF byCategory, spellings
  <2> QED BY <2>1, FS_Subset
<1>3. AmountIn(V, c) \in Int
  BY AmountIsInt DEF AmountIn
<1>4. \A d \in DOMAIN byCategory : byCategory[d] \in Int
  BY AmountIsInt DEF SpendingByCategory, SpentOn
<1>5. BudgetActual(V, c) = IF spellings = {} THEN 0 ELSE Min({byCategory[d] : d \in spellings})
  BY DEF BudgetActual
<1>6. \A d \in spellings : byCategory[d] \in Int
  BY <1>4
<1>7. Cardinality(spellings) <= 1
  OBVIOUS
<1> HIDE DEF byCategory, spellings
<1>8. CASE spellings = {}
  BY <1>1, <1>3, <1>5, <1>8, SumOfNone
<1>9. CASE spellings # {}
  <2>1. Cardinality(spellings) = 1
    BY <1>2, <1>7, <1>9, FS_EmptySet, FS_CardinalityType
  <2>2. PICK d : spellings = {d}
    BY <1>2, <2>1, FS_Singleton
  <2>3. Sum(byCategory, spellings) = byCategory[d]
    BY <1>6, <2>2, SumOfOne
  <2>4. {byCategory[e] : e \in spellings} = {byCategory[d]}
    BY <2>2
  <2>5. Min({byCategory[d]}) = byCategory[d]
    BY <1>6, <2>2 DEF Min
  <2> QED BY <1>1, <1>3, <1>5, <1>9, <2>3, <2>4, <2>5
<1> QED BY <1>8, <1>9

\* ... and a budget is measured by the spending of its category
\* (analytics/budgeting.py).
LEMMA BudgetsHold == TypeOK => BudgetsAgree
<1> SUFFICES ASSUME TypeOK, NEW p \in Reportable
             PROVE  LET spent   == get_spending_by_category(Database, p).categories
                        report  == get_budget_status(Database, Database, p).budgets
                    IN  /\ {status.category : status \in report} = DOMAIN budgets
                        /\ \A status \in report :
                            Cardinality({c \in DOMAIN spent :
                                           casefold[c] = casefold[status.category]}) <= 1
                            => LET actual == compare_periods(Database, Database, p, p,
                                                             status.category).amount_a
                               IN  /\ status.actual_spent = actual
                                   /\ status.remaining < 0 <=> status.over_budget
                                   /\ status.remaining + actual = budgets[status.category]
  BY Zenon DEF BudgetsAgree
<1> DEFINE db == Database
           V == View(db, p)
           Of(c) == [category |-> c, monthly_amount |-> budgets[c],
                     actual_spent |-> BudgetActual(V, c),
                     remaining |-> budgets[c] - BudgetActual(V, c),
                     over_budget |-> BudgetActual(V, c) > budgets[c]]
           report == get_budget_status(db, db, p).budgets
<1>1. require_period(p) /\ p \in AnyPeriod
  BY PeriodIs DEF Reportable
<1>2. IsView(V)
  BY EffectiveIsView
<1>3. report = {Of(c) : c \in DOMAIN budgets}
  BY <1>1 DEF get_budget_status, Answer, BudgetStatus, Database
<1>4. DOMAIN budgets \subseteq Labels /\ \A c \in DOMAIN budgets : budgets[c] \in Int
  BY ViewsAssumption DEF TypeOK
<1>5. {status.category : status \in report} = DOMAIN budgets
  <2>1. \A c : Of(c).category = c
    OBVIOUS
  <2> HIDE DEF Of, report
  <2> QED BY <1>3, <2>1
<1>6. get_spending_by_category(db, p).categories = SpendingByCategory(V)
      /\ \A c : compare_periods(db, db, p, p, c).amount_a = AmountIn(V, c)
  BY <1>1, ReportsAre
<1>7. ASSUME NEW status \in report,
             Cardinality({c \in DOMAIN SpendingByCategory(V) :
                            casefold[c] = casefold[status.category]}) <= 1
      PROVE  /\ status.actual_spent = AmountIn(V, status.category)
             /\ status.remaining < 0 <=> status.over_budget
             /\ status.remaining + AmountIn(V, status.category) = budgets[status.category]
  <2>1. PICK c \in DOMAIN budgets : status = Of(c)
    BY <1>3
  <2>2. status.category = c /\ c \in Labels /\ budgets[c] \in Int
    BY <1>4, <2>1
  <2> HIDE DEF V
  <2>3. BudgetActual(V, c) = AmountIn(V, c) /\ AmountIn(V, c) \in Int
    BY <1>2, <1>7, <2>2, OneSpellingIsMeasured
  <2>4. /\ status.actual_spent = BudgetActual(V, c)
        /\ status.remaining = budgets[c] - BudgetActual(V, c)
        /\ status.over_budget <=> BudgetActual(V, c) > budgets[c]
    BY <2>1
  <2> DEFINE a == AmountIn(V, c)
             b == budgets[c]
  <2>5. a \in Int /\ b \in Int /\ status.actual_spent = a /\ status.remaining = b - a
        /\ (status.over_budget <=> a > b)
    BY <2>2, <2>3, <2>4
  <2> HIDE DEF Of, a, b, report
  <2>6. status.remaining < 0 <=> status.over_budget
    BY <2>5
  <2>7. status.remaining + a = b
    BY <2>5
  <2> QED BY <2>2, <2>5, <2>6, <2>7 DEF a, b
<1> HIDE DEF V, db, report, Of
<1> QED BY <1>5, <1>6, <1>7 DEF db, report
-----------------------------------------------------------------------------
(* Lists.                                                                  *)

\* The newer of two transactions of a view.
LEMMA NewerIsOrder ==
    ASSUME NEW V, IsView(V)
    PROVE  /\ \A t, u \in V : t # u => Newer(t, u) \/ Newer(u, t)
           /\ \A t, u \in V : ~(Newer(t, u) /\ Newer(u, t))
           /\ \A t \in V : ~Newer(t, t)
           /\ \A t, u, v \in V : Newer(t, u) /\ Newer(u, v) => Newer(t, v)
<1>1. \A t \in V : t.id \in Nat /\ t.fact.date \in Int
  BY DEF IsView, Fact
<1>2. \A t, u \in V : t # u => t.id # u.id
  BY DEF IsView
<1> QED BY <1>1, <1>2 DEF Newer

\* A view that is not empty has an oldest transaction.
LEMMA OldestExists ==
    ASSUME NEW V, IsView(V), V # {}
    PROVE  \E o \in V : \A t \in V \ {o} : Newer(t, o)
<1> DEFINE F == {T \in SUBSET V : T # {} => \E o \in T : \A t \in T \ {o} : Newer(t, o)}
<1>1. ASSUME NEW T \in SUBSET V, \A x \in T : T \ {x} \in F
      PROVE  T \in F
  <2> SUFFICES ASSUME T # {} PROVE \E o \in T : \A t \in T \ {o} : Newer(t, o)
    OBVIOUS
  <2>1. PICK x \in T : TRUE
    OBVIOUS
  <2>2. CASE T = {x}
    BY <2>2
  <2>3. CASE T # {x}
    <3>1. PICK o \in T \ {x} : \A t \in (T \ {x}) \ {o} : Newer(t, o)
      BY <1>1, <2>3
    <3>2. Newer(x, o) \/ Newer(o, x)
      BY <3>1, NewerIsOrder
    <3>3. CASE Newer(x, o)
      BY <3>1, <3>3
    <3>4. CASE Newer(o, x)
      <4>1. \A t \in T \ {x} : Newer(t, x)
        BY <3>1, <3>4, NewerIsOrder
      <4> QED BY <4>1
    <3> QED BY <3>2, <3>3, <3>4
  <2> QED BY <2>2, <2>3
<1>2. \A T \in SUBSET V : T \in F
  <2>1. IsFiniteSet(V)
    BY DEF IsView
  <2> HIDE DEF F
  <2> QED BY <1>1, <2>1, SubsetInduction
<1> QED BY <1>2

\* The transactions that come before one in a list.
Before(V, t) == {u \in V : Newer(u, t)}

\* A list has as many transactions as there are, up to its limit.
LEMMA ListIsFull ==
    ASSUME NEW V, IsView(V), NEW n \in Nat
    PROVE  Cardinality(ListTransactions(V, n))
             = IF Cardinality(V) < n THEN Cardinality(V) ELSE n
<1> DEFINE F == {T \in SUBSET V : Cardinality(ListTransactions(T, n))
                                    = IF Cardinality(T) < n THEN Cardinality(T) ELSE n}
<1>1. ASSUME NEW T \in SUBSET V, \A x \in T : T \ {x} \in F
      PROVE  T \in F
  <2>1. IsView(T) /\ IsFiniteSet(T) /\ Cardinality(T) \in Nat
    BY PartIsView, FS_CardinalityType DEF IsView
  <2>2. CASE T = {}
    <3>1. ListTransactions(T, n) = {}
      BY <2>2 DEF ListTransactions
    <3> QED BY <2>2, <3>1, FS_EmptySet
  <2>3. CASE T # {}
    <3>1. PICK o \in T : \A t \in T \ {o} : Newer(t, o)
      BY <2>1, <2>3, OldestExists
    <3> DEFINE R == T \ {o}
    <3>2. IsView(R) /\ IsFiniteSet(R) /\ Cardinality(R) = Cardinality(T) - 1
          /\ Cardinality(R) \in Nat
      BY <2>1, <3>1, PartIsView, FS_RemoveElement, FS_CardinalityType
    <3>3. Before(T, o) = R
      BY <2>1, <3>1, NewerIsOrder DEF Before
    <3>4. \A t \in R : Before(T, t) = Before(R, t)
      BY <2>1, <3>1, NewerIsOrder DEF Before
    <3>5. \A A : ListTransactions(A, n) = {t \in A : Cardinality(Before(A, t)) < n}
      BY DEF ListTransactions, Before
    <3>6. ListTransactions(T, n)
            = ListTransactions(R, n) \cup (IF Cardinality(R) < n THEN {o} ELSE {})
      <4>1. T = R \cup {o} /\ o \notin R
        BY <3>1
      <4> HIDE DEF R
      <4> QED BY <3>3, <3>4, <3>5, <4>1
    <3>7. Cardinality(ListTransactions(R, n))
            = IF Cardinality(R) < n THEN Cardinality(R) ELSE n
      BY <1>1
    <3>8. IsFiniteSet(ListTransactions(R, n)) /\ o \notin ListTransactions(R, n)
      BY <3>2, FS_Subset DEF ListTransactions
    <3> HIDE DEF R
    <3>9. CASE Cardinality(R) < n
      <4>1. Cardinality(ListTransactions(T, n)) = Cardinality(R) + 1
        <5> DEFINE L == ListTransactions(R, n)
        <5>1. ListTransactions(T, n) = L \cup {o} /\ Cardinality(L) = Cardinality(R)
          BY <3>6, <3>7, <3>9
        <5>2. IsFiniteSet(L) /\ o \notin L
          BY <3>8
        <5> HIDE DEF L
        <5>3. Cardinality(L \cup {o}) = Cardinality(L) + 1
          BY <5>2, FS_AddElement
        <5> QED BY <5>1, <5>3
      <4>2. Cardinality(ListTransactions(T, n))
              = IF Cardinality(T) < n THEN Cardinality(T) ELSE n
        BY <2>1, <3>2, <3>9, <4>1
      <4> QED BY <4>2
    <3>10. CASE ~(Cardinality(R) < n)
      <4>1. Cardinality(ListTransactions(T, n)) = n
        BY <3>6, <3>7, <3>10
      <4>2. Cardinality(ListTransactions(T, n))
              = IF Cardinality(T) < n THEN Cardinality(T) ELSE n
        BY <2>1, <3>2, <3>10, <4>1
      <4> QED BY <4>2
    <3> QED BY <3>9, <3>10
  <2> QED BY <2>2, <2>3
<1>2. \A T \in SUBSET V : T \in F
  <2>1. IsFiniteSet(V)
    BY DEF IsView
  <2> HIDE DEF F
  <2> QED BY <1>1, <2>1, SubsetInduction
<1> QED BY <1>2

\* It is the newest part.
LEMMA ListIsNewest ==
    ASSUME NEW V, IsView(V), NEW n \in Nat,
           NEW t \in ListTransactions(V, n), NEW u \in V \ ListTransactions(V, n)
    PROVE  Newer(t, u)
<1> SUFFICES ASSUME ~Newer(t, u) PROVE FALSE
  OBVIOUS
<1>1. t \in V /\ u \in V /\ t # u
  BY DEF ListTransactions
<1>2. Newer(u, t)
  BY <1>1, NewerIsOrder
<1>3. Before(V, u) \in SUBSET Before(V, t)
  BY <1>1, <1>2, NewerIsOrder DEF Before
<1>4. \A v \in V : IsFiniteSet(Before(V, v)) /\ Cardinality(Before(V, v)) \in Nat
  BY FS_Subset, FS_CardinalityType DEF IsView, Before
<1>5. Cardinality(Before(V, u)) <= Cardinality(Before(V, t))
  BY <1>1, <1>3, <1>4, FS_Subset
<1>6. Cardinality(Before(V, t)) < n /\ ~(Cardinality(Before(V, u)) < n)
  BY <1>1 DEF ListTransactions, Before
<1> QED BY <1>1, <1>4, <1>5, <1>6

\* Listed as often as there are.
LEMMA RecordsAreDistinct ==
    ASSUME NEW V, IsView(V), NEW T \in SUBSET V
    PROVE  /\ \A t, u \in V : Record(t) = Record(u) => t = u
           /\ Cardinality({Record(t) : t \in T}) = Cardinality(T)
<1>1. \A t, u \in V : Record(t) = Record(u) => t = u
  <2> SUFFICES ASSUME NEW t \in V, NEW u \in V, Record(t) = Record(u) PROVE t = u
    OBVIOUS
  <2>1. t.id = u.id
    BY DEF Record
  <2> QED BY <2>1 DEF IsView
<1>2. IsFiniteSet(T)
  BY FS_Subset DEF IsView
<1> DEFINE R == {Record(t) : t \in T}
           f == [t \in T |-> Record(t)]
<1>3. f \in Surjection(T, R)
  BY DEF Surjection
<1>4. f \in Injection(T, R)
  BY <1>1 DEF Injection, IsInjective
<1> HIDE DEF f, R
<1>5. Cardinality(R) = Cardinality(T)
  BY <1>2, <1>3, <1>4, FS_Surjection
<1> QED BY <1>1, <1>5 DEF R

\* What a list shows of a part of the transactions is its newest part.
LEMMA ListIsNewestPart ==
    ASSUME NEW V, IsView(V), NEW n \in Nat, NEW T \in SUBSET V
    PROVE  LET part == {Record(t) : t \in ListTransactions(T, n)}
               all  == {Record(t) : t \in T}
           IN  /\ part \subseteq all
               /\ \A t \in part, u \in all \ part :
                    t.date > u.date \/ (t.date = u.date /\ t.transaction_id > u.transaction_id)
               /\ Cardinality(part) =
                    IF Cardinality(all) < n THEN Cardinality(all) ELSE n
<1> DEFINE L == ListTransactions(T, n)
           part == {Record(t) : t \in L}
           all == {Record(t) : t \in T}
           later(t, u) == t.date > u.date
                            \/ (t.date = u.date /\ t.transaction_id > u.transaction_id)
<1>1. IsView(T) /\ L \in SUBSET T
  BY PartIsView DEF ListTransactions
<1>2. part \subseteq all
  BY <1>1
<1>3. ASSUME NEW r \in part, NEW s \in all \ part
      PROVE  later(r, s)
  <2>1. PICK t \in L : r = Record(t)
    OBVIOUS
  <2>2. PICK u \in T : s = Record(u)
    OBVIOUS
  <2>3. u \notin L
    BY <2>2
  <2>4. Newer(t, u)
    <3> HIDE DEF later
    <3> QED BY <1>1, <2>1, <2>2, <2>3, ListIsNewest
  <2> QED BY <2>1, <2>2, <2>4 DEF Newer, Record
<1>4. Cardinality(part) = IF Cardinality(all) < n THEN Cardinality(all) ELSE n
  <2>1. Cardinality(L) = IF Cardinality(T) < n THEN Cardinality(T) ELSE n
    BY <1>1, ListIsFull
  <2>2. Cardinality(part) = Cardinality(L)
    <3> HIDE DEF L
    <3> QED BY <1>1, RecordsAreDistinct
  <2>3. Cardinality(all) = Cardinality(T)
    BY <1>1, RecordsAreDistinct
  <2> HIDE DEF L, part, all
  <2> QED BY <2>1, <2>2, <2>3
<1> QED BY <1>2, <1>3, <1>4

\* ... and the lists of a period are of the transactions its totals are about
\* (analytics/transactions.py).
LEMMA ListsHold == TypeOK => ListsAgree
<1> SUFFICES ASSUME TypeOK PROVE ListsAgree
  OBVIOUS
<1> DEFINE db == Database
           listed(p, limit) == get_transactions(db, p, limit).transactions
           found(p, q, limit) == search_transactions(db, q, p, limit).transactions
           later(t, u) == t.date > u.date
                            \/ (t.date = u.date /\ t.transaction_id > u.transaction_id)
           limits == {n \in 1..(Cardinality(Txns) + 1) : n <= 200}
           newest(part, all, limit) ==
               /\ part \subseteq all
               /\ \A t \in part, u \in all \ part : later(t, u)
               /\ Cardinality(part) =
                    IF Cardinality(all) < limit THEN Cardinality(all) ELSE limit
           V(p) == View(db, p)
           whole(p) == {Record(t) : t \in V(p)}
           matching(p, q) == {t \in whole(p) : \E text \in containing[q] :
                                                 text \in {t.name, t.merchant_name}}
<1>1. \A p \in Reportable : require_period(p) /\ p \in AnyPeriod /\ IsView(V(p))
  BY ReportableIs, EffectiveIsView
<1>2. \A n \in limits : n \in Nat /\ require_int(n, 1, 200)
  <2>1. Cardinality(Txns) \in Nat
    BY ViewsAssumption, FS_CardinalityType
  <2> QED BY <2>1 DEF require_int
<1>3. ASSUME NEW p \in Reportable
      PROVE  {t.transaction_id : t \in whole(p)} =
               {t \in Live : p.start <= rows[t].date /\ rows[t].date < p.end}
  <2> DEFINE T(u) == [id |-> u, fact |-> rows[u], class |-> Classify(override[u], rows[u])]
  <2>1. V(p) = {T(u) : u \in {v \in Live : Within(rows[v].date, p)}}
    BY DEF View, Effective, Database
  <2>2. {t.id : t \in V(p)} = {v \in Live : Within(rows[v].date, p)}
    <3>1. \A u : T(u).id = u
      OBVIOUS
    <3> HIDE DEF T, V
    <3> QED BY <2>1, <3>1
  <2>3. \A t : Record(t).transaction_id = t.id
    BY DEF Record
  <2> HIDE DEF V
  <2> QED BY <2>2, <2>3 DEF Within
<1>4. ASSUME NEW p \in Reportable, NEW n \in limits, NEW T \in SUBSET V(p)
      PROVE  newest({Record(t) : t \in ListTransactions(T, n)}, {Record(t) : t \in T}, n)
  <2> HIDE DEF V, limits
  <2> QED BY <1>1, <1>2, ListIsNewestPart
<1>5. ASSUME NEW p \in Reportable, NEW n \in limits
      PROVE  /\ newest(listed(p, n), whole(p), n)
             /\ transactions_recent(db, p.end - 1, p.end - 1 - p.start, n).transactions
                  = listed(p, n)
  <2>1. listed(p, n) = {Record(t) : t \in ListTransactions(V(p), n)}
    BY <1>1, <1>2 DEF get_transactions, Answer, Listing
  <2>2. LastDays(p.end - 1, p.end - 1 - p.start) = p
    BY <1>1, PeriodIs DEF LastDays
  <2>3. transactions_recent(db, p.end - 1, p.end - 1 - p.start, n).transactions
          = listed(p, n)
    BY <2>1, <2>2 DEF transactions_recent, Listing, V
  <2> HIDE DEF listed, newest, V
  <2> QED BY <1>4, <2>1, <2>3
<1>6. ASSUME NEW p \in Reportable, NEW n \in limits, NEW q \in DOMAIN containing
      PROVE  newest(found(p, q, n), matching(p, q), n)
  <2> DEFINE T == {t \in V(p) : {t.fact.name, t.fact.merchant} \cap containing[q] # {}}
  <2>1. found(p, q, n) = {Record(t) : t \in ListTransactions(T, n)}
    BY <1>1, <1>2 DEF search_transactions, Answer, Listing, SearchTransactions, V
  <2>2. matching(p, q) = {Record(t) : t \in T}
    <3>1. \A t : Record(t).name = t.fact.name /\ Record(t).merchant_name = t.fact.merchant
      BY DEF Record
    <3> HIDE DEF V
    <3> QED BY <3>1
  <2>3. T \in SUBSET V(p)
    OBVIOUS
  <2> HIDE DEF found, matching, newest, V, T
  <2> QED BY <1>4, <2>1, <2>2, <2>3
<1> HIDE DEF db, listed, found, V, limits
<1> QED BY <1>3, <1>5, <1>6 DEF ListsAgree, db, listed, found, V, limits
-----------------------------------------------------------------------------
(* Recurring charges.                                                      *)

\* The months before a month of the first year, counted back.
LEMMA WindowIs ==
    ASSUME NEW n \in 1..12
    PROVE  Window(Month(n), n) = [start |-> MonthBounds(1, 1).start, end |-> MonthBounds(1, n).end]
<1> DEFINE Back(f) == [k \in Nat |-> IF k = 0 THEN Month(n) ELSE PreviousMonth(f[k - 1])]
           back == CHOOSE f : f = Back(f)
           \* Months are counted from the first of year 0.
           f == [k \in Nat |-> [year |-> (12 + n - 1 - k) \div 12,
                                month |-> ((12 + n - 1 - k) % 12) + 1]]
<1>1. f = Back(f)
  <2>1. f[0] = Month(n)
    BY DEF Month
  <2>2. ASSUME NEW k \in Nat, k # 0
        PROVE  f[k] = PreviousMonth(f[k - 1])
    <3> DEFINE i == 12 + n - k
    <3>1. /\ i \in Int
          /\ f[k - 1] = [year |-> i \div 12, month |-> (i % 12) + 1]
          /\ f[k] = [year |-> (i - 1) \div 12, month |-> ((i - 1) % 12) + 1]
      <4>1. /\ k - 1 \in Nat /\ 12 + n - 1 - (k - 1) = i
            /\ 12 + n - 1 - k = i - 1 /\ i \in Int
        BY <2>2
      <4> HIDE DEF i
      <4> QED BY <4>1
    <3> HIDE DEF i, f
    <3>2. CASE i % 12 = 0
      <4>1. (i - 1) \div 12 = (i \div 12) - 1 /\ ((i - 1) % 12) + 1 = 12
        BY <3>1, <3>2
      <4>2. PreviousMonth(f[k - 1]) = [year |-> (i \div 12) - 1, month |-> 12]
        BY <3>1, <3>2 DEF PreviousMonth
      <4> QED BY <3>1, <4>1, <4>2
    <3>3. CASE i % 12 # 0
      <4>1. (i - 1) \div 12 = i \div 12 /\ ((i - 1) % 12) + 1 = ((i % 12) + 1) - 1
            /\ (i % 12) + 1 # 1
        BY <3>1, <3>3
      <4>2. PreviousMonth(f[k - 1]) = [f[k - 1] EXCEPT !.month = @ - 1]
        BY <3>1, <4>1 DEF PreviousMonth
      <4>3. [f[k - 1] EXCEPT !.month = @ - 1]
              = [year |-> i \div 12, month |-> ((i % 12) + 1) - 1]
        BY <3>1
      <4> QED BY <3>1, <4>1, <4>2, <4>3
    <3> QED BY <3>2, <3>3
  <2> HIDE DEF f
  <2>3. \A k \in Nat : f[k] = IF k = 0 THEN Month(n) ELSE PreviousMonth(f[k - 1])
    BY <2>1, <2>2
  <2>4. f = [k \in Nat |-> f[k]]
    BY DEF f
  <2> QED BY <2>3, <2>4
<1>2. back = Back(back)
  <2> HIDE DEF f, Back
  <2> QED BY <1>1
<1>3. \A k \in Nat : back[k] = IF k = 0 THEN Month(n) ELSE PreviousMonth(back[k - 1])
  <2> HIDE DEF back
  <2> QED BY <1>2
<1>4. \A k \in 0..(n - 1) : back[k] = Month(n - k)
  <2> DEFINE N == {k \in Nat : k <= n - 1 /\ back[k] # Month(n - k)}
  <2>1. N = {}
    <3> SUFFICES ASSUME N # {} PROVE FALSE
      OBVIOUS
    <3>1. PICK k \in N : \A j \in N : k <= j
      <4>1. N \in SUBSET Nat
        OBVIOUS
      <4> HIDE DEF N
      <4> QED BY <4>1, LeastNatural
    <3> HIDE DEF back
    <3>2. k # 0
      BY <1>3
    <3>3. k - 1 \in Nat /\ k - 1 \notin N
      <4>1. k \in Nat
        OBVIOUS
      <4> HIDE DEF N
      <4> QED BY <3>1, <3>2, <4>1
    <3>4. back[k - 1] = Month(n - k + 1)
      BY <3>3
    <3>5. back[k] = PreviousMonth(Month(n - k + 1))
      BY <1>3, <3>2, <3>4
    <3>6. PreviousMonth(Month(n - k + 1)) = Month(n - k)
      BY DEF PreviousMonth, Month
    <3> QED BY <3>5, <3>6
  <2> HIDE DEF back
  <2> QED BY <2>1
<1>5. back[n - 1] = Month(1)
  <2> HIDE DEF back
  <2>1. n - 1 \in 0..(n - 1) /\ n - (n - 1) = 1
    OBVIOUS
  <2> QED BY <1>4, <2>1
<1>6. Window(Month(n), n) = [start |-> MonthBounds(back[n - 1].year, back[n - 1].month).start,
                             end |-> MonthBounds(Month(n).year, Month(n).month).end]
  BY DEF Window
<1> HIDE DEF back
<1> QED BY <1>5, <1>6 DEF Month

\* A transaction belongs to the series of a merchant that its name was charged
\* with, or to that of its name when it never was.
LEMMA SeriesIs ==
    ASSUME NEW V, IsView(V), NEW t \in V
    PROVE  \/ \E u \in V : u.fact.name = t.fact.name /\ u.fact.merchant # NoLabel
                           /\ Series(V, t) = u.fact.merchant
           \/ /\ \A u \in V : u.fact.name = t.fact.name => u.fact.merchant = NoLabel
              /\ Series(V, t) = t.fact.name
<1> DEFINE known == {u \in V : u.fact.name = t.fact.name /\ u.fact.merchant # NoLabel}
           first == CHOOSE u \in known : \A v \in known : v = u \/ Newer(v, u)
<1>1. Series(V, t) = IF t.fact.merchant # NoLabel THEN t.fact.merchant
                     ELSE IF known # {} THEN first.fact.merchant
                     ELSE t.fact.name
  BY DEF Series
<1>2. CASE known = {}
  BY <1>1, <1>2
<1>3. CASE known # {}
  <2>1. IsView(known)
    <3>1. known \in SUBSET V
      OBVIOUS
    <3> HIDE DEF known
    <3> QED BY <3>1, PartIsView
  <2>2. \E u \in known : \A v \in known : v = u \/ Newer(v, u)
    <3> HIDE DEF known
    <3>1. PICK u \in known : \A v \in known \ {u} : Newer(v, u)
      BY <1>3, <2>1, OldestExists
    <3> QED BY <3>1
  <2>3. first \in known
    <3> HIDE DEF known
    <3> QED BY <2>2
  <2> HIDE DEF first
  <2> QED BY <1>1, <1>3, <2>3
<1> QED BY <1>2, <1>3

\* The merchants a name was charged with, and the labels its charges may go by.
MerchantsOf(V, name) == {t.fact.merchant : t \in {u \in V : u.fact.name = name}} \ {NoLabel}

KeysOf(V, name) == MerchantsOf(V, name) \cup {name}

\* The transactions of a name are one series, and no other transaction is in a
\* series of one of its labels.
LEMMA OneSeries ==
    ASSUME NEW V, IsView(V), NEW name, \E t \in V : t.fact.name = name,
           Cardinality(MerchantsOf(V, name)) <= 1,
           \A t \in V : t.fact.name # name
                        => t.fact.name \notin KeysOf(V, name)
                           /\ t.fact.merchant \notin KeysOf(V, name)
    PROVE  \E key \in KeysOf(V, name) :
             \A t \in V : /\ t.fact.name = name => Series(V, t) = key
                          /\ Series(V, t) \in KeysOf(V, name) => t.fact.name = name
<1>1. ASSUME NEW t \in V, Series(V, t) \in KeysOf(V, name)
      PROVE  t.fact.name = name
  BY <1>1, SeriesIs
<1>2. CASE MerchantsOf(V, name) = {}
  <2>1. \A t \in V : t.fact.name = name => t.fact.merchant = NoLabel
    BY <1>2 DEF MerchantsOf
  <2>2. ASSUME NEW t \in V, t.fact.name = name
        PROVE  Series(V, t) = name
    BY <2>1, <2>2, SeriesIs
  <2> QED BY <1>1, <2>2 DEF KeysOf
<1>3. CASE MerchantsOf(V, name) # {}
  <2>1. PICK m : MerchantsOf(V, name) = {m}
    <3>1. IsFiniteSet(MerchantsOf(V, name))
      <4> DEFINE f == [u \in V |-> u.fact.merchant]
                 S == {u \in V : u.fact.name = name}
      <4>1. IsFiniteSet(S)
        BY FS_Subset DEF IsView
      <4>2. IsFiniteSet({f[u] : u \in S})
        <5> HIDE DEF f, S
        <5> QED BY <4>1, ImageIsFinite
      <4>3. MerchantsOf(V, name) \in SUBSET {f[u] : u \in S}
        BY DEF MerchantsOf
      <4> HIDE DEF f, S
      <4> QED BY <4>2, <4>3, FS_Subset
    <3>2. Cardinality(MerchantsOf(V, name)) = 1
      BY <1>3, <3>1, FS_EmptySet, FS_CardinalityType
    <3> QED BY <3>1, <3>2, FS_Singleton
  <2>2. PICK c \in V : c.fact.name = name /\ c.fact.merchant = m /\ m # NoLabel
    BY <2>1 DEF MerchantsOf
  <2>3. \A u \in V : u.fact.name = name /\ u.fact.merchant # NoLabel => u.fact.merchant = m
    BY <2>1 DEF MerchantsOf
  <2>4. ASSUME NEW t \in V, t.fact.name = name
        PROVE  Series(V, t) = m
    BY <2>2, <2>3, <2>4, SeriesIs
  <2> QED BY <1>1, <2>1, <2>4 DEF KeysOf
<1> QED BY <1>2, <1>3

\* One report of the window finds the charge, once.
LEMMA SeriesIsFound ==
    ASSUME NEW V, IsView(V), NEW k, NEW name, \E t \in V : t.fact.name = name,
           Cardinality(MerchantsOf(V, name)) <= 1,
           \A t \in V : t.fact.name # name
                        => t.fact.name \notin KeysOf(V, name)
                           /\ t.fact.merchant \notin KeysOf(V, name),
           LooksRecurring({t \in V : IsSpending(t) /\ t.fact.name = name}, k)
    PROVE  LET found == FindRecurring(V, k) IN
           \E r \in found :
             /\ r.occurrences = Cardinality({t \in V : IsSpending(t) /\ t.fact.name = name})
             /\ {r} = {s \in found : s.merchant \in KeysOf(V, name)}
<1> DEFINE bill == {t \in V : IsSpending(t) /\ t.fact.name = name}
           found == FindRecurring(V, k)
           Of(key) == [merchant |-> key,
                       occurrences |-> Cardinality(Entries(V, key)),
                       average_amount |-> Ratio(AmountOf(Entries(V, key)),
                                                Cardinality(Entries(V, key))),
                       last_date |-> Max({t.fact.date : t \in Entries(V, key)})]
           Keys == {key \in {Series(V, t) : t \in V} : LooksRecurring(Entries(V, key), k)}
<1>1. found = {Of(key) : key \in Keys}
  BY DEF FindRecurring
<1>2. PICK key \in KeysOf(V, name) :
        \A t \in V : /\ t.fact.name = name => Series(V, t) = key
                     /\ Series(V, t) \in KeysOf(V, name) => t.fact.name = name
  BY OneSeries
<1>3. Entries(V, key) = bill
  BY <1>2 DEF Entries
<1>4. key \in Keys
  <2>1. LooksRecurring(Entries(V, key), k)
    BY <1>3
  <2>2. key \in {Series(V, t) : t \in V}
    BY <1>2
  <2> QED BY <2>1, <2>2
<1>5. \A j \in Keys : j \in KeysOf(V, name) => j = key
  BY <1>2
<1>6. \A j : Of(j).merchant = j /\ Of(j).occurrences = Cardinality(Entries(V, j))
  OBVIOUS
<1> HIDE DEF found, Of, Keys
<1>7. Of(key) \in found /\ Of(key).occurrences = Cardinality(bill)
  BY <1>1, <1>3, <1>4, <1>6
<1>8. {Of(key)} = {s \in found : s.merchant \in KeysOf(V, name)}
  BY <1>1, <1>2, <1>4, <1>5, <1>6
<1> HIDE DEF bill
<1> QED BY <1>7, <1>8 DEF bill, found

\* A charge billed under one name is found again, and found once.
LEMMA RecurringHolds == TypeOK => RecurringIsFound
<1> SUFFICES ASSUME TypeOK, NEW n \in MonthNumbers, NEW k \in 2..n
    PROVE
        LET txns == Effective(rows, Live, override,
                              [start |-> MonthBounds(1, 1).start, end |-> MonthBounds(1, n).end])
            found == find_recurring_transactions(Database, Month(n), n, k).merchants
            merchants(name) == {t.fact.merchant : t \in {u \in txns : u.fact.name = name}}
                                  \ {NoLabel}
            bill(name) == {t \in txns : IsSpending(t) /\ t.fact.name = name}
            keys(name) == merchants(name) \cup {name}
            foreign(name) == {t \in txns : t.fact.name # name
                                /\ {t.fact.name, t.fact.merchant} \cap keys(name) # {}}
        IN  \A name \in {t.fact.name : t \in txns} :
                /\ Cardinality(merchants(name)) <= 1
                /\ foreign(name) = {}
                /\ bill(name) # {}
                /\ LooksRecurring(bill(name), k)
                => \E r \in found :
                      /\ r.occurrences = Cardinality(bill(name))
                      /\ {r} = {s \in found : s.merchant \in keys(name)}
  BY Zenon DEF RecurringIsFound
<1> DEFINE p == [start |-> MonthBounds(1, 1).start, end |-> MonthBounds(1, n).end]
           V == Effective(rows, Live, override, p)
           bill(name) == {t \in V : IsSpending(t) /\ t.fact.name = name}
           found == find_recurring_transactions(Database, Month(n), n, k).merchants
<1>1. V = View(Database, p)
  BY DEF View, Database
<1>2. IsView(V)
  <2> HIDE DEF p, V
  <2> QED BY <1>1, EffectiveIsView
<1>3. found = FindRecurring(V, k)
  <2>1. n \in 1..12 /\ k \in 2..12
    BY ViewsAssumption DEF MonthNumbers
  <2>2. require_int(n, 1, 24) /\ require_int(k, 2, 24)
    BY <2>1 DEF require_int
  <2>3. Window(Month(n), n) = p
    BY <2>1, WindowIs
  <2> HIDE DEF p, V
  <2> QED BY <1>1, <2>2, <2>3 DEF find_recurring_transactions, Answer
<1> HIDE DEF p, V, found
<1>4. ASSUME NEW name, \E t \in V : t.fact.name = name,
             Cardinality(MerchantsOf(V, name)) <= 1,
             {t \in V : t.fact.name # name
                /\ {t.fact.name, t.fact.merchant} \cap KeysOf(V, name) # {}} = {},
             LooksRecurring(bill(name), k)
      PROVE  \E r \in found :
               /\ r.occurrences = Cardinality(bill(name))
               /\ {r} = {s \in found : s.merchant \in KeysOf(V, name)}
  <2>1. \A t \in V : t.fact.name # name
                     => t.fact.name \notin KeysOf(V, name)
                        /\ t.fact.merchant \notin KeysOf(V, name)
    BY <1>4
  <2> QED BY <1>2, <1>3, <1>4, <2>1, SeriesIsFound
<1>5. \A name \in {t.fact.name : t \in V} :
        /\ Cardinality(MerchantsOf(V, name)) <= 1
        /\ {t \in V : t.fact.name # name
              /\ {t.fact.name, t.fact.merchant} \cap KeysOf(V, name) # {}} = {}
        /\ bill(name) # {}
        /\ LooksRecurring(bill(name), k)
        => \E r \in found :
              /\ r.occurrences = Cardinality(bill(name))
              /\ {r} = {s \in found : s.merchant \in KeysOf(V, name)}
  <2> HIDE DEF bill
  <2> QED BY <1>4
<1> QED BY <1>5 DEF MerchantsOf, KeysOf, p, V, found
-----------------------------------------------------------------------------
(* Steps of syncs and turns.                                               *)

\* What an open turn is about to annotate is there, dead or alive.
PendingHasRow ==
    turn.pc # "idle" /\ turn.to \in Picks \cup {"tag"} => turn.txn \in Present

ViewsInv == TypeOK /\ AnnotationsHaveRows /\ PendingHasRow

\* A fresh database has no annotations.
LEMMA ViewsInitially == Init => ViewsInv
BY ViewsAssumption
   DEF Init, ViewsInv, TypeOK, AnnotationsHaveRows, PendingHasRow, Present, NoTurn

\* Rows are written, marked as removed, and never deleted: what a sync commits
\* leaves the rows of annotations, and of the turn at work, where they are.
LEMMA SyncKeepsRows ==
    ASSUME ViewsInv,
           \/ \E t \in Txns, fact \in Facts : SyncUpsert(t, fact)
           \/ \E t \in Txns : SyncRemove(t)
    PROVE  ViewsInv'
<1>1. CASE \E t \in Txns, fact \in Facts : SyncUpsert(t, fact)
  <2>1. PICK t \in Txns, fact \in Facts : SyncUpsert(t, fact)
    BY <1>1
  <2>2. TypeOK'
    BY <2>1 DEF ViewsInv, TypeOK, SyncUpsert
  <2>3. Present \subseteq Present' /\ t \in Present'
    BY <2>1, ViewsAssumption DEF ViewsInv, TypeOK, SyncUpsert, Present
  <2>4. AnnotationsHaveRows'
    BY <2>1, <2>3 DEF ViewsInv, AnnotationsHaveRows, SyncUpsert
  <2>5. PendingHasRow'
    BY <2>1, <2>3 DEF ViewsInv, PendingHasRow, SyncUpsert
  <2> QED BY <2>2, <2>4, <2>5 DEF ViewsInv
<1>2. CASE \E t \in Txns : SyncRemove(t)
  <2>1. PICK t \in Txns : SyncRemove(t)
    BY <1>2
  <2>2. TypeOK'
    BY <2>1 DEF ViewsInv, TypeOK, SyncRemove
  <2>3. Present' = Present
    BY <2>1 DEF SyncRemove, Present
  <2>4. AnnotationsHaveRows'
    BY <2>1, <2>3 DEF ViewsInv, AnnotationsHaveRows, SyncRemove
  <2>5. PendingHasRow'
    BY <2>1, <2>3 DEF ViewsInv, PendingHasRow, SyncRemove
  <2> QED BY <2>2, <2>4, <2>5 DEF ViewsInv
<1> QED BY <1>1, <1>2

\* A turn annotates only what its check found alive, which is still a row.
LEMMA TurnAnnotatesRows ==
    ASSUME ViewsInv,
           \/ \E t \in Txns, to \in Annotation : CheckExists(t, to)
           \/ WriteAnnotation \/ CommitTurn \/ AbortTurn
    PROVE  ViewsInv'
<1>1. CASE \E t \in Txns, to \in Annotation : CheckExists(t, to)
  <2>1. PICK t \in Txns, to \in Annotation : CheckExists(t, to)
    BY <1>1
  <2>2. TypeOK'
    BY <2>1 DEF ViewsInv, TypeOK, CheckExists, Turn
  <2>3. Present' = Present /\ AnnotationsHaveRows'
    BY <2>1 DEF ViewsInv, AnnotationsHaveRows, CheckExists, Present
  <2>4. PendingHasRow'
    BY <2>1, <2>3 DEF PendingHasRow, CheckExists, Live
  <2> QED BY <2>2, <2>3, <2>4 DEF ViewsInv
<1>2. CASE WriteAnnotation
  <2>1. turn \in Turn
    BY <1>2 DEF ViewsInv, TypeOK, WriteAnnotation, NoTurn
  <2>2. turn' \in Turn /\ turn'.txn = turn.txn /\ turn'.to = turn.to
    BY <1>2, <2>1 DEF WriteAnnotation, Turn
  <2>3. TypeOK'
    BY <1>2, <2>2 DEF ViewsInv, TypeOK, WriteAnnotation
  <2>4. Present' = Present /\ AnnotationsHaveRows'
    BY <1>2 DEF ViewsInv, AnnotationsHaveRows, WriteAnnotation, Present
  <2>5. PendingHasRow'
    BY <1>2, <2>2, <2>4 DEF ViewsInv, PendingHasRow, WriteAnnotation
  <2> QED BY <2>3, <2>4, <2>5 DEF ViewsInv
<1>3. CASE CommitTurn
  <2>1. turn \in Turn
    BY <1>3 DEF ViewsInv, TypeOK, CommitTurn, NoTurn
  <2>2. turn.txn \in Txns /\ turn.to \in Annotation
    BY <2>1 DEF Turn
  <2>3. Present' = Present
    BY <1>3 DEF CommitTurn, Present
  <2>4. override' \in [Txns -> Picks \cup {NoLabel}]
    BY <1>3, <2>2 DEF ViewsInv, TypeOK, CommitTurn, SetOverride
  <2>5. tagged' \subseteq Txns /\ tagged' \subseteq tagged \cup {turn.txn}
        /\ (turn.to # "tag" => tagged' \subseteq tagged)
    BY <1>3, <2>2 DEF ViewsInv, TypeOK, CommitTurn, Tagged
  <2>6. TypeOK'
    BY <1>3, <2>4, <2>5 DEF ViewsInv, TypeOK, CommitTurn
  <2>7. ASSUME NEW t \in Txns, override'[t] # NoLabel
        PROVE  t \in Present
    <3>1. override[t] # NoLabel \/ (t = turn.txn /\ turn.to \in Picks)
      BY <1>3, <2>2, <2>7 DEF ViewsInv, TypeOK, CommitTurn, SetOverride
    <3> QED BY <1>3, <3>1 DEF ViewsInv, AnnotationsHaveRows, PendingHasRow, CommitTurn
  <2>8. ASSUME NEW t \in tagged'
        PROVE  t \in Present
    BY <1>3, <2>2, <2>5, <2>8
       DEF ViewsInv, TypeOK, AnnotationsHaveRows, PendingHasRow, CommitTurn
  <2>9. AnnotationsHaveRows'
    BY <1>3, <2>3, <2>7, <2>8 DEF ViewsInv, AnnotationsHaveRows, CommitTurn
  <2>10. PendingHasRow'
    BY <1>3 DEF CommitTurn, PendingHasRow, NoTurn
  <2> QED BY <2>6, <2>9, <2>10 DEF ViewsInv
<1>4. CASE AbortTurn
  <2>1. TypeOK' /\ PendingHasRow'
    BY <1>4 DEF ViewsInv, TypeOK, AbortTurn, PendingHasRow, NoTurn
  <2>2. AnnotationsHaveRows'
    BY <1>4 DEF ViewsInv, AnnotationsHaveRows, AbortTurn, Present
  <2> QED BY <2>1, <2>2 DEF ViewsInv
<1> QED BY <1>1, <1>2, <1>3, <1>4

\* What every step keeps.
LEMMA ViewsStep == ViewsInv /\ [Next]_vars => ViewsInv'
<1> SUFFICES ASSUME ViewsInv, [Next]_vars PROVE ViewsInv'
  OBVIOUS
<1>1. CASE Next
  BY <1>1, SyncKeepsRows, TurnAnnotatesRows DEF Next
<1>2. CASE UNCHANGED vars
  BY <1>2 DEF vars, ViewsInv, TypeOK, AnnotationsHaveRows, PendingHasRow, Present
<1> QED BY <1>1, <1>2

\* Whatever a sync does between the check, the write and the commit of an
\* annotation, its transaction is there (agent/tools/write.py, 33).
THEOREM AnnotationsStay == Spec => []AnnotationsHaveRows
<1>1. ViewsInv => AnnotationsHaveRows
  BY DEF ViewsInv
<1> QED BY <1>1, ViewsInitially, ViewsStep, PTL DEF Spec

\* The tools and the commands never disagree on what was spent, in all, by
\* category or under one name, and no invalid period gets a total
\* (analytics/_effective.py; agent/tools/_validation.py).
THEOREM TotalsAlwaysAgree == Spec => []TotalsAgree
<1>1. ViewsInv => TotalsAgree
  BY TotalsHold DEF ViewsInv
<1> QED BY <1>1, ViewsInitially, ViewsStep, PTL DEF Spec

\* No transaction is lost or counted twice at the boundary of a month
\* (analytics/periods.py).
THEOREM MonthsAlwaysAddUp == Spec => []MonthsAddUp
<1>1. ViewsInv => MonthsAddUp
  BY MonthsHold DEF ViewsInv
<1> QED BY <1>1, ViewsInitially, ViewsStep, PTL DEF Spec

\* Income less spending is every live amount that is no transfer
\* (analytics/cashflow.py).
THEOREM CashflowAlwaysBalances == Spec => []CashflowBalances
<1>1. ViewsInv => CashflowBalances
  BY CashflowHolds DEF ViewsInv
<1> QED BY <1>1, ViewsInitially, ViewsStep, PTL DEF Spec

\* A budget's actual is what the comparison of its category says
\* (analytics/budgeting.py).
THEOREM BudgetsAlwaysAgree == Spec => []BudgetsAgree
<1>1. ViewsInv => BudgetsAgree
  BY BudgetsHold DEF ViewsInv
<1> QED BY <1>1, ViewsInitially, ViewsStep, PTL DEF Spec

\* A charge that recurs under one name is reported once, with all its
\* occurrences (analytics/recurring.py).
THEOREM RecurringAlwaysFound == Spec => []RecurringIsFound
<1>1. ViewsInv => RecurringIsFound
  BY RecurringHolds DEF ViewsInv
<1> QED BY <1>1, ViewsInitially, ViewsStep, PTL DEF Spec

\* What is listed, searched and recent is the newest part of what the totals
\* are about (analytics/transactions.py).
THEOREM ListsAlwaysAgree == Spec => []ListsAgree
<1>1. ViewsInv => ListsAgree
  BY ListsHold DEF ViewsInv
<1> QED BY <1>1, ViewsInitially, ViewsStep, PTL DEF Spec
=============================================================================
