-------------------------- MODULE InvoiceMapLemmas --------------------------
(***************************************************************************)
(* Facts about the operators of InvoiceMap, for all amounts, rates, lines  *)
(* and dates: what rounding does to a number and to the sums of numbers,   *)
(* what a line, a row and a total come to, and what a storno makes of      *)
(* them.  Sums are over any finite set; what is proved of them is proved   *)
(* by induction over finite sets, in the form that a set of sets which     *)
(* contains a set whenever it contains all of its proper subsets contains  *)
(* it.                                                                     *)
(***************************************************************************)
EXTENDS InvoiceMap, Functions, FiniteSetTheorems, SequenceTheorems, TLAPS
-----------------------------------------------------------------------------
(* The sum of some of a function's values.                                 *)

LEMMA FiniteInduction ==
  ASSUME NEW S, IsFiniteSet(S), NEW Good,
         \A T \in SUBSET S : (\A U \in SUBSET T : U # T => U \in Good) => T \in Good
  PROVE  \A T \in SUBSET S : T \in Good
<1> DEFINE Bad == {T \in SUBSET S : T \notin Good}
<1>1. Bad \subseteq FiniteSubsetsOf(S)
  BY FS_FiniteSubsetsOfFinite
<1>2. ASSUME Bad # {} PROVE FALSE
  <2> HIDE DEF Bad
  <2>1. PICK T \in Bad : \A U \in Bad : ~(<<U, T>> \in StrictSubsetOrdering(S))
    BY <1>1, <1>2, WFMin, FS_StrictSubsetOrderingWellFounded
  <2>2. T \in SUBSET S /\ T \notin Good
    BY <2>1 DEF Bad
  <2>3. ASSUME NEW U \in SUBSET T, U # T PROVE U \in Good
    <3>1. U \in SUBSET S /\ <<U, T>> \in StrictSubsetOrdering(S)
      BY <2>2, <2>3 DEF StrictSubsetOrdering
    <3> QED
      BY <2>1, <3>1 DEF Bad
  <2> QED
    BY <2>2, <2>3
<1> QED
  BY <1>2

Chosen(s) == CHOOSE x \in s : TRUE

\* g is what the recursive function of a sum is meant to be.
SumsUp(g, f, S) ==
  g = [s \in SUBSET S |-> IF s = {} THEN 0 ELSE f[Chosen(s)] + g[s \ {Chosen(s)}]]

LEMMA SumIsRecursive ==
  ASSUME NEW f, NEW S
  PROVE  SumFunctionOnSet(f, S) = (CHOOSE g : SumsUp(g, f, S))[S]
BY Zenon DEF SumFunctionOnSet, FoldFunctionOnSet, MapThenFoldSet, SumsUp, Chosen

LEMMA ChosenIn ==
  ASSUME NEW s, s # {}
  PROVE  Chosen(s) \in s /\ s \ {Chosen(s)} \in SUBSET s /\ s \ {Chosen(s)} # s
BY DEF Chosen

LEMMA SumsUpStep ==
  ASSUME NEW f, NEW S, NEW g, SumsUp(g, f, S), NEW s \in SUBSET S
  PROVE  g[s] = IF s = {} THEN 0 ELSE f[Chosen(s)] + g[s \ {Chosen(s)}]
BY DEF SumsUp

LEMMA SumsUpOnce ==
  ASSUME NEW f, NEW S, IsFiniteSet(S), NEW T \in SUBSET S, NEW g, NEW h,
         SumsUp(g, f, S), SumsUp(h, f, T)
  PROVE  \A s \in SUBSET T : g[s] = h[s]
<1> DEFINE Good == {s \in SUBSET T : g[s] = h[s]}
<1>1. IsFiniteSet(T)
  BY FS_Subset
<1>2. ASSUME NEW s \in SUBSET T, \A u \in SUBSET s : u # s => u \in Good PROVE s \in Good
  <2>1. s \in SUBSET S
    OBVIOUS
  <2>2. /\ g[s] = IF s = {} THEN 0 ELSE f[Chosen(s)] + g[s \ {Chosen(s)}]
        /\ h[s] = IF s = {} THEN 0 ELSE f[Chosen(s)] + h[s \ {Chosen(s)}]
    BY <2>1, SumsUpStep
  <2>3. CASE s # {}
    BY <1>2, <2>2, <2>3, ChosenIn
  <2> QED
    BY <2>2, <2>3
<1> HIDE DEF Good
<1>3. \A s \in SUBSET T : s \in Good
  BY <1>1, <1>2, FiniteInduction
<1> QED
  BY <1>3 DEF Good

LEMMA SumsUpExists ==
  ASSUME NEW f, NEW S, IsFiniteSet(S)
  PROVE  \E g : SumsUp(g, f, S)
<1> DEFINE Sum(s) == SumFunctionOnSet(f, s)
           Good == {T \in SUBSET S : \E g : SumsUp(g, f, T)}
<1>1. ASSUME NEW T \in SUBSET S, \A U \in SUBSET T : U # T => U \in Good PROVE T \in Good
  <2> DEFINE h == [s \in SUBSET T |->
                     IF s = {} THEN 0 ELSE f[Chosen(s)] + Sum(s \ {Chosen(s)})]
  <2>1. ASSUME NEW W \in SUBSET T, W # T PROVE h[W] = Sum(W)
    <3>1. PICK g : g = (CHOOSE k : SumsUp(k, f, W)) /\ SumsUp(g, f, W)
      BY <1>1, <2>1
    <3>2. Sum(W) = g[W]
      BY <3>1, SumIsRecursive
    <3>3. CASE W = {}
      BY <3>1, <3>2, <3>3, SumsUpStep
    <3>4. CASE W # {}
      <4> DEFINE V == W \ {Chosen(W)}
      <4>1. V \in SUBSET W /\ V # W /\ V \in SUBSET T /\ V # T
        BY <3>4, ChosenIn
      <4>2. PICK k : k = (CHOOSE l : SumsUp(l, f, V)) /\ SumsUp(k, f, V)
        BY <1>1, <4>1
      <4>3. Sum(V) = k[V]
        BY <4>2, SumIsRecursive
      <4>4. IsFiniteSet(W)
        BY FS_Subset
      <4>5. k[V] = g[V]
        BY <3>1, <4>1, <4>2, <4>4, SumsUpOnce
      <4>6. g[W] = f[Chosen(W)] + g[V]
        BY <3>1, <3>4, SumsUpStep
      <4>7. h[W] = f[Chosen(W)] + Sum(V)
        BY <3>4
      <4> QED
        BY <3>2, <4>3, <4>5, <4>6, <4>7
    <3> QED
      BY <3>3, <3>4
  <2>2. ASSUME NEW s \in SUBSET T, s # {} PROVE h[s \ {Chosen(s)}] = Sum(s \ {Chosen(s)})
    BY <2>1, <2>2, ChosenIn
  <2>3. h = [s \in SUBSET T |->
                     IF s = {} THEN 0 ELSE f[Chosen(s)] + h[s \ {Chosen(s)}]]
    BY <2>2
  <2> HIDE DEF h
  <2> QED
    BY <2>3 DEF SumsUp
<1> HIDE DEF Good
<1>2. \A T \in SUBSET S : T \in Good
  BY <1>1, FiniteInduction
<1> QED
  BY <1>2 DEF Good

LEMMA SumEmpty ==
  ASSUME NEW f
  PROVE  SumFunctionOnSet(f, {}) = 0
<1>1. PICK g : g = (CHOOSE k : SumsUp(k, f, {})) /\ SumsUp(g, f, {})
  BY FS_EmptySet, SumsUpExists
<1> QED
  BY <1>1, SumIsRecursive, SumsUpStep

LEMMA SumUnfolds ==
  ASSUME NEW f, NEW S, IsFiniteSet(S), S # {}
  PROVE  SumFunctionOnSet(f, S) = f[Chosen(S)] + SumFunctionOnSet(f, S \ {Chosen(S)})
<1> DEFINE T == S \ {Chosen(S)}
<1>1. PICK g : g = (CHOOSE k : SumsUp(k, f, S)) /\ SumsUp(g, f, S)
  BY SumsUpExists
<1>2. T \in SUBSET S /\ IsFiniteSet(T)
  BY FS_Subset
<1>3. PICK h : h = (CHOOSE k : SumsUp(k, f, T)) /\ SumsUp(h, f, T)
  BY <1>2, SumsUpExists
<1>4. g[T] = h[T]
  BY <1>1, <1>2, <1>3, SumsUpOnce
<1> HIDE DEF T
<1>5. g[S] = f[Chosen(S)] + g[T]
  BY <1>1, SumsUpStep DEF T
<1> QED
  BY <1>1, <1>3, <1>4, <1>5, SumIsRecursive DEF T

\* Any element may be taken out first.
LEMMA SumTakeOut ==
  ASSUME NEW S, IsFiniteSet(S), NEW f, \A x \in S : f[x] \in Int
  PROVE  /\ SumFunctionOnSet(f, S) \in Int
         /\ \A x \in S : SumFunctionOnSet(f, S) = f[x] + SumFunctionOnSet(f, S \ {x})
<1> DEFINE Sum(s) == SumFunctionOnSet(f, s)
           Good == {T \in SUBSET S : Sum(T) \in Int /\ \A x \in T : Sum(T) = f[x] + Sum(T \ {x})}
<1>1. ASSUME NEW T \in SUBSET S, \A U \in SUBSET T : U # T => U \in Good PROVE T \in Good
  <2>1. CASE T = {}
    BY <2>1, SumEmpty
  <2>2. CASE T # {}
    <3> DEFINE c == Chosen(T)
    <3>1. c \in T /\ IsFiniteSet(T)
      BY <2>2, ChosenIn, FS_Subset
    <3>2. Sum(T) = f[c] + Sum(T \ {c})
      BY <2>2, <3>1, SumUnfolds
    <3> HIDE DEF c
    <3>3. ASSUME NEW x \in T PROVE Sum(T \ {x}) \in Int
      BY <1>1
    <3>4. ASSUME NEW x \in T, x # c PROVE Sum(T) = f[x] + Sum(T \ {x})
      <4>1. T \ {c} \in Good /\ T \ {x} \in Good
        BY <1>1, <3>1
      <4>2. /\ Sum(T \ {c}) = f[x] + Sum((T \ {c}) \ {x})
            /\ Sum(T \ {x}) = f[c] + Sum((T \ {x}) \ {c})
        BY <3>1, <3>4, <4>1
      <4>3. (T \ {c}) \ {x} = (T \ {x}) \ {c}
        OBVIOUS
      <4> DEFINE r == Sum((T \ {x}) \ {c})
      <4>4. r \in Int
        <5>1. (T \ {x}) \ {c} \in SUBSET T /\ (T \ {x}) \ {c} # T
          BY <3>1
        <5> QED
          BY <1>1, <5>1
      <4>5. f[x] \in Int /\ f[c] \in Int
        BY <3>1
      <4>6. Sum(T) = f[c] + (f[x] + r) /\ Sum(T \ {x}) = f[c] + r
        BY <3>2, <4>2, <4>3
      <4> HIDE DEF r, Sum
      <4> QED
        BY <4>4, <4>5, <4>6
    <3>5. f[c] \in Int
      BY <3>1
    <3>6. Sum(T) \in Int
      BY <3>1, <3>2, <3>3, <3>5
    <3>7. \A x \in T : Sum(T) = f[x] + Sum(T \ {x})
      BY <3>2, <3>4
    <3> QED
      BY <3>6, <3>7
  <2> QED
    BY <2>1, <2>2
<1> HIDE DEF Good
<1>2. \A T \in SUBSET S : T \in Good
  BY <1>1, FiniteInduction
<1>3. S \in SUBSET S
  OBVIOUS
<1>4. S \in Good
  BY <1>2, <1>3
<1> QED
  BY <1>4 DEF Good
-----------------------------------------------------------------------------
(* Sums of related functions.                                              *)

\* What holds of the empty set, and of a set whenever it holds of the set
\* without the element chosen, holds.
LEMMA ChosenInduction ==
  ASSUME NEW S, IsFiniteSet(S), NEW Good, {} \in Good,
         \A T \in SUBSET S : T # {} /\ T \ {Chosen(T)} \in Good => T \in Good
  PROVE  S \in Good
<1>1. ASSUME NEW T \in SUBSET S, \A U \in SUBSET T : U # T => U \in Good PROVE T \in Good
  BY <1>1, ChosenIn
<1>2. \A T \in SUBSET S : T \in Good
  BY <1>1, FiniteInduction
<1>3. S \in SUBSET S
  OBVIOUS
<1> QED
  BY <1>2, <1>3

\* The sum over T is that over the rest and the element chosen.
Unfolds(f, T) ==
  /\ Chosen(T) \in T /\ f[Chosen(T)] \in Int
  /\ SumFunctionOnSet(f, T \ {Chosen(T)}) \in Int
  /\ SumFunctionOnSet(f, T) = f[Chosen(T)] + SumFunctionOnSet(f, T \ {Chosen(T)})

LEMMA SumOfChosen ==
  ASSUME NEW S, IsFiniteSet(S), NEW f, \A x \in S : f[x] \in Int,
         NEW T \in SUBSET S, T # {}
  PROVE  Unfolds(f, T)
<1>1. IsFiniteSet(T) /\ IsFiniteSet(T \ {Chosen(T)})
  BY FS_Subset
<1>2. Chosen(T) \in T
  BY ChosenIn
<1>3. f[Chosen(T)] \in Int /\ \A x \in T \ {Chosen(T)} : f[x] \in Int
  BY <1>2
<1>4. SumFunctionOnSet(f, T \ {Chosen(T)}) \in Int
  BY <1>1, <1>3, SumTakeOut
<1>5. SumFunctionOnSet(f, T) = f[Chosen(T)] + SumFunctionOnSet(f, T \ {Chosen(T)})
  BY <1>1, SumUnfolds
<1> QED
  BY <1>2, <1>3, <1>4, <1>5 DEF Unfolds

LEMMA SumSame ==
  ASSUME NEW S, IsFiniteSet(S), NEW f, NEW g, \A x \in S : f[x] = g[x]
  PROVE  SumFunctionOnSet(f, S) = SumFunctionOnSet(g, S)
<1> DEFINE Good == {T \in SUBSET S : SumFunctionOnSet(f, T) = SumFunctionOnSet(g, T)}
<1>1. {} \in Good
  BY SumEmpty
<1>2. ASSUME NEW T \in SUBSET S, T # {}, T \ {Chosen(T)} \in Good PROVE T \in Good
  <2>1. IsFiniteSet(T) /\ Chosen(T) \in T
    BY <1>2, FS_Subset, ChosenIn
  <2> QED
    BY <1>2, <2>1, SumUnfolds
<1> HIDE DEF Good
<1>3. S \in Good
  BY <1>1, <1>2, ChosenInduction
<1> QED
  BY <1>3 DEF Good

LEMMA SumNegated ==
  ASSUME NEW S, IsFiniteSet(S), NEW f, NEW g, \A x \in S : f[x] \in Int /\ g[x] = -f[x]
  PROVE  SumFunctionOnSet(g, S) = -SumFunctionOnSet(f, S)
<1> DEFINE Good == {T \in SUBSET S : SumFunctionOnSet(g, T) = -SumFunctionOnSet(f, T)}
<1>1. {} \in Good
  BY SumEmpty
<1>2. ASSUME NEW T \in SUBSET S, T # {}, T \ {Chosen(T)} \in Good PROVE T \in Good
  <2> DEFINE c == Chosen(T)
  <2>1. /\ c \in T /\ f[c] \in Int /\ SumFunctionOnSet(f, T \ {c}) \in Int
        /\ SumFunctionOnSet(f, T) = f[c] + SumFunctionOnSet(f, T \ {c})
    BY <1>2, SumOfChosen DEF Unfolds
  <2>2. SumFunctionOnSet(g, T) = g[c] + SumFunctionOnSet(g, T \ {c})
    BY <1>2, SumOfChosen DEF Unfolds
  <2>3. SumFunctionOnSet(g, T \ {c}) = -SumFunctionOnSet(f, T \ {c}) /\ g[c] = -f[c]
    BY <1>2, <2>1
  <2> HIDE DEF c
  <2>4. SumFunctionOnSet(g, T) = -SumFunctionOnSet(f, T)
    BY <2>1, <2>2, <2>3
  <2> QED
    BY <2>4
<1> HIDE DEF Good
<1>3. S \in Good
  BY <1>1, <1>2, ChosenInduction
<1> QED
  BY <1>3 DEF Good

LEMMA SumAdds ==
  ASSUME NEW S, IsFiniteSet(S), NEW f, NEW g, NEW h,
         \A x \in S : f[x] \in Int /\ g[x] \in Int /\ h[x] = f[x] + g[x]
  PROVE  SumFunctionOnSet(h, S) = SumFunctionOnSet(f, S) + SumFunctionOnSet(g, S)
<1> DEFINE Good == {T \in SUBSET S :
                     SumFunctionOnSet(h, T) = SumFunctionOnSet(f, T) + SumFunctionOnSet(g, T)}
<1>a. /\ \A x \in S : f[x] \in Int
      /\ \A x \in S : g[x] \in Int
      /\ \A x \in S : h[x] \in Int
  OBVIOUS
<1>1. {} \in Good
  BY SumEmpty
<1>2. ASSUME NEW T \in SUBSET S, T # {}, T \ {Chosen(T)} \in Good PROVE T \in Good
  <2> DEFINE c == Chosen(T)
  <2>a. Unfolds(f, T) /\ Unfolds(g, T) /\ Unfolds(h, T)
    BY <1>2, <1>a, SumOfChosen
  <2>1. /\ c \in T /\ f[c] \in Int /\ SumFunctionOnSet(f, T \ {c}) \in Int
        /\ SumFunctionOnSet(f, T) = f[c] + SumFunctionOnSet(f, T \ {c})
    BY <2>a DEF Unfolds
  <2>2. /\ g[c] \in Int /\ SumFunctionOnSet(g, T \ {c}) \in Int
        /\ SumFunctionOnSet(g, T) = g[c] + SumFunctionOnSet(g, T \ {c})
    BY <2>a DEF Unfolds
  <2>3. SumFunctionOnSet(h, T) = h[c] + SumFunctionOnSet(h, T \ {c})
    BY <2>a DEF Unfolds
  <2>4. /\ SumFunctionOnSet(h, T \ {c}) = SumFunctionOnSet(f, T \ {c}) + SumFunctionOnSet(g, T \ {c})
        /\ h[c] = f[c] + g[c]
    BY <1>2, <2>1
  <2> HIDE DEF c
  <2>5. SumFunctionOnSet(h, T) = SumFunctionOnSet(f, T) + SumFunctionOnSet(g, T)
    BY <2>1, <2>2, <2>3, <2>4
  <2> QED
    BY <2>5
<1> HIDE DEF Good
<1>3. S \in Good
  BY <1>1, <1>2, ChosenInduction
<1> QED
  BY <1>3 DEF Good

\* Values that each come within half a unit of a multiple of a whole add up to
\* within half a unit for each of them.
LEMMA SumOfRoundings ==
  ASSUME NEW S, IsFiniteSet(S), NEW f, NEW g, NEW a \in Int, NEW d \in Nat,
         \A x \in S : /\ f[x] \in Int /\ g[x] \in Int
                      /\ -d <= 2 * (d * g[x] - a * f[x]) /\ 2 * (d * g[x] - a * f[x]) <= d
  PROVE  LET e == 2 * (d * SumFunctionOnSet(g, S) - a * SumFunctionOnSet(f, S))
         IN  -(d * Cardinality(S)) <= e /\ e <= d * Cardinality(S)
<1> DEFINE F(T) == SumFunctionOnSet(f, T)
           G(T) == SumFunctionOnSet(g, T)
           E(T) == 2 * (d * G(T) - a * F(T))
           Good == {T \in SUBSET S : -(d * Cardinality(T)) <= E(T) /\ E(T) <= d * Cardinality(T)}
<1>a. /\ \A x \in S : f[x] \in Int
      /\ \A x \in S : g[x] \in Int
  OBVIOUS
<1>1. {} \in Good
  BY SumEmpty, FS_EmptySet
<1>2. ASSUME NEW T \in SUBSET S, T # {}, T \ {Chosen(T)} \in Good PROVE T \in Good
  <2> DEFINE c == Chosen(T)
             n == Cardinality(T \ {c})
  <2>a. Unfolds(f, T) /\ Unfolds(g, T)
    BY <1>2, <1>a, SumOfChosen
  <2>1. /\ c \in T /\ f[c] \in Int /\ F(T \ {c}) \in Int /\ F(T) = f[c] + F(T \ {c})
    BY <2>a DEF Unfolds
  <2>2. /\ g[c] \in Int /\ G(T \ {c}) \in Int /\ G(T) = g[c] + G(T \ {c})
    BY <2>a DEF Unfolds
  <2>3. IsFiniteSet(T) /\ IsFiniteSet(T \ {c})
    BY FS_Subset
  <2>4. n \in Nat /\ Cardinality(T) = n + 1
    BY <2>1, <2>3, FS_RemoveElement, FS_CardinalityType
  <2>5. /\ -d <= 2 * (d * g[c] - a * f[c]) /\ 2 * (d * g[c] - a * f[c]) <= d
    BY <2>1
  <2>6. -(d * n) <= E(T \ {c}) /\ E(T \ {c}) <= d * n
    BY <1>2
  <2>7. \A u, v, x, y \in Int : 2 * (d * (u + v) - a * (x + y)) = 2 * (d * u - a * x) + 2 * (d * v - a * y)
    OBVIOUS
  <2>8. E(T) = 2 * (d * g[c] - a * f[c]) + E(T \ {c})
    BY <2>1, <2>2, <2>7
  <2>9. E(T \ {c}) \in Int /\ 2 * (d * g[c] - a * f[c]) \in Int /\ d * n \in Int
    BY <2>1, <2>2, <2>4
  <2>10. d * (n + 1) = d * n + d
    BY <2>4
  <2> HIDE DEF c, n, E
  <2>11. -(d * Cardinality(T)) <= E(T) /\ E(T) <= d * Cardinality(T)
    BY <2>4, <2>5, <2>6, <2>8, <2>9, <2>10
  <2> QED
    BY <2>11
<1> HIDE DEF Good
<1>3. S \in Good
  BY <1>1, <1>2, ChosenInduction
<1> QED
  BY <1>3 DEF Good

LEMMA SumOfZeros ==
  ASSUME NEW S, IsFiniteSet(S), NEW f, \A x \in S : f[x] = 0
  PROVE  SumFunctionOnSet(f, S) = 0
<1> DEFINE Good == {T \in SUBSET S : SumFunctionOnSet(f, T) = 0}
<1>1. {} \in Good
  BY SumEmpty
<1>2. ASSUME NEW T \in SUBSET S, T # {}, T \ {Chosen(T)} \in Good PROVE T \in Good
  <2>1. SumFunctionOnSet(f, T) = f[Chosen(T)] + SumFunctionOnSet(f, T \ {Chosen(T)}) /\ Chosen(T) \in T
    BY <1>2, SumOfChosen DEF Unfolds
  <2> QED
    BY <1>2, <2>1
<1> HIDE DEF Good
<1>3. S \in Good
  BY <1>1, <1>2, ChosenInduction
<1> QED
  BY <1>3 DEF Good

\* Parts of a sum, one for each value of a key, add up to the sum.
LEMMA SumOfParts ==
  ASSUME NEW S, IsFiniteSet(S), NEW f, \A x \in S : f[x] \in Int,
         NEW R, IsFiniteSet(R), NEW key \in [S -> R]
  PROVE  SumFunctionOnSet([r \in R |-> SumFunctionOnSet(f, {x \in S : key[x] = r})], R)
           = SumFunctionOnSet(f, S)
<1> DEFINE Part(T, r) == {x \in T : key[x] = r}
           Parts(T) == [r \in R |-> SumFunctionOnSet(f, Part(T, r))]
           Good == {T \in SUBSET S : SumFunctionOnSet(Parts(T), R) = SumFunctionOnSet(f, T)}
<1>1. {} \in Good
  <2>1. \A r \in R : Part({}, r) = {}
    OBVIOUS
  <2>2. \A r \in R : Parts({})[r] = 0
    BY <2>1, SumEmpty
  <2> HIDE DEF Parts
  <2>3. SumFunctionOnSet(Parts({}), R) = 0
    BY <2>2, SumOfZeros
  <2> QED
    BY <2>3, SumEmpty
<1>2. ASSUME NEW T \in SUBSET S PROVE \A r \in R : Parts(T)[r] \in Int
  <2>1. ASSUME NEW r \in R PROVE SumFunctionOnSet(f, Part(T, r)) \in Int
    <3>1. Part(T, r) \in SUBSET S
      OBVIOUS
    <3>2. IsFiniteSet(Part(T, r)) /\ \A x \in Part(T, r) : f[x] \in Int
      BY <3>1, FS_Subset
    <3> HIDE DEF Part
    <3> QED
      BY <3>2, SumTakeOut
  <2> QED
    BY <2>1
<1>3. ASSUME NEW T \in SUBSET S, T # {}, T \ {Chosen(T)} \in Good PROVE T \in Good
  <2> DEFINE c == Chosen(T)
             U == T \ {c}
             k == key[c]
  <2>a. Unfolds(f, T)
    BY <1>3, SumOfChosen
  <2>1. /\ c \in T /\ f[c] \in Int /\ SumFunctionOnSet(f, U) \in Int
        /\ SumFunctionOnSet(f, T) = f[c] + SumFunctionOnSet(f, U)
    BY <2>a DEF Unfolds
  <2> HIDE DEF c
  <2>2. k \in R /\ U \in SUBSET S
    BY <2>1
  <2>3. \A r \in R \ {k} : Part(T, r) = Part(U, r)
    OBVIOUS
  <2>4. Parts(T)[k] = f[c] + Parts(U)[k]
    <3> DEFINE P == Part(T, k)
    <3>1. P \ {c} = Part(U, k) /\ c \in P /\ P \in SUBSET S
      BY <2>1
    <3>2. IsFiniteSet(P) /\ \A x \in P : f[x] \in Int
      BY <3>1, FS_Subset
    <3> HIDE DEF P
    <3>3. SumFunctionOnSet(f, P) = f[c] + SumFunctionOnSet(f, P \ {c})
      BY <3>1, <3>2, SumTakeOut
    <3> QED
      BY <2>2, <3>1, <3>3 DEF P
  <2>5. \A r \in R \ {k} : Parts(T)[r] = Parts(U)[r]
    BY <2>3
  <2>6. IsFiniteSet(R \ {k})
    BY FS_Subset
  <2>7. (\A r \in R : Parts(T)[r] \in Int) /\ (\A r \in R : Parts(U)[r] \in Int)
    BY <1>2, <2>2
  <2>8. SumFunctionOnSet(Parts(U), R) = SumFunctionOnSet(f, U)
    BY <1>3 DEF c
  <2> HIDE DEF Part, Parts, k, U
  <2>9. SumFunctionOnSet(Parts(T), R \ {k}) = SumFunctionOnSet(Parts(U), R \ {k})
    BY <2>5, <2>6, SumSame
  <2>10. /\ SumFunctionOnSet(Parts(T), R) = Parts(T)[k] + SumFunctionOnSet(Parts(T), R \ {k})
         /\ SumFunctionOnSet(Parts(U), R) = Parts(U)[k] + SumFunctionOnSet(Parts(U), R \ {k})
         /\ SumFunctionOnSet(Parts(U), R \ {k}) \in Int
    <3>1. \A r \in R \ {k} : Parts(U)[r] \in Int
      BY <2>7
    <3> QED
      BY <2>2, <2>6, <2>7, <3>1, SumTakeOut
  <2>11. Parts(U)[k] \in Int
    BY <2>2, <2>7
  <2>12. SumFunctionOnSet(Parts(T), R) = SumFunctionOnSet(f, T)
    BY <2>1, <2>4, <2>8, <2>9, <2>10, <2>11
  <2> QED
    BY <2>12
<1>4. \A T \in SUBSET S : T # {} /\ T \ {Chosen(T)} \in Good => T \in Good
  BY <1>3
<1>5. S \in Good
  <2> HIDE DEF Good
  <2> QED
    BY <1>1, <1>4, ChosenInduction
<1> QED
  BY <1>5

LEMMA SumOverDomain ==
  ASSUME NEW f
  PROVE  SumFunction(f) = SumFunctionOnSet(f, DOMAIN f)
BY Zenon DEF SumFunction, SumFunctionOnSet, FoldFunction
-----------------------------------------------------------------------------
(* Rounding.                                                               *)

LEMMA RoundedIsOdd ==
  ASSUME NEW n \in Int, NEW d \in Nat \ {0}
  PROVE  /\ Rounded(n, d) \in Int
         /\ Rounded(-n, d) = -Rounded(n, d)
         /\ n >= 0 => Rounded(n, d) >= 0
<1>1. ASSUME NEW m \in Nat
      PROVE  /\ Rounded(m, d) \in Int /\ Rounded(m, d) >= 0
             /\ Rounded(-m, d) = -Rounded(m, d)
  <2> DEFINE q == m \div d
              r == m - q * d
  <2>1. q \in Nat /\ r \in Int /\ q * d \in Int
    OBVIOUS
  <2>2. r >= 0
    OBVIOUS
  <2>3. Quo(m, d) = q /\ Quo(-m, d) = -q
    BY DEF Quo
  <2>4. m - Quo(m, d) * d = r /\ (-m) - Quo(-m, d) * d = -r
    BY <2>1, <2>3
  <2> HIDE DEF q, r
  <2>5. Rounded(m, d) = IF 2 * r < d THEN q ELSE q + 1
    BY <2>1, <2>2, <2>3, <2>4 DEF Rounded, Abs
  <2>6. Rounded(-m, d) = IF 2 * r < d THEN -q ELSE -q - 1
    BY <2>1, <2>2, <2>3, <2>4 DEF Rounded, Abs
  <2> QED
    BY <2>1, <2>5, <2>6
<1>2. CASE n >= 0
  BY <1>1, <1>2
<1>3. CASE n < 0
  <2>1. -n \in Nat /\ -(-n) = n
    BY <1>3
  <2> QED
    BY <1>1, <1>3, <2>1
<1> QED
  BY <1>2, <1>3

LEMMA RoundedExactly ==
  ASSUME NEW n \in Nat, NEW d \in Nat \ {0}
  PROVE  Rounded(n * d, d) = n
<1>1. n * d \in Nat /\ (n * d) \div d = n
  OBVIOUS
<1>2. Quo(n * d, d) = n
  BY <1>1 DEF Quo
<1> QED
  BY <1>1, <1>2 DEF Rounded, Abs

LEMMA RoundedHalfUp ==
  ASSUME NEW n \in Nat, NEW d \in Nat \ {0}
  PROVE  /\ Rounded(n, d) \in Int
         /\ -d < 2 * (d * Rounded(n, d) - n) /\ 2 * (d * Rounded(n, d) - n) <= d
<1> DEFINE q == n \div d
           r == n - q * d
<1>1. q \in Nat /\ q * d \in Nat /\ r \in Nat /\ r < d
  OBVIOUS
<1>2. Quo(n, d) = q /\ n - Quo(n, d) * d = r
  BY DEF Quo
<1>3. n = q * d + r
  BY <1>1
<1> HIDE DEF q, r
<1>4. Rounded(n, d) = IF 2 * r < d THEN q ELSE q + 1
  BY <1>1, <1>2 DEF Rounded, Abs
<1>5. d * q = q * d /\ d * (q + 1) = q * d + d
  BY <1>1
<1> QED
  BY <1>1, <1>3, <1>4, <1>5

LEMMA RoundedWithin ==
  ASSUME NEW n \in Int, NEW d \in Nat \ {0}
  PROVE  /\ Rounded(n, d) \in Int
         /\ -d <= 2 * (d * Rounded(n, d) - n) /\ 2 * (d * Rounded(n, d) - n) <= d
<1>1. CASE n >= 0
  BY <1>1, RoundedHalfUp
<1>2. CASE n < 0
  <2> DEFINE m == -n
             R == Rounded(m, d)
  <2>1. m \in Nat /\ -m = n
    BY <1>2
  <2> HIDE DEF m
  <2>2. R \in Int /\ -d < 2 * (d * R - m) /\ 2 * (d * R - m) <= d
    BY <2>1, RoundedHalfUp
  <2>3. Rounded(n, d) = -R
    BY <2>1, RoundedIsOdd
  <2> HIDE DEF R
  <2>4. d * (-R) = -(d * R) /\ d * R \in Int
    BY <2>2
  <2> QED
    BY <2>1, <2>2, <2>3, <2>4
<1> QED
  BY <1>1, <1>2

\* What is nearer than half a unit is what is rounded to.
LEMMA RoundedNear ==
  ASSUME NEW n \in Int, NEW d \in Nat \ {0}, NEW p \in Int,
         -d < 2 * (d * p - n), 2 * (d * p - n) < d
  PROVE  Rounded(n, d) = p
<1> DEFINE R == Rounded(n, d)
<1>1. R \in Int /\ -d <= 2 * (d * R - n) /\ 2 * (d * R - n) <= d
  BY RoundedWithin
<1> HIDE DEF R
<1>2. d * R \in Int /\ d * p \in Int /\ d * (R - p) = d * R - d * p
  BY <1>1
<1>3. -d < d * (R - p) /\ d * (R - p) < d
  BY <1>1, <1>2
<1>4. R - p >= 1 => d * (R - p) >= d
  BY <1>1
<1>5. R - p <= -1 => d * (R - p) <= -d
  BY <1>1
<1>6. R - p = 0
  BY <1>1, <1>2, <1>3, <1>4, <1>5
<1> QED
  BY <1>1, <1>6 DEF R

LEMMA RoundedByOne ==
  ASSUME NEW n \in Int
  PROVE  Rounded(n, 1) = n
<1>1. -1 < 2 * (1 * n - n) /\ 2 * (1 * n - n) < 1 /\ 1 \in Nat \ {0}
  OBVIOUS
<1> QED
  BY <1>1, RoundedNear

\* Rounding sees the value of a fraction, not how it is written.
LEMMA RoundedSame ==
  ASSUME NEW n \in Int, NEW d \in Nat \ {0}, NEW m \in Int, NEW e \in Nat \ {0},
         n * e = m * d
  PROVE  Rounded(n, d) = Rounded(m, e)
<1>1. ASSUME NEW a \in Nat, NEW b \in Nat, a * e = b * d
      PROVE  Rounded(a, d) = Rounded(b, e)
  <2> DEFINE R == Rounded(a, d)
             T == Rounded(b, e)
             x == 2 * (d * R - a)
             y == 2 * (e * T - b)
             de == d * e
  <2>1. /\ R \in Int /\ -d < x /\ x <= d /\ T \in Int /\ -e < y /\ y <= e
    BY RoundedHalfUp
  <2>2. x \in Int /\ y \in Int /\ de \in Nat \ {0}
    BY <2>1
  <2> HIDE DEF R, T
  <2>3. e * x - d * y = 2 * (de * (R - T))
    <3>1. e * x = 2 * (de * R - a * e)
      BY <2>1
    <3>2. d * y = 2 * (de * T - b * d)
      BY <2>1
    <3>3. de * (R - T) = de * R - de * T /\ de * R \in Int /\ de * T \in Int
      BY <2>1, <2>2
    <3> DEFINE ex == e * x
               dy == d * y
               dR == de * R
               dT == de * T
               u == a * e
    <3>4. u \in Int /\ ex = 2 * (dR - u) /\ dy = 2 * (dT - u)
      BY <1>1, <3>1, <3>2
    <3> HIDE DEF ex, dy, dR, dT, u
    <3>5. dR \in Int /\ dT \in Int
      BY <3>3 DEF dR, dT
    <3>6. ex - dy = 2 * (dR - dT)
      BY <3>4, <3>5
    <3> QED
      BY <3>3, <3>6 DEF ex, dy, dR, dT
  <2> HIDE DEF x, y
  <2>4. -de < e * x /\ e * x <= de /\ -de < d * y /\ d * y <= de
    BY <2>1, <2>2
  <2> HIDE DEF de
  <2>5. e * x \in Int /\ d * y \in Int /\ de * (R - T) \in Int /\ R - T \in Int
    BY <2>1, <2>2
  <2>6. -de < de * (R - T) /\ de * (R - T) < de
    BY <2>2, <2>3, <2>4, <2>5
  <2>7. R - T >= 1 => de * (R - T) >= de
    BY <2>2, <2>5
  <2>8. R - T <= -1 => de * (R - T) <= -de
    BY <2>2, <2>5
  <2>9. R = T
    BY <2>1, <2>2, <2>5, <2>6, <2>7, <2>8
  <2> QED
    BY <2>9 DEF R, T
<1>2. CASE n >= 0
  <2>1. m >= 0
    <3>1. n * e >= 0
      BY <1>2
    <3>2. m < 0 => m * d < 0
      OBVIOUS
    <3> QED
      BY <3>1, <3>2
  <2> QED
    BY <1>1, <1>2, <2>1
<1>3. CASE n < 0
  <2> DEFINE a == -n
             b == -m
  <2>1. m < 0
    <3>1. n * e < 0
      BY <1>3
    <3>2. m >= 0 => m * d >= 0
      OBVIOUS
    <3> QED
      BY <3>1, <3>2
  <2>2. a \in Nat /\ b \in Nat /\ -a = n /\ -b = m
    BY <1>3, <2>1
  <2>3. a * e = -(n * e) /\ b * d = -(m * d)
    OBVIOUS
  <2> HIDE DEF a, b
  <2>4. Rounded(a, d) = Rounded(b, e)
    BY <1>1, <2>2, <2>3
  <2>5. Rounded(-a, d) = -Rounded(a, d) /\ Rounded(-b, e) = -Rounded(b, e)
    BY <2>2, RoundedIsOdd
  <2> QED
    BY <2>2, <2>4, <2>5
<1> QED
  BY <1>2, <1>3
-----------------------------------------------------------------------------
(* Rates and dates.                                                        *)

Rate == [num : Nat, den : Nat \ {0}]

Options == [operation : {"CREATE", "MODIFY", "STORNO"}, original : Numbers \cup {NoNumber}, parent : Nat,
            index : Nat, originalLineCount : Nat, rate : Rate]

LEMMA RenderedRate ==
  ASSUME NEW rate \in Rate
  PROVE  Rendered(rate) \in [num : Nat, den : {RateScale}]
<1>1. RateScale \in Nat \ {0}
  BY InvoiceMapAssumption
<1>2. rate.num * RateScale \in Nat /\ rate.den \in Nat \ {0}
  BY <1>1 DEF Rate
<1>3. Rounded(rate.num * RateScale, rate.den) \in Nat
  BY <1>2, RoundedIsOdd
<1> QED
  BY <1>3 DEF Rendered

\* A rate that was read back from a document is printed as it is.
LEMMA RenderedAgain ==
  ASSUME NEW rate \in [num : Nat, den : {RateScale}]
  PROVE  Rendered(rate) = rate /\ rate \in Rate
<1>1. RateScale \in Nat \ {0}
  BY InvoiceMapAssumption
<1>2. rate.num \in Nat /\ rate.den = RateScale
  OBVIOUS
<1>3. Rounded(rate.num * RateScale, RateScale) = rate.num
  BY <1>1, <1>2, RoundedExactly
<1> QED
  BY <1>1, <1>2, <1>3 DEF Rendered, Rate

LEMMA IssueDates ==
  ASSUME NEW inv \in StripeInvoices, IssueDate(inv) > 0
  PROVE  /\ IssueDate(inv) \in Times /\ LocalDate(IssueDate(inv)) \in Nat
         /\ \A now \in Times : IssueTime(inv, now) = IssueDate(inv)
<1>1. inv.finalized \in Times \cup {0} /\ inv.effective \in Times \cup {0} /\ inv.created \in Times \cup {0}
  BY DEF StripeInvoices
<1>2. /\ IssueDate(inv) \in Times
      /\ \A now \in Times : IssueTime(inv, now) = IssueDate(inv)
  BY <1>1, InvoiceMapAssumption DEF IssueDate, IssueTime
<1>3. \A t \in Nat : LocalDate(t) \in Nat
  BY DEF LocalDate
<1> QED
  BY <1>2, <1>3, InvoiceMapAssumption

LEMMA RateForType ==
  ASSUME NEW currency, NEW at \in Times
  PROVE  RateFor(currency, at) \in Rate
BY InvoiceMapAssumption DEF RateFor, One, Rate

SameRate(r, s) == r.num * s.den = s.num * r.den

\* A rate that is exact is the same after it was rendered and read back.
LEMMA ExactRates ==
  ASSUME ExactQuotes, NEW currency, NEW at \in Times
  PROVE  /\ RateFor(currency, at) \in Rate
         /\ SameRate(RateFor(currency, at), Rendered(RateFor(currency, at)))
<1> DEFINE r == RateFor(currency, at)
<1>1. r \in Rate
  BY RateForType
<1>2. Exact(r)
  <2>1. CASE currency = "HUF"
    <3>1. r = One /\ RateScale \in Nat
      BY <2>1, InvoiceMapAssumption DEF RateFor
    <3>2. Rounded(RateScale, 1) = RateScale
      BY <3>1, RoundedByOne
    <3> QED
      BY <3>1, <3>2 DEF Exact, Rendered, One
  <2>2. CASE currency # "HUF"
    BY <2>2 DEF ExactQuotes, RateFor
  <2> QED
    BY <2>1, <2>2
<1> HIDE DEF r
<1>3. /\ Rendered(r).num * r.den = r.num * RateScale
      /\ Rendered(r).den = RateScale
  BY <1>2 DEF Exact, Rendered
<1> QED
  BY <1>1, <1>3 DEF SameRate, r
-----------------------------------------------------------------------------
(* Reversal.                                                               *)

\* Whatever a line, a row or a total comes to, and whatever the rate, its
\* negation is reported as the opposite, in both currencies and with the gross
\* amounts: what StornoCancels says of a storno's parts (roundToInt, reconciled,
\* invoiceAsStorno).
THEOREM ReversalIsExact ==
  ASSUME NEW net \in Int, NEW vat \in Int, NEW currency,
         NEW rate \in [num : Nat, den : Nat \ {0}]
  PROVE  Opposite(Amounts(-net, -vat, currency, rate), Amounts(net, vat, currency, rate), {"fc", "huf"})
<1> DEFINE d == MinorScale(currency) * rate.den
<1>1. d \in Nat \ {0}
  BY DEF MinorScale
<1>2. ASSUME NEW n \in Int, NEW v \in Int, NEW e \in Nat \ {0}
      PROVE  \A f \in {"net", "vat", "gross"} :
               Reconciled(-n, -v, e)[f] = -Reconciled(n, v, e)[f]
  BY <1>2, RoundedIsOdd DEF Reconciled
<1>3. /\ net * rate.num \in Int /\ (-net) * rate.num = -(net * rate.num)
      /\ vat * rate.num \in Int /\ (-vat) * rate.num = -(vat * rate.num)
  OBVIOUS
<1>4. Amounts(net, vat, currency, rate) =
        [fc |-> Reconciled(net, vat, 1), huf |-> Reconciled(net * rate.num, vat * rate.num, d)]
  BY DEF Amounts
<1>5. Amounts(-net, -vat, currency, rate) =
        [fc  |-> Reconciled(-net, -vat, 1),
         huf |-> Reconciled(-(net * rate.num), -(vat * rate.num), d)]
  BY <1>3 DEF Amounts
<1> HIDE DEF d
<1>6. \A f \in {"net", "vat", "gross"} :
        Reconciled(-net, -vat, 1)[f] = -Reconciled(net, vat, 1)[f]
  BY <1>2
<1>7. \A f \in {"net", "vat", "gross"} :
        Reconciled(-(net * rate.num), -(vat * rate.num), d)[f]
          = -Reconciled(net * rate.num, vat * rate.num, d)[f]
  BY <1>1, <1>2, <1>3
<1> QED
  BY <1>4, <1>5, <1>6, <1>7 DEF Opposite

LEMMA SameRateSameAmounts ==
  ASSUME NEW net \in Int, NEW vat \in Int, NEW currency, NEW r \in Rate, NEW s \in Rate, SameRate(r, s)
  PROVE  Amounts(net, vat, currency, r) = Amounts(net, vat, currency, s)
<1> DEFINE m == MinorScale(currency)
           dr == m * r.den
           ds == m * s.den
<1>1. /\ m \in Nat \ {0} /\ r.num \in Nat /\ s.num \in Nat
      /\ r.den \in Nat \ {0} /\ s.den \in Nat \ {0} /\ r.num * s.den = s.num * r.den
  BY DEF MinorScale, Rate, SameRate
<1> HIDE DEF m
<1>2. dr \in Nat \ {0} /\ ds \in Nat \ {0}
  BY <1>1
<1>3. ASSUME NEW x \in Int
      PROVE  Rounded(x * r.num, dr) = Rounded(x * s.num, ds)
  <2> DEFINE nr == x * r.num
             ns == x * s.num
             cross == r.num * s.den
  <2>1. nr \in Int /\ ns \in Int
    BY <1>1
  <2>2. nr * ds = (x * m) * cross
    BY <1>1
  <2>3. ns * dr = (x * m) * cross
    <3>1. ns * dr = (x * m) * (s.num * r.den)
      BY <1>1
    <3> QED
      BY <1>1, <3>1
  <2> HIDE DEF nr, ns, dr, ds, cross
  <2>4. Rounded(nr, dr) = Rounded(ns, ds)
    BY <1>2, <2>1, <2>2, <2>3, RoundedSame
  <2> QED
    BY <2>4 DEF nr, ns
<1>4. /\ Amounts(net, vat, currency, r) =
           [fc |-> Reconciled(net, vat, 1), huf |-> Reconciled(net * r.num, vat * r.num, dr)]
      /\ Amounts(net, vat, currency, s) =
           [fc |-> Reconciled(net, vat, 1), huf |-> Reconciled(net * s.num, vat * s.num, ds)]
  BY DEF Amounts, m
<1> HIDE DEF dr, ds
<1>5. Reconciled(net * r.num, vat * r.num, dr) = Reconciled(net * s.num, vat * s.num, ds)
  <2>1. /\ Rounded(net * r.num, dr) = Rounded(net * s.num, ds)
        /\ Rounded(vat * r.num, dr) = Rounded(vat * s.num, ds)
    BY <1>3
  <2> QED
    BY <2>1 DEF Reconciled
<1> QED
  BY <1>4, <1>5

LEMMA StornoAmounts ==
  ASSUME NEW net \in Int, NEW vat \in Int, NEW currency, NEW r \in Rate, NEW s \in Rate,
         NEW currencies, currencies = {"fc"} \/ (currencies = {"fc", "huf"} /\ SameRate(r, s))
  PROVE  Opposite(Amounts(-net, -vat, currency, s), Amounts(net, vat, currency, r), currencies)
<1>1. Opposite(Amounts(-net, -vat, currency, s), Amounts(net, vat, currency, s), {"fc", "huf"})
  BY ReversalIsExact DEF Rate
<1>2. CASE SameRate(r, s)
  <2>1. Amounts(net, vat, currency, r) = Amounts(net, vat, currency, s)
    BY <1>2, SameRateSameAmounts
  <2> QED
    BY <1>1, <2>1 DEF Opposite
<1>3. CASE currencies = {"fc"}
  <2>1. Amounts(net, vat, currency, r).fc = Amounts(net, vat, currency, s).fc
    BY DEF Amounts
  <2> QED
    BY <1>1, <1>3, <2>1 DEF Opposite
<1> QED
  BY <1>2, <1>3
-----------------------------------------------------------------------------
(* The invoices that are mapped.                                           *)

LEMMA MinOfTwo ==
  ASSUME NEW a \in Nat, NEW b \in Nat
  PROVE  /\ Min({a, b}) \in Nat /\ Min({a, b}) <= a /\ Min({a, b}) <= b
         /\ b <= a => Min({a, b}) = b
<1>1. \E x \in {a, b} : \A y \in {a, b} : x <= y
  OBVIOUS
<1>2. Min({a, b}) \in {a, b} /\ \A y \in {a, b} : Min({a, b}) <= y
  BY <1>1 DEF Min
<1> QED
  BY <1>2

LEMMA NegatedType ==
  ASSUME NEW l \in LineItems
  PROVE  Negated(l) \in LineItems
<1> DEFINE opposite(t) == [amount |-> -t.amount, inclusive |-> t.inclusive]
            ts == [t \in DOMAIN l.taxes |-> opposite(l.taxes[t])]
<1>1. l.taxes \in Seq(TaxItems) /\ l.amount \in Int /\ l.quantity \in Int
  BY DEF LineItems
<1>2. DOMAIN l.taxes = 1..Len(l.taxes) /\ Len(l.taxes) \in Nat
  BY <1>1
<1>3. \A t \in 1..Len(l.taxes) : l.taxes[t] \in TaxItems
  BY <1>1
<1>4. \A x \in TaxItems : opposite(x) \in TaxItems
  BY DEF TaxItems
<1>5. ts \in [1..Len(l.taxes) -> TaxItems]
  BY <1>2, <1>3, <1>4
<1>6. ts \in Seq(TaxItems)
  BY <1>2, <1>5, SeqDef
<1>7. Negated(l) = [amount |-> -l.amount, quantity |-> l.quantity, taxes |-> ts]
  BY DEF Negated
<1> HIDE DEF ts
<1> QED
  BY <1>1, <1>6, <1>7 DEF LineItems

LEMMA NegatedLines ==
  ASSUME NEW ls \in Seq(LineItems)
  PROVE  /\ [i \in DOMAIN ls |-> Negated(ls[i])] \in Seq(LineItems)
         /\ Len([i \in DOMAIN ls |-> Negated(ls[i])]) = Len(ls)
<1>1. DOMAIN ls = 1..Len(ls) /\ Len(ls) \in Nat
  OBVIOUS
<1>2. [i \in DOMAIN ls |-> Negated(ls[i])] \in [1..Len(ls) -> LineItems]
  BY <1>1, NegatedType
<1> QED
  BY <1>1, <1>2, SeqDef

LEMMA EmbeddedType ==
  ASSUME NEW inv \in StripeInvoices
  PROVE  Embedded(inv) \in StripeInvoices
<1> DEFINE n == Min({PageSize, Len(inv.lines)})
<1>1. inv.lines \in Seq(LineItems) /\ Len(inv.lines) \in Nat
  <2>1. inv.lines \in Seq(LineItems)
    BY DEF StripeInvoices
  <2> QED
    BY <2>1
<1>2. n \in Nat /\ n <= Len(inv.lines)
  BY <1>1, MinOfTwo, InvoiceMapAssumption
<1> HIDE DEF n
<1>3. SubSeq(inv.lines, 1, n) \in Seq(LineItems)
  BY <1>1, <1>2
<1>4. Embedded(inv) = [inv EXCEPT !.lines = SubSeq(inv.lines, 1, n),
                                  !.hasMore = Len(inv.lines) > PageSize]
  BY DEF Embedded, n
<1>5. (Len(inv.lines) > PageSize) \in BOOLEAN
  OBVIOUS
<1> QED
  BY <1>3, <1>4, <1>5 DEF StripeInvoices

LEMMA AsStornoType ==
  ASSUME NEW inv \in StripeInvoices, NEW now \in Times
  PROVE  AsStorno(inv, now) \in StripeInvoices
<1>1. inv.lines \in Seq(LineItems) /\ inv.number \in Numbers
  BY DEF StripeInvoices
<1>2. [inv.number EXCEPT !.suffix = "STORNO"] \in Numbers
  BY <1>1 DEF Numbers
<1> QED
  BY <1>1, <1>2, NegatedLines DEF AsStorno, StripeInvoices

LEMMA StornoLength ==
  ASSUME NEW inv \in StripeInvoices, NEW now \in Times
  PROVE  /\ AsStorno(inv, now).lines \in Seq(LineItems)
         /\ Len(AsStorno(inv, now).lines) = Len(inv.lines)
<1>1. inv.lines \in Seq(LineItems)
  BY DEF StripeInvoices
<1>2. AsStorno(inv, now).lines = [i \in DOMAIN inv.lines |-> Negated(inv.lines[i])]
  BY DEF AsStorno, StripeInvoices
<1> QED
  BY <1>1, <1>2, NegatedLines

LEMMA ChosenLines ==
  ASSUME NEW ls \in Seq(LineItems), NEW i \in 0..Len(ls),
         NEW chosen, chosen = IF i = 0 THEN ls ELSE <<ls[i]>>
  PROVE  /\ chosen \in Seq(LineItems)
         /\ \A k \in DOMAIN chosen : \E m \in DOMAIN ls : chosen[k] = ls[m]
<1>1. CASE i = 0
  BY <1>1
<1>2. CASE i # 0
  <2>1. i \in DOMAIN ls /\ ls[i] \in LineItems
    BY <1>2
  <2>2. chosen = <<ls[i]>>
    BY <1>2
  <2>3. DOMAIN chosen = {1} /\ chosen[1] = ls[i] /\ chosen \in Seq(LineItems)
    BY <2>1, <2>2
  <2> QED
    BY <2>1, <2>3
<1> QED
  BY <1>1, <1>2

LEMMA CreditNoteType ==
  ASSUME NEW number \in Numbers, NEW currency \in STRING, NEW lines \in Seq(LineItems),
         NEW more \in BOOLEAN, NEW created \in Times \cup {0}, NEW effective \in Times \cup {0},
         NEW ids \in Seq(TaxIds),
         NEW name \in {"", "person", "company"}
  PROVE  [number |-> number, currency |-> currency, created |-> created,
          finalized |-> effective, effective |-> 0, hasMore |-> more, lines |-> lines,
          taxIds |-> ids, name |-> name] \in StripeInvoices
BY DEF StripeInvoices
-----------------------------------------------------------------------------
(* The amounts of a line.                                                  *)

LEMMA LineAmounts ==
  ASSUME NEW l \in LineItems
  PROVE  /\ Vat(l) \in Int /\ Net(l) \in Int /\ l.amount \in Int /\ Percentage(l) \in Int
         /\ VatPercentage(l) \in Percentages
<1> DEFINE f == [t \in DOMAIN l.taxes |-> l.taxes[t].amount]
<1>1. l.taxes \in Seq(TaxItems) /\ l.amount \in Int
  BY DEF LineItems
<1>2. DOMAIN l.taxes = 1..Len(l.taxes) /\ Len(l.taxes) \in Nat
  BY <1>1
<1>3. IsFiniteSet(DOMAIN l.taxes)
  BY <1>2, FS_Interval
<1>4. \A t \in DOMAIN l.taxes : f[t] \in Int
  <2>1. \A t \in DOMAIN l.taxes : l.taxes[t] \in TaxItems
    BY <1>1, <1>2
  <2>2. \A t \in DOMAIN l.taxes : l.taxes[t].amount \in Int
    BY <2>1 DEF TaxItems
  <2> QED
    BY <2>2
<1>5. Vat(l) = SumFunctionOnSet(f, DOMAIN l.taxes)
  BY SumOverDomain DEF Vat
<1> HIDE DEF f
<1>6. Vat(l) \in Int
  BY <1>3, <1>4, <1>5, SumTakeOut
<1>7. Net(l) \in Int
  BY <1>1, <1>6 DEF Net
<1>8. Net(l) # 0 => Abs(Net(l)) \in Nat \ {0} /\ 100 * Sign(Net(l)) * Vat(l) \in Int
  BY <1>6, <1>7 DEF Abs, Sign
<1>9. Percentage(l) \in Int
  BY <1>8, RoundedIsOdd DEF Percentage
<1>10. VatPercentage(l) \in Percentages
  BY <1>9 DEF VatPercentage, Percentages
<1> QED
  BY <1>1, <1>6, <1>7, <1>9, <1>10

\* A negated line is taxed the same way, at the same rate.
LEMMA NegatedAmounts ==
  ASSUME NEW l \in LineItems
  PROVE  /\ Vat(Negated(l)) = -Vat(l)
         /\ Net(Negated(l)) = -Net(l)
         /\ VatPercentage(Negated(l)) = VatPercentage(l)
<1> DEFINE m == Negated(l)
           D == DOMAIN l.taxes
           f == [t \in D |-> l.taxes[t].amount]
           g == [t \in D |-> m.taxes[t].amount]
<1>1. /\ m.amount = -l.amount /\ DOMAIN m.taxes = D
      /\ \A t \in D : /\ m.taxes[t].amount = -l.taxes[t].amount
                      /\ m.taxes[t].inclusive = l.taxes[t].inclusive
  BY DEF Negated
<1>2. l.taxes \in Seq(TaxItems) /\ D = 1..Len(l.taxes) /\ Len(l.taxes) \in Nat
  BY DEF LineItems
<1>3. IsFiniteSet(D)
  BY <1>2, FS_Interval
<1>4. \A t \in D : f[t] \in Int /\ g[t] = -f[t]
  <2>1. \A t \in D : l.taxes[t] \in TaxItems
    BY <1>2
  <2>2. \A t \in D : l.taxes[t].amount \in Int
    BY <2>1 DEF TaxItems
  <2> QED
    BY <1>1, <2>2
<1>5. Vat(l) = SumFunctionOnSet(f, D) /\ Vat(m) = SumFunctionOnSet(g, D)
  <2>1. Vat(l) = SumFunctionOnSet(f, D)
    BY SumOverDomain DEF Vat
  <2>2. [t \in DOMAIN m.taxes |-> m.taxes[t].amount] = g
    BY <1>1
  <2>3. Vat(m) = SumFunction(g) /\ DOMAIN g = D
    BY <2>2 DEF Vat
  <2> HIDE DEF g
  <2> QED
    BY <2>1, <2>3, SumOverDomain
<1> HIDE DEF f, g, m
<1>6. Vat(m) = -Vat(l)
  BY <1>3, <1>4, <1>5, SumNegated
<1>7. Inclusive(m) = Inclusive(l)
  BY <1>1 DEF Inclusive
<1>8. Vat(l) \in Int /\ Net(l) \in Int /\ l.amount \in Int
  BY LineAmounts
<1>9. Net(m) = -Net(l)
  BY <1>1, <1>6, <1>7, <1>8 DEF Net
<1>10. Percentage(m) = Percentage(l)
  <2>1. Net(l) # 0 => /\ Abs(Net(m)) = Abs(Net(l))
                      /\ 100 * Sign(Net(m)) * Vat(m) = 100 * Sign(Net(l)) * Vat(l)
    BY <1>6, <1>8, <1>9 DEF Abs, Sign
  <2>2. Net(m) = 0 <=> Net(l) = 0
    BY <1>8, <1>9
  <2> QED
    BY <2>1, <2>2 DEF Percentage
<1>11. VatPercentage(m) = VatPercentage(l)
  BY <1>6, <1>8, <1>9, <1>10 DEF VatPercentage
<1> QED
  BY <1>6, <1>9, <1>11 DEF m

LEMMA LawfulLine ==
  ASSUME NEW l \in LineItems, LegalRates \subseteq 0..27, TaxedByLaw(l), Abs(Net(l)) >= 128
  PROVE  Percentage(l) \in LegalRates
<1> DEFINE N == Net(l)
           V == Vat(l)
           m == l.amount
<1>1. N \in Int /\ V \in Int /\ m \in Int
  BY LineAmounts
<1>2. PICK p \in LegalRates :
        LET whole == IF Inclusive(l) THEN 100 + p ELSE 100
        IN  2 * Abs(whole * V - p * m) <= whole
  BY DEF TaxedByLaw
<1>3. p \in 0..27
  OBVIOUS
<1>4. N = IF Inclusive(l) THEN m - V ELSE m
  BY DEF Net
<1>5. Percentage(l) = IF N = 0 THEN 0 ELSE Rounded(100 * Sign(N) * V, Abs(N))
  BY DEF Percentage
<1>6. Abs(N) >= 128
  OBVIOUS
<1> HIDE DEF N, V, m
<1>7. p * N \in Int /\ p * m \in Int /\ p * V \in Int
  BY <1>1, <1>3
<1>8. 2 * Abs(100 * V - p * N) <= 127
  <2> DEFINE x == Abs(100 * V - p * N)
  <2>1. x \in Int
    BY <1>1, <1>7 DEF Abs
  <2>2. CASE Inclusive(l)
    <3>1. 2 * Abs((100 + p) * V - p * m) <= 100 + p /\ N = m - V
      BY <1>2, <1>4, <2>2
    <3>2. (100 + p) * V = 100 * V + p * V /\ p * N = p * m - p * V
      BY <1>1, <1>3, <3>1
    <3>3. (100 + p) * V - p * m = 100 * V - p * N
      BY <1>1, <1>7, <3>2
    <3>4. 2 * x <= 100 + p
      BY <3>1, <3>3
    <3> HIDE DEF x
    <3>5. 2 * x <= 127
      BY <1>3, <2>1, <3>4
    <3> QED
      BY <3>5 DEF x
  <2>3. CASE ~Inclusive(l)
    <3>1. 2 * x <= 100
      BY <1>2, <1>4, <2>3
    <3> HIDE DEF x
    <3>2. 2 * x <= 127
      BY <2>1, <3>1
    <3> QED
      BY <3>2 DEF x
  <2> QED
    BY <2>2, <2>3
<1>9. -127 <= 2 * (100 * V - p * N) /\ 2 * (100 * V - p * N) <= 127
  BY <1>1, <1>7, <1>8 DEF Abs
<1>10. Rounded(100 * Sign(N) * V, Abs(N)) = p
  <2> DEFINE d == Abs(N)
             n == 100 * Sign(N) * V
  <2>1. CASE N > 0
    <3>1. d = N /\ n = 100 * V /\ d * p = p * N
      BY <1>1, <1>3, <2>1 DEF Abs, Sign
    <3>2. -d < 2 * (d * p - n) /\ 2 * (d * p - n) < d
      BY <1>1, <1>6, <1>7, <1>9, <3>1
    <3>3. d \in Nat \ {0} /\ n \in Int /\ p \in Int
      BY <1>1, <1>3, <1>6, <3>1
    <3> HIDE DEF d, n
    <3>4. Rounded(n, d) = p
      BY <3>2, <3>3, RoundedNear
    <3> QED
      BY <3>4 DEF d, n
  <2>2. CASE N < 0
    <3>1. d = -N /\ n = -(100 * V) /\ d * p = -(p * N)
      BY <1>1, <1>3, <2>2 DEF Abs, Sign
    <3>2. -d < 2 * (d * p - n) /\ 2 * (d * p - n) < d
      BY <1>1, <1>6, <1>7, <1>9, <3>1
    <3>3. d \in Nat \ {0} /\ n \in Int /\ p \in Int
      BY <1>1, <1>3, <1>6, <3>1
    <3> HIDE DEF d, n
    <3>4. Rounded(n, d) = p
      BY <3>2, <3>3, RoundedNear
    <3> QED
      BY <3>4 DEF d, n
  <2>3. N # 0
    BY <1>6 DEF Abs
  <2> QED
    BY <1>1, <2>1, <2>2, <2>3
<1>11. N # 0
  BY <1>6 DEF Abs
<1> QED
  BY <1>5, <1>10, <1>11

\* A line that is taxed by the law, to a minor unit, has no tax of the opposite
\* sign, however small it is.
LEMMA NoMinus ==
  ASSUME NEW l \in LineItems, LegalRates \subseteq 0..27, TaxedByLaw(l)
  PROVE  ~VatPercentage(l).minus
<1> DEFINE N == Net(l)
           V == Vat(l)
           m == l.amount
<1>1. N \in Int /\ V \in Int /\ m \in Int
  BY LineAmounts
<1>2. PICK p \in LegalRates :
        LET whole == IF Inclusive(l) THEN 100 + p ELSE 100
        IN  2 * Abs(whole * V - p * m) <= whole
  BY DEF TaxedByLaw
<1>3. p \in 0..27
  OBVIOUS
<1>4. N = IF Inclusive(l) THEN m - V ELSE m
  BY DEF Net
<1>5. VatPercentage(l).minus <=> (N < 0 /\ V > 0) \/ (N > 0 /\ V < 0)
  BY DEF VatPercentage
<1> DEFINE w == IF Inclusive(l) THEN 100 + p ELSE 100
           x == p * m
           y == w * V
<1>6. /\ w \in Nat /\ 100 <= w /\ w <= 127 /\ x \in Int /\ y \in Int
      /\ -w <= 2 * (y - x) /\ 2 * (y - x) <= w
  BY <1>1, <1>2, <1>3 DEF Abs
<1> HIDE DEF N, V, m, w
<1>7. /\ m >= 0 => 0 <= x /\ x <= 27 * m
      /\ m <= 0 => 27 * m <= x /\ x <= 0
  BY <1>1, <1>3
<1>8. /\ V >= 1 => y >= w * 1 /\ y >= 100 * V
      /\ V <= -1 => y <= -w /\ y <= 100 * V
  BY <1>1, <1>6
<1> HIDE DEF x, y
<1>9. V >= 1 => N >= 0
  <2>1. CASE V >= 1
    <3>1. 2 * x >= w /\ 2 * x >= 200 * V - 127
      BY <1>1, <1>6, <1>8, <2>1
    <3>2. m >= 1
      BY <1>1, <1>6, <1>7, <3>1
    <3>3. 54 * m >= 200 * V - 127
      BY <1>1, <1>6, <1>7, <3>1, <3>2
    <3>4. m - V >= 0
      BY <1>1, <2>1, <3>2, <3>3
    <3> QED
      BY <1>1, <1>4, <3>2, <3>4
  <2> QED
    BY <2>1
<1>10. V <= -1 => N <= 0
  <2>1. CASE V <= -1
    <3>1. 2 * x <= -w /\ 2 * x <= 200 * V + 127
      BY <1>1, <1>6, <1>8, <2>1
    <3>2. m <= -1
      BY <1>1, <1>6, <1>7, <3>1
    <3>3. 54 * m <= 200 * V + 127
      BY <1>1, <1>6, <1>7, <3>1, <3>2
    <3>4. m - V <= 0
      BY <1>1, <2>1, <3>2, <3>3
    <3> QED
      BY <1>1, <1>4, <3>2, <3>4
  <2> QED
    BY <2>1
<1> QED
  BY <1>1, <1>5, <1>9, <1>10
-----------------------------------------------------------------------------
(* The amounts of several lines.                                           *)

LineNet(inv) == [i \in DOMAIN inv.lines |-> Net(inv.lines[i])]

LineVat(inv) == [i \in DOMAIN inv.lines |-> Vat(inv.lines[i])]

NetOf(inv, indices) == SumFunctionOnSet(LineNet(inv), indices)

VatOf(inv, indices) == SumFunctionOnSet(LineVat(inv), indices)

LEMMA InvoiceLines ==
  ASSUME NEW inv \in StripeInvoices
  PROVE  /\ inv.lines \in Seq(LineItems) /\ Len(inv.lines) \in Nat
         /\ DOMAIN inv.lines = 1..Len(inv.lines) /\ IsFiniteSet(DOMAIN inv.lines)
         /\ Cardinality(DOMAIN inv.lines) = Len(inv.lines)
         /\ \A i \in DOMAIN inv.lines :
              /\ inv.lines[i] \in LineItems
              /\ LineNet(inv)[i] \in Int /\ LineVat(inv)[i] \in Int
<1>1. inv.lines \in Seq(LineItems) /\ Len(inv.lines) \in Nat /\ DOMAIN inv.lines = 1..Len(inv.lines)
  <2>1. inv.lines \in Seq(LineItems)
    BY DEF StripeInvoices
  <2> QED
    BY <2>1
<1>2. IsFiniteSet(DOMAIN inv.lines) /\ Cardinality(DOMAIN inv.lines) = Len(inv.lines)
  BY <1>1, FS_Interval
<1>3. \A i \in DOMAIN inv.lines : inv.lines[i] \in LineItems
  BY <1>1
<1> QED
  BY <1>1, <1>2, <1>3, LineAmounts DEF LineNet, LineVat

LEMMA TogetherIs ==
  ASSUME NEW inv \in StripeInvoices, NEW indices \in SUBSET DOMAIN inv.lines, NEW rate
  PROVE  /\ NetOf(inv, indices) \in Int /\ VatOf(inv, indices) \in Int
         /\ Together(inv, indices, rate) =
              Amounts(NetOf(inv, indices), VatOf(inv, indices), inv.currency, rate)
<1> DEFINE n == [i \in indices |-> Net(inv.lines[i])]
           v == [i \in indices |-> Vat(inv.lines[i])]
<1>1. IsFiniteSet(indices)
  BY InvoiceLines, FS_Subset
<1>2. \A i \in indices : LineNet(inv)[i] \in Int /\ LineVat(inv)[i] \in Int
  BY InvoiceLines
<1>3. NetOf(inv, indices) \in Int /\ VatOf(inv, indices) \in Int
  BY <1>1, <1>2, SumTakeOut DEF NetOf, VatOf
<1>4. DOMAIN n = indices /\ DOMAIN v = indices
  OBVIOUS
<1>5. \A i \in indices : n[i] = LineNet(inv)[i] /\ v[i] = LineVat(inv)[i]
  BY DEF LineNet, LineVat
<1>6. Together(inv, indices, rate) = Amounts(SumFunction(n), SumFunction(v), inv.currency, rate)
  BY Zenon DEF Together
<1> HIDE DEF n, v
<1>7. SumFunction(n) = NetOf(inv, indices) /\ SumFunction(v) = VatOf(inv, indices)
  BY <1>1, <1>4, <1>5, SumOverDomain, SumSame DEF NetOf, VatOf
<1> QED
  BY <1>3, <1>6, <1>7

LEMMA EmbeddedLines ==
  ASSUME NEW inv \in StripeInvoices
  PROVE  LET e == Embedded(inv)
         IN  /\ e \in StripeInvoices
             /\ e.number = inv.number /\ e.currency = inv.currency
             /\ ~e.hasMore => e.lines = inv.lines
             /\ \A k \in DOMAIN e.lines : k \in DOMAIN inv.lines /\ e.lines[k] = inv.lines[k]
<1> DEFINE ls == inv.lines
           n == Min({PageSize, Len(ls)})
           page == SubSeq(ls, 1, n)
           more == Len(ls) > PageSize
<1>1. ls \in Seq(LineItems) /\ Len(ls) \in Nat /\ DOMAIN ls = 1..Len(ls) /\ PageSize \in Nat
  BY InvoiceLines, InvoiceMapAssumption
<1>2. n \in Nat /\ n <= Len(ls) /\ (Len(ls) <= PageSize => n = Len(ls))
  BY <1>1, MinOfTwo
<1>3. Embedded(inv) = [inv EXCEPT !.lines = page, !.hasMore = more]
  BY DEF Embedded
<1> HIDE DEF n
<1>4. \A k \in DOMAIN page : k \in DOMAIN ls /\ page[k] = ls[k]
  BY <1>1, <1>2
<1>5. ~more => page = ls
  <2>1. page \in Seq(LineItems) /\ Len(page) = n /\ DOMAIN page = 1..n
    BY <1>1, <1>2
  <2> HIDE DEF page
  <2>2. n = Len(ls) => page = ls
    BY <1>1, <1>4, <2>1
  <2> QED
    BY <1>1, <1>2, <2>2
<1> HIDE DEF page, more
<1>6. LET e == Embedded(inv)
      IN  e.number = inv.number /\ e.currency = inv.currency /\ e.lines = page /\ e.hasMore = more
  BY <1>3 DEF StripeInvoices
<1> QED
  BY <1>4, <1>5, <1>6, EmbeddedType
-----------------------------------------------------------------------------
(* The parts of a whole, rounded one by one.                               *)

\* The parts of a whole, rounded one by one, and the whole.
LEMMA RoundedParts ==
  ASSUME NEW S, IsFiniteSet(S), NEW f, NEW g, NEW a \in Int, NEW d \in Nat \ {0},
         \A x \in S : f[x] \in Int /\ g[x] = Rounded(f[x] * a, d)
  PROVE  /\ SumFunctionOnSet(f, S) \in Int /\ SumFunctionOnSet(g, S) \in Int
         /\ Rounded(SumFunctionOnSet(f, S) * a, d) \in Int
         /\ WithinRounding(Rounded(SumFunctionOnSet(f, S) * a, d), SumFunctionOnSet(g, S),
                           Cardinality(S), 1)
<1> DEFINE F == SumFunctionOnSet(f, S)
           G == SumFunctionOnSet(g, S)
           R == Rounded(F * a, d)
           n == Cardinality(S)
<1>1. ASSUME NEW x \in S
      PROVE  /\ f[x] \in Int /\ g[x] \in Int
             /\ -d <= 2 * (d * g[x] - a * f[x]) /\ 2 * (d * g[x] - a * f[x]) <= d
  <2> DEFINE m == f[x] * a
  <2>1. m \in Int /\ m = a * f[x]
    OBVIOUS
  <2> HIDE DEF m
  <2>2. /\ Rounded(m, d) \in Int
        /\ -d <= 2 * (d * Rounded(m, d) - m) /\ 2 * (d * Rounded(m, d) - m) <= d
    BY <2>1, RoundedWithin
  <2>3. g[x] = Rounded(m, d)
    BY DEF m
  <2> QED
    BY <2>1, <2>2, <2>3
<1>2. F \in Int /\ G \in Int
  <2>1. (\A x \in S : f[x] \in Int) /\ (\A x \in S : g[x] \in Int)
    BY <1>1
  <2> QED
    BY <2>1, SumTakeOut
<1>3. n \in Nat
  BY FS_CardinalityType
<1>4. -(d * n) <= 2 * (d * G - a * F) /\ 2 * (d * G - a * F) <= d * n
  BY <1>1, SumOfRoundings
<1> HIDE DEF F, G, n
<1>5. /\ R \in Int /\ F * a \in Int
      /\ -d <= 2 * (d * R - F * a) /\ 2 * (d * R - F * a) <= d
  BY <1>2, RoundedWithin
<1> HIDE DEF R
<1>6. -(n + 1) <= 2 * (R - G) /\ 2 * (R - G) <= n + 1
  <2> DEFINE z == 2 * (R - G)
  <2>1. d * z = 2 * (d * R - F * a) - 2 * (d * G - a * F)
    BY <1>2, <1>5
  <2>2. d * (n + 1) = d * n + d /\ d * n \in Int /\ d * G \in Int /\ a * F \in Int /\ d * R \in Int
    BY <1>2, <1>3, <1>5
  <2>3. -(d * (n + 1)) <= d * z /\ d * z <= d * (n + 1)
    BY <1>4, <1>5, <2>1, <2>2
  <2>4. z \in Int
    BY <1>2, <1>5
  <2> HIDE DEF z
  <2>5. z > n + 1 => d * z > d * (n + 1)
    BY <1>3, <2>4
  <2>6. z < -(n + 1) => d * z < -(d * (n + 1))
    BY <1>3, <2>4
  <2>7. d * z \in Int /\ d * (n + 1) \in Int
    BY <1>3, <2>4
  <2>8. -(n + 1) <= z /\ z <= n + 1
    BY <1>3, <2>3, <2>4, <2>5, <2>6, <2>7
  <2> QED
    BY <2>8 DEF z
<1>7. 2 * Abs(R - G) <= 1 * (n + 1)
  BY <1>2, <1>3, <1>5, <1>6 DEF Abs
<1> QED
  BY <1>2, <1>5, <1>7 DEF WithinRounding, F, G, R, n

Denominator(currency, rate) == MinorScale(currency) * rate.den

LEMMA AmountsAre ==
  ASSUME NEW net \in Int, NEW vat \in Int, NEW currency, NEW rate \in Rate
  PROVE  LET a == Amounts(net, vat, currency, rate)
             d == Denominator(currency, rate)
         IN  /\ a \in Both /\ d \in Nat \ {0} /\ rate.num \in Int
             /\ a.fc.net = net /\ a.fc.vat = vat /\ a.fc.gross = net + vat
             /\ a.huf.net = Rounded(net * rate.num, d)
             /\ a.huf.vat = Rounded(vat * rate.num, d)
             /\ a.huf.gross = a.huf.net + a.huf.vat
<1> DEFINE d == Denominator(currency, rate)
           n == Rounded(net * rate.num, d)
           v == Rounded(vat * rate.num, d)
<1>1. d \in Nat \ {0} /\ rate.num \in Int
  BY DEF Denominator, MinorScale, Rate
<1>2. Amounts(net, vat, currency, rate) =
        [fc |-> Reconciled(net, vat, 1), huf |-> Reconciled(net * rate.num, vat * rate.num, d)]
  BY DEF Amounts, Denominator
<1> HIDE DEF d
<1>3. n \in Int /\ v \in Int
  <2>1. net * rate.num \in Int /\ vat * rate.num \in Int
    BY <1>1
  <2> QED
    BY <1>1, <2>1, RoundedIsOdd
<1>4. Reconciled(net, vat, 1) = [net |-> net, vat |-> vat, gross |-> net + vat]
  BY RoundedByOne DEF Reconciled
<1>5. Reconciled(net * rate.num, vat * rate.num, d) = [net |-> n, vat |-> v, gross |-> n + v]
  BY DEF Reconciled
<1> HIDE DEF n, v
<1>6. Amounts(net, vat, currency, rate) =
        [fc |-> [net |-> net, vat |-> vat, gross |-> net + vat],
         huf |-> [net |-> n, vat |-> v, gross |-> n + v]]
  BY <1>2, <1>4, <1>5
<1>7. Amounts(net, vat, currency, rate) \in Both
  BY <1>3, <1>6 DEF Both, Money
<1> QED
  BY <1>1, <1>6, <1>7 DEF n, v, d

\* The sums that NAV checks, of lines and of rows alike.
LEMMA PartsMakeWhole ==
  ASSUME NEW S, IsFiniteSet(S), NEW n, NEW v, \A x \in S : n[x] \in Int /\ v[x] \in Int,
         NEW currency, NEW rate \in Rate,
         NEW A, S = DOMAIN A, \A x \in S : A[x] = Amounts(n[x], v[x], currency, rate),
         NEW total, total = Amounts(SumFunctionOnSet(n, S), SumFunctionOnSet(v, S), currency, rate)
  PROVE  MakeUp(total, A)
<1> DEFINE d == Denominator(currency, rate)
           a == rate.num
           N == SumFunctionOnSet(n, S)
           V == SumFunctionOnSet(v, S)
           c == Cardinality(S)
           fc(f) == [x \in DOMAIN A |-> A[x].fc[f]]
           huf(f) == [x \in DOMAIN A |-> A[x].huf[f]]
           Sum(h) == SumFunctionOnSet(h, S)
<1>1. N \in Int /\ V \in Int
  BY SumTakeOut
<1>2. c \in Nat
  BY FS_CardinalityType
<1>3. \A x \in S :
        /\ d \in Nat \ {0} /\ a \in Int
        /\ fc("net")[x] = n[x] /\ fc("vat")[x] = v[x] /\ fc("gross")[x] = n[x] + v[x]
        /\ huf("net")[x] = Rounded(n[x] * a, d)
        /\ huf("vat")[x] = Rounded(v[x] * a, d)
        /\ huf("gross")[x] = huf("net")[x] + huf("vat")[x]
  BY AmountsAre
<1>4. /\ d \in Nat \ {0} /\ a \in Int
      /\ total.fc["net"] = N /\ total.fc["vat"] = V /\ total.fc["gross"] = N + V
      /\ total.huf["net"] = Rounded(N * a, d)
      /\ total.huf["vat"] = Rounded(V * a, d)
      /\ total.huf["gross"] = total.huf["net"] + total.huf["vat"]
  <2> HIDE DEF N, V
  <2> QED
    BY <1>1, AmountsAre DEF N, V
<1>5. ASSUME NEW f PROVE SumFunction(fc(f)) = Sum(fc(f)) /\ SumFunction(huf(f)) = Sum(huf(f))
  <2> DEFINE g == fc(f)
             h == huf(f)
  <2>1. DOMAIN g = S /\ DOMAIN h = S
    OBVIOUS
  <2> HIDE DEF g, h
  <2>2. SumFunction(g) = Sum(g) /\ SumFunction(h) = Sum(h)
    BY <2>1, SumOverDomain
  <2> QED
    BY <2>2 DEF g, h
<1> HIDE DEF fc, huf, d, a
<1>6. Sum(fc("net")) = N /\ Sum(fc("vat")) = V /\ Sum(fc("gross")) = N + V
  <2>1. Sum(fc("net")) = N
    BY <1>3, SumSame
  <2>2. Sum(fc("vat")) = V
    BY <1>3, SumSame
  <2>3. \A x \in S : n[x] \in Int /\ v[x] \in Int /\ fc("gross")[x] = n[x] + v[x]
    BY <1>3
  <2>4. Sum(fc("gross")) = N + V
    BY <2>3, SumAdds
  <2> QED
    BY <2>1, <2>2, <2>4
<1>7. /\ Sum(huf("net")) \in Int /\ total.huf["net"] \in Int
      /\ WithinRounding(total.huf["net"], Sum(huf("net")), c, 1)
  <2> DEFINE h == huf("net")
  <2>1. \A x \in S : n[x] \in Int /\ h[x] = Rounded(n[x] * a, d)
    BY <1>3
  <2> HIDE DEF h
  <2>2. /\ Sum(h) \in Int /\ Rounded(N * a, d) \in Int
        /\ WithinRounding(Rounded(N * a, d), Sum(h), c, 1)
    BY <1>4, <2>1, RoundedParts
  <2> QED
    BY <1>4, <2>2 DEF h
<1>8. /\ Sum(huf("vat")) \in Int /\ total.huf["vat"] \in Int
      /\ WithinRounding(total.huf["vat"], Sum(huf("vat")), c, 1)
  <2> DEFINE h == huf("vat")
  <2>1. \A x \in S : v[x] \in Int /\ h[x] = Rounded(v[x] * a, d)
    BY <1>3
  <2> HIDE DEF h
  <2>2. /\ Sum(h) \in Int /\ Rounded(V * a, d) \in Int
        /\ WithinRounding(Rounded(V * a, d), Sum(h), c, 1)
    BY <1>4, <2>1, RoundedParts
  <2> QED
    BY <1>4, <2>2 DEF h
<1>9. Sum(huf("gross")) = Sum(huf("net")) + Sum(huf("vat"))
  <2>1. \A x \in S : /\ huf("net")[x] \in Int /\ huf("vat")[x] \in Int
                     /\ huf("gross")[x] = huf("net")[x] + huf("vat")[x]
    <3>1. ASSUME NEW x \in S
          PROVE  Rounded(n[x] * a, d) \in Int /\ Rounded(v[x] * a, d) \in Int
      <4>1. n[x] * a \in Int /\ v[x] * a \in Int
        BY <1>4
      <4> QED
        BY <1>4, <4>1, RoundedIsOdd
    <3> QED
      BY <1>3, <3>1
  <2> QED
    BY <2>1, SumAdds
<1> HIDE DEF Sum, N, V, c
<1>10. WithinRounding(total.huf["gross"], Sum(huf("gross")), c, 2)
  <2> DEFINE x == total.huf["net"]
             y == total.huf["vat"]
             s == Sum(huf("net"))
             t == Sum(huf("vat"))
  <2>1. x \in Int /\ y \in Int /\ s \in Int /\ t \in Int
    BY <1>7, <1>8
  <2>2. 2 * Abs(x - s) <= 1 * (c + 1) /\ 2 * Abs(y - t) <= 1 * (c + 1)
    BY <1>7, <1>8 DEF WithinRounding
  <2> HIDE DEF x, y, s, t
  <2>3. 2 * Abs((x + y) - (s + t)) <= 2 * (c + 1)
    BY <1>2, <2>1, <2>2 DEF Abs
  <2>4. total.huf["gross"] = x + y /\ Sum(huf("gross")) = s + t
    BY <1>4, <1>9 DEF x, y, s, t
  <2> QED
    BY <2>3, <2>4 DEF WithinRounding
<1>11. \A f \in {"net", "vat", "gross"} :
         /\ total.fc[f] = SumFunction(fc(f))
         /\ WithinRounding(total.huf[f], SumFunction(huf(f)), c, IF f = "gross" THEN 2 ELSE 1)
  BY <1>4, <1>6, <1>7, <1>8, <1>10, <1>5
<1> QED
  BY <1>11, Zenon DEF MakeUp, fc, huf, c
-----------------------------------------------------------------------------
(* The amounts of a document.                                              *)

Share(inv, i) == VatPercentage(inv.lines[i])

Row(inv, p, rate) ==
  [rate    |-> p,
   amounts |-> Together(inv, {i \in DOMAIN inv.lines : Share(inv, i) = p}, rate)]

LEMMA SummaryRows ==
  ASSUME NEW inv \in StripeInvoices, NEW rate \in Rate
  PROVE  /\ Summary(inv, rate) = {Row(inv, Share(inv, i), rate) : i \in DOMAIN inv.lines}
         /\ \A i \in DOMAIN inv.lines : Share(inv, i) \in Percentages
         /\ IsFiniteSet(Summary(inv, rate))
<1> DEFINE D == DOMAIN inv.lines
           row == [i \in D |-> Row(inv, Share(inv, i), rate)]
<1>1. Summary(inv, rate) = {Row(inv, p, rate) : p \in {Share(inv, i) : i \in D}}
  BY Zenon DEF Summary, Row, Share
<1>2. Summary(inv, rate) = {Row(inv, Share(inv, i), rate) : i \in D}
  BY <1>1
<1>3. \A i \in D : Share(inv, i) \in Percentages
  BY InvoiceLines, LineAmounts DEF Share
<1>4. Summary(inv, rate) = {row[i] : i \in D}
  BY <1>2
<1>5. IsFiniteSet(D)
  BY InvoiceLines
<1>6. row \in Surjection(D, Summary(inv, rate))
  BY <1>4 DEF Surjection
<1>7. IsFiniteSet(Summary(inv, rate))
  BY <1>5, <1>6, FS_Surjection
<1> QED
  BY <1>2, <1>3, <1>7

\* The rows' lines are all lines, each once.
LEMMA SummarySums ==
  ASSUME NEW inv \in StripeInvoices, NEW rate \in Rate,
         NEW S, S = Summary(inv, rate),
         NEW n, n = [r \in S |-> NetOf(inv, {i \in DOMAIN inv.lines : Share(inv, i) = r.rate})],
         NEW v, v = [r \in S |-> VatOf(inv, {i \in DOMAIN inv.lines : Share(inv, i) = r.rate})]
  PROVE  /\ SumFunctionOnSet(n, S) = NetOf(inv, DOMAIN inv.lines)
         /\ SumFunctionOnSet(v, S) = VatOf(inv, DOMAIN inv.lines)
<1> DEFINE D == DOMAIN inv.lines
           key == [i \in D |-> Row(inv, Share(inv, i), rate)]
<1>1. S = {Row(inv, Share(inv, i), rate) : i \in D} /\ IsFiniteSet(S) /\ IsFiniteSet(D)
  BY SummaryRows, InvoiceLines
<1>2. key \in [D -> S]
  BY <1>1
<1>3. \A r \in S : {i \in D : key[i] = r} = {i \in D : Share(inv, i) = r.rate}
  <2>1. ASSUME NEW r \in S, NEW i \in D PROVE key[i] = r <=> Share(inv, i) = r.rate
    <3>1. PICK j \in D : r = Row(inv, Share(inv, j), rate)
      BY <1>1
    <3>2. r.rate = Share(inv, j) /\ key[i].rate = Share(inv, i)
      BY <3>1 DEF Row
    <3>3. key[i] = Row(inv, Share(inv, i), rate)
      OBVIOUS
    <3> QED
      BY <3>1, <3>2, <3>3
  <2> QED
    BY <2>1
<1> HIDE DEF key
<1>4. /\ n = [r \in S |-> SumFunctionOnSet(LineNet(inv), {i \in D : key[i] = r})]
      /\ v = [r \in S |-> SumFunctionOnSet(LineVat(inv), {i \in D : key[i] = r})]
  BY <1>3 DEF NetOf, VatOf
<1> HIDE DEF D
<1>5. ASSUME NEW f, \A i \in D : f[i] \in Int
      PROVE  SumFunctionOnSet([r \in S |-> SumFunctionOnSet(f, {i \in D : key[i] = r})], S)
               = SumFunctionOnSet(f, D)
  BY <1>1, <1>2, <1>5, SumOfParts
<1>6. (\A i \in D : LineNet(inv)[i] \in Int) /\ (\A i \in D : LineVat(inv)[i] \in Int)
  BY InvoiceLines DEF D
<1>7. SumFunctionOnSet(n, S) = SumFunctionOnSet(LineNet(inv), D)
  BY <1>4, <1>5, <1>6
<1>8. SumFunctionOnSet(v, S) = SumFunctionOnSet(LineVat(inv), D)
  BY <1>4, <1>5, <1>6
<1> QED
  BY <1>7, <1>8 DEF NetOf, VatOf, D

LEMMA RowIs ==
  ASSUME NEW inv \in StripeInvoices, NEW rate \in Rate, NEW r \in Summary(inv, rate)
  PROVE  LET part == {i \in DOMAIN inv.lines : Share(inv, i) = r.rate}
         IN  /\ r = Row(inv, r.rate, rate) /\ r.rate \in Percentages
             /\ NetOf(inv, part) \in Int /\ VatOf(inv, part) \in Int
             /\ r.amounts = Amounts(NetOf(inv, part), VatOf(inv, part), inv.currency, rate)
<1>1. PICK j \in DOMAIN inv.lines : r = Row(inv, Share(inv, j), rate)
  BY SummaryRows
<1>2. r.rate = Share(inv, j) /\ r.rate \in Percentages
  BY <1>1, SummaryRows DEF Row
<1> DEFINE part == {i \in DOMAIN inv.lines : Share(inv, i) = r.rate}
<1>3. r.amounts = Together(inv, part, rate)
  BY <1>1, <1>2 DEF Row
<1>4. part \in SUBSET DOMAIN inv.lines
  OBVIOUS
<1> HIDE DEF part
<1>5. /\ NetOf(inv, part) \in Int /\ VatOf(inv, part) \in Int
      /\ Together(inv, part, rate) = Amounts(NetOf(inv, part), VatOf(inv, part), inv.currency, rate)
  BY <1>4, TogetherIs
<1>6. r = Row(inv, r.rate, rate)
  BY <1>1, <1>2
<1> QED
  BY <1>2, <1>3, <1>5, <1>6 DEF part

\* The fields of a document that hold amounts.
LEMMA MappedAmounts ==
  ASSUME NEW inv \in StripeInvoices, NEW opts \in Options
  PROVE  LET d == MapInvoice(inv, opts)
             D == DOMAIN inv.lines
         IN  /\ opts.rate \in Rate
             /\ D = DOMAIN d.lines /\ Len(d.lines) = Len(inv.lines)
             /\ \A i \in D : /\ d.lines[i].rate = Share(inv, i)
                             /\ d.lines[i].amounts = Amounts(LineNet(inv)[i], LineVat(inv)[i],
                                                             inv.currency, opts.rate)
             /\ d.summary = Summary(inv, opts.rate)
             /\ d.total = Amounts(NetOf(inv, D), VatOf(inv, D), inv.currency, opts.rate)
             /\ NetOf(inv, D) \in Int /\ VatOf(inv, D) \in Int
<1> DEFINE d == MapInvoice(inv, opts)
           D == DOMAIN inv.lines
<1>1. opts.rate \in Rate
  BY DEF Options
<1>2. d.lines = [i \in D |-> ReportedLine(inv, i, opts)] /\ d.summary = Summary(inv, opts.rate)
  BY DEF MapInvoice
<1>3. D = 1..Len(inv.lines) /\ Len(inv.lines) \in Nat
  BY InvoiceLines
<1>4. D = DOMAIN d.lines /\ Len(d.lines) = Len(inv.lines)
  <2> HIDE DEF d
  <2>1. d.lines \in Seq({d.lines[i] : i \in 1..Len(inv.lines)})
    BY <1>2, <1>3, SeqDef
  <2> QED
    BY <1>2, <1>3, <2>1
<1>5. ASSUME NEW i \in D
      PROVE  /\ d.lines[i].rate = Share(inv, i)
             /\ d.lines[i].amounts = Amounts(LineNet(inv)[i], LineVat(inv)[i], inv.currency, opts.rate)
  <2>1. d.lines[i] = ReportedLine(inv, i, opts)
    BY <1>2
  <2>2. LineNet(inv)[i] = Net(inv.lines[i]) /\ LineVat(inv)[i] = Vat(inv.lines[i])
    BY DEF LineNet, LineVat
  <2> QED
    BY <2>1, <2>2 DEF ReportedLine, Share
<1>6. d.total = Together(inv, D, opts.rate)
  BY DEF MapInvoice
<1>7. D \in SUBSET DOMAIN inv.lines
  OBVIOUS
<1>8. /\ d.total = Amounts(NetOf(inv, D), VatOf(inv, D), inv.currency, opts.rate)
      /\ NetOf(inv, D) \in Int /\ VatOf(inv, D) \in Int
  BY <1>6, <1>7, TogetherIs
<1> QED
  BY <1>1, <1>2, <1>4, <1>5, <1>8

LEMMA LinesAddUp ==
  ASSUME NEW inv \in StripeInvoices, NEW opts \in Options, NEW d, d = MapInvoice(inv, opts)
  PROVE  MakeUp(d.total, [i \in DOMAIN d.lines |-> d.lines[i].amounts])
<1> DEFINE D == DOMAIN inv.lines
           n == LineNet(inv)
           v == LineVat(inv)
           A == [i \in DOMAIN d.lines |-> d.lines[i].amounts]
           total == d.total
<1>1. /\ IsFiniteSet(D) /\ D = DOMAIN d.lines
      /\ \A i \in D : n[i] \in Int /\ v[i] \in Int
  BY InvoiceLines, MappedAmounts
<1>2. /\ opts.rate \in Rate
      /\ \A i \in D : d.lines[i].amounts = Amounts(n[i], v[i], inv.currency, opts.rate)
      /\ total = Amounts(SumFunctionOnSet(n, D), SumFunctionOnSet(v, D), inv.currency, opts.rate)
  BY MappedAmounts DEF NetOf, VatOf
<1>3. D = DOMAIN A /\ \A i \in D : A[i] = Amounts(n[i], v[i], inv.currency, opts.rate)
  BY <1>1, <1>2
<1> HIDE DEF D, n, v, A, total
<1>4. MakeUp(total, A)
  BY <1>1, <1>2, <1>3, PartsMakeWhole
<1> QED
  BY <1>4 DEF A, total

LEMMA RowsAddUp ==
  ASSUME NEW inv \in StripeInvoices, NEW opts \in Options, NEW d, d = MapInvoice(inv, opts)
  PROVE  MakeUp(d.total, [r \in d.summary |-> r.amounts])
<1> DEFINE S == d.summary
           part(r) == {i \in DOMAIN inv.lines : Share(inv, i) = r.rate}
           n == [r \in S |-> NetOf(inv, part(r))]
           v == [r \in S |-> VatOf(inv, part(r))]
           A == [r \in S |-> r.amounts]
           total == d.total
<1>1. opts.rate \in Rate /\ S = Summary(inv, opts.rate) /\ IsFiniteSet(S)
  BY MappedAmounts, SummaryRows
<1>2. \A r \in S : /\ NetOf(inv, part(r)) \in Int /\ VatOf(inv, part(r)) \in Int
                   /\ r.amounts = Amounts(NetOf(inv, part(r)), VatOf(inv, part(r)), inv.currency, opts.rate)
  BY <1>1, RowIs
<1>3. /\ S = DOMAIN A
      /\ \A r \in S : n[r] \in Int /\ v[r] \in Int /\ A[r] = Amounts(n[r], v[r], inv.currency, opts.rate)
  BY <1>2
<1>4. /\ SumFunctionOnSet(n, S) = NetOf(inv, DOMAIN inv.lines)
      /\ SumFunctionOnSet(v, S) = VatOf(inv, DOMAIN inv.lines)
  BY <1>1, SummarySums
<1>5. total = Amounts(SumFunctionOnSet(n, S), SumFunctionOnSet(v, S), inv.currency, opts.rate)
  BY <1>4, MappedAmounts
<1> HIDE DEF S, n, v, A, total
<1>6. MakeUp(total, A)
  BY <1>1, <1>3, <1>5, PartsMakeWhole
<1> QED
  BY <1>6 DEF S, A, total

LEMMA DocumentAddsUp ==
  ASSUME NEW inv \in StripeInvoices, NEW opts \in Options, NEW d, d = MapInvoice(inv, opts)
  PROVE  AddsUp(d)
<1> DEFINE Sums(a) == a.fc.net + a.fc.vat = a.fc.gross /\ a.huf.net + a.huf.vat = a.huf.gross
           cur == inv.currency
           rate == opts.rate
<1>1. rate \in Rate
  BY MappedAmounts
<1>2. ASSUME NEW net \in Int, NEW vat \in Int PROVE Sums(Amounts(net, vat, cur, rate))
  BY <1>1, AmountsAre
<1> HIDE DEF cur, rate, Sums
<1>3. ASSUME NEW i \in DOMAIN d.lines PROVE Sums(d.lines[i].amounts)
  <2>1. i \in DOMAIN inv.lines
    BY MappedAmounts
  <2>2. LineNet(inv)[i] \in Int /\ LineVat(inv)[i] \in Int
    BY <2>1, InvoiceLines
  <2>3. d.lines[i].amounts = Amounts(LineNet(inv)[i], LineVat(inv)[i], cur, rate)
    BY <2>1, MappedAmounts DEF cur, rate
  <2> QED
    BY <1>2, <2>2, <2>3
<1>4. d.summary = Summary(inv, rate)
  BY MappedAmounts DEF rate
<1>5. ASSUME NEW r \in d.summary PROVE Sums(r.amounts)
  <2> DEFINE part == {i \in DOMAIN inv.lines : Share(inv, i) = r.rate}
  <2>1. /\ NetOf(inv, part) \in Int /\ VatOf(inv, part) \in Int
        /\ r.amounts = Amounts(NetOf(inv, part), VatOf(inv, part), cur, rate)
    BY <1>1, <1>4, RowIs DEF cur
  <2> HIDE DEF part
  <2> QED
    BY <1>2, <2>1
<1>6. Sums(d.total)
  <2> DEFINE D == DOMAIN inv.lines
  <2>1. /\ NetOf(inv, D) \in Int /\ VatOf(inv, D) \in Int
        /\ d.total = Amounts(NetOf(inv, D), VatOf(inv, D), cur, rate)
    BY MappedAmounts DEF cur, rate
  <2> QED
    BY <1>2, <2>1
<1>7. \A a \in Shown(d) : Sums(a)
  BY <1>3, <1>5, <1>6 DEF Shown
<1> QED
  BY <1>7, LinesAddUp, RowsAddUp, Zenon DEF AddsUp, Sums
-----------------------------------------------------------------------------
(* A storno's lines and amounts.                                           *)

\* A storno is an invoice with the same lines, negated.
LEMMA StornoLines ==
  ASSUME NEW inv \in StripeInvoices, NEW now \in Times
  PROVE  LET s == AsStorno(inv, now)
             D == DOMAIN inv.lines
         IN  /\ s \in StripeInvoices
             /\ s.currency = inv.currency /\ s.hasMore = inv.hasMore
             /\ DOMAIN s.lines = D /\ Len(s.lines) = Len(inv.lines)
             /\ \A k \in D : s.lines[k] = Negated(inv.lines[k])
             /\ \A k \in D : /\ LineNet(s)[k] = -LineNet(inv)[k]
                             /\ LineVat(s)[k] = -LineVat(inv)[k]
                             /\ Share(s, k) = Share(inv, k)
             /\ \A part \in SUBSET D : /\ NetOf(s, part) = -NetOf(inv, part)
                                       /\ VatOf(s, part) = -VatOf(inv, part)
<1> DEFINE s == AsStorno(inv, now)
           D == DOMAIN inv.lines
<1>1. s \in StripeInvoices
  BY AsStornoType
<1>2. s.currency = inv.currency /\ s.hasMore = inv.hasMore
  BY DEF AsStorno, StripeInvoices
<1>3. s.lines = [i \in D |-> Negated(inv.lines[i])]
  BY DEF AsStorno, StripeInvoices
<1>4. Len(s.lines) = Len(inv.lines)
  BY StornoLength
<1> HIDE DEF s
<1>5. DOMAIN s.lines = D /\ \A k \in D : s.lines[k] = Negated(inv.lines[k])
  BY <1>3
<1>6. \A k \in D : /\ LineNet(s)[k] = -LineNet(inv)[k]
                   /\ LineVat(s)[k] = -LineVat(inv)[k]
                   /\ Share(s, k) = Share(inv, k)
  BY <1>5, InvoiceLines, NegatedAmounts DEF LineNet, LineVat, Share
<1>7. ASSUME NEW part \in SUBSET D
      PROVE  NetOf(s, part) = -NetOf(inv, part) /\ VatOf(s, part) = -VatOf(inv, part)
  <2> DEFINE n == LineNet(inv)
             v == LineVat(inv)
             sn == LineNet(s)
             sv == LineVat(s)
  <2>1. IsFiniteSet(part)
    BY InvoiceLines, FS_Subset
  <2>2. /\ \A k \in part : n[k] \in Int /\ sn[k] = -n[k]
        /\ \A k \in part : v[k] \in Int /\ sv[k] = -v[k]
    BY <1>6, InvoiceLines
  <2> HIDE DEF n, v, sn, sv
  <2>3. /\ SumFunctionOnSet(sn, part) = -SumFunctionOnSet(n, part)
        /\ SumFunctionOnSet(sv, part) = -SumFunctionOnSet(v, part)
    BY <2>1, <2>2, SumNegated
  <2> QED
    BY <2>3 DEF NetOf, VatOf, n, v, sn, sv
<1> QED
  BY <1>1, <1>2, <1>4, <1>5, <1>6, <1>7 DEF s

LEMMA StornoOfDocument ==
  ASSUME NEW inv \in StripeInvoices, NEW now \in Times, NEW o \in Options, NEW so \in Options,
         NEW currencies,
         currencies = {"fc"} \/ (currencies = {"fc", "huf"} /\ SameRate(o.rate, so.rate))
  PROVE  Cancels(MapInvoice(AsStorno(inv, now), so), MapInvoice(inv, o), currencies)
<1> DEFINE sinv == AsStorno(inv, now)
           d == MapInvoice(inv, o)
           s == MapInvoice(sinv, so)
           D == DOMAIN inv.lines
           cur == inv.currency
           r == o.rate
           sr == so.rate
<1>1. /\ sinv \in StripeInvoices /\ sinv.currency = cur
      /\ DOMAIN sinv.lines = D /\ Len(sinv.lines) = Len(inv.lines)
      /\ \A k \in D : /\ LineNet(sinv)[k] = -LineNet(inv)[k]
                      /\ LineVat(sinv)[k] = -LineVat(inv)[k]
                      /\ Share(sinv, k) = Share(inv, k)
      /\ \A part \in SUBSET D : /\ NetOf(sinv, part) = -NetOf(inv, part)
                                /\ VatOf(sinv, part) = -VatOf(inv, part)
  BY StornoLines
<1> HIDE DEF sinv
<1>2. /\ r \in Rate /\ D = DOMAIN d.lines /\ Len(d.lines) = Len(inv.lines)
      /\ \A k \in D : /\ d.lines[k].rate = Share(inv, k)
                      /\ d.lines[k].amounts = Amounts(LineNet(inv)[k], LineVat(inv)[k], cur, r)
      /\ d.summary = Summary(inv, r)
      /\ d.total = Amounts(NetOf(inv, D), VatOf(inv, D), cur, r)
      /\ NetOf(inv, D) \in Int /\ VatOf(inv, D) \in Int
  BY MappedAmounts
<1>3. /\ sr \in Rate /\ Len(s.lines) = Len(inv.lines)
      /\ \A k \in D : /\ s.lines[k].rate = Share(inv, k)
                      /\ s.lines[k].amounts = Amounts(-LineNet(inv)[k], -LineVat(inv)[k], cur, sr)
      /\ s.summary = Summary(sinv, sr)
      /\ s.total = Amounts(-NetOf(inv, D), -VatOf(inv, D), cur, sr)
  <2>1. D \in SUBSET D
    OBVIOUS
  <2> QED
    BY <1>1, <2>1, MappedAmounts
<1> HIDE DEF d, s, r, sr
<1>4. ASSUME NEW net \in Int, NEW vat \in Int
      PROVE  Opposite(Amounts(-net, -vat, cur, sr), Amounts(net, vat, cur, r), currencies)
  BY <1>2, <1>3, StornoAmounts DEF r, sr
<1> HIDE DEF cur
<1>5. Opposite(s.total, d.total, currencies)
  BY <1>2, <1>3, <1>4
<1>6. ASSUME NEW k \in D
      PROVE  Opposite(s.lines[k].amounts, d.lines[k].amounts, currencies) /\ s.lines[k].rate = d.lines[k].rate
  <2>1. LineNet(inv)[k] \in Int /\ LineVat(inv)[k] \in Int
    BY InvoiceLines
  <2> QED
    BY <1>2, <1>3, <1>4, <2>1
<1>7. ASSUME NEW row \in d.summary
      PROVE  \E q \in s.summary : q.rate = row.rate /\ Opposite(q.amounts, row.amounts, currencies)
  <2> DEFINE p == row.rate
             part == {i \in D : Share(inv, i) = p}
             q == Row(sinv, p, sr)
  <2>1. /\ NetOf(inv, part) \in Int /\ VatOf(inv, part) \in Int
        /\ row = Row(inv, p, r)
        /\ row.amounts = Amounts(NetOf(inv, part), VatOf(inv, part), cur, r)
    BY <1>2, RowIs DEF cur
  <2>2. PICK i \in D : row = Row(inv, Share(inv, i), r)
    BY <1>2, SummaryRows
  <2>3. p = Share(sinv, i) /\ i \in DOMAIN sinv.lines
    BY <1>1, <2>2 DEF Row
  <2>4. q \in s.summary
    BY <1>1, <1>3, <2>3, SummaryRows
  <2>5. {j \in DOMAIN sinv.lines : Share(sinv, j) = p} = part
    BY <1>1
  <2>6. q.rate = p /\ q.amounts = Together(sinv, part, sr)
    BY <2>5 DEF Row
  <2>7. part \in SUBSET D
    OBVIOUS
  <2> HIDE DEF part, q
  <2>8. q.amounts = Amounts(NetOf(sinv, part), VatOf(sinv, part), sinv.currency, sr)
    BY <1>1, <2>6, <2>7, TogetherIs
  <2>9. q.amounts = Amounts(-NetOf(inv, part), -VatOf(inv, part), cur, sr)
    BY <1>1, <2>7, <2>8
  <2>10. Opposite(q.amounts, row.amounts, currencies)
    BY <1>4, <2>1, <2>9
  <2> QED
    BY <2>4, <2>6, <2>10
<1>8. Cancels(s, d, currencies)
  BY <1>2, <1>3, <1>5, <1>6, <1>7 DEF Cancels
<1> QED
  BY <1>8 DEF s, d, sinv
-----------------------------------------------------------------------------
(* The type of a document.                                                 *)

LEMMA LineType ==
  ASSUME NEW inv \in StripeInvoices, NEW opts \in Options, NEW i \in DOMAIN inv.lines
  PROVE  ReportedLine(inv, i, opts) \in
           [number : Nat \ {0}, amounts : Both, unit : Int, unitHUF : Int, rate : Percentages, position : Nat]
<1> DEFINE l == inv.lines[i]
           q == IF l.quantity > 1 THEN l.quantity ELSE 1
           d == q * MinorScale(inv.currency) * opts.rate.den
<1>1. l \in LineItems /\ i \in Nat \ {0} /\ Len(inv.lines) \in Nat
  BY InvoiceLines
<1>2. Net(l) \in Int /\ Vat(l) \in Int /\ VatPercentage(l) \in Percentages /\ l.quantity \in Int
  BY <1>1, LineAmounts DEF LineItems
<1>3. /\ opts.rate \in Rate /\ opts.rate.num \in Int /\ opts.rate.den \in Nat \ {0}
      /\ opts.originalLineCount \in Nat
  BY DEF Options, Rate
<1>4. q \in Nat \ {0}
  BY <1>2
<1>5. MinorScale(inv.currency) \in Nat \ {0}
  BY DEF MinorScale
<1>6. ReportedLine(inv, i, opts) =
        [number |-> i, amounts |-> Amounts(Net(l), Vat(l), inv.currency, opts.rate),
         unit |-> Rounded(Net(l), q), unitHUF |-> Rounded(Net(l) * opts.rate.num, d),
         rate |-> VatPercentage(l), position |-> Position(i, Len(inv.lines), opts)]
  BY DEF ReportedLine
<1> HIDE DEF l, q
<1>7. d \in Nat \ {0}
  <2>1. q * MinorScale(inv.currency) \in Nat \ {0}
    BY <1>4, <1>5
  <2> QED
    BY <1>3, <2>1
<1> HIDE DEF d
<1>8. Rounded(Net(l), q) \in Int /\ Rounded(Net(l) * opts.rate.num, d) \in Int
  <2>1. Net(l) * opts.rate.num \in Int
    BY <1>2, <1>3
  <2> QED
    BY <1>2, <1>4, <1>7, <2>1, RoundedIsOdd
<1>9. Amounts(Net(l), Vat(l), inv.currency, opts.rate) \in Both
  BY <1>2, <1>3, AmountsAre
<1>10. Position(i, Len(inv.lines), opts) \in Nat
  BY <1>1, <1>3 DEF Position
<1> QED
  BY <1>1, <1>2, <1>6, <1>8, <1>9, <1>10

LEMMA RangeOfTyped ==
  ASSUME NEW S, NEW s \in Seq(S)
  PROVE  Range(s) \subseteq S
<1>1. \A i \in DOMAIN s : s[i] \in S
  OBVIOUS
<1> QED
  BY <1>1 DEF Range

\* The first id of a kind is one of the list.
LEMMA FirstOfKind ==
  ASSUME NEW ids \in Seq(TaxIds), NEW kind,
         NEW S, S = {i \in DOMAIN ids : ids[i].kind = kind}, S # {}
  PROVE  Min(S) \in S
<1> DEFINE D == 1..Len(ids)
           Good == {T \in SUBSET D : T = {} \/ \E m \in T : \A n \in T : m <= n}
<1>1. Len(ids) \in Nat /\ S \in SUBSET D /\ D \subseteq Nat
  OBVIOUS
<1>2. IsFiniteSet(D)
  BY <1>1, FS_Interval
<1> HIDE DEF D
<1>3. ASSUME NEW T \in SUBSET D, \A U \in SUBSET T : U # T => U \in Good
      PROVE  T \in Good
  <2>1. CASE T = {}
    BY <2>1
  <2>2. CASE T # {}
    <3>1. PICK x \in T : TRUE
      BY <2>2
    <3>2. T \ {x} \in Good
      BY <1>3, <3>1
    <3>3. CASE T \ {x} = {}
      <4>1. T = {x} /\ x \in Nat
        BY <1>1, <3>1, <3>3
      <4> QED
        BY <4>1
    <3>4. CASE T \ {x} # {}
      <4>1. PICK m \in T \ {x} : \A n \in T \ {x} : m <= n
        BY <3>2, <3>4
      <4>2. m \in Nat /\ x \in Nat /\ \A n \in T : n \in Nat
        BY <1>1, <3>1, <4>1
      <4>3. (\A n \in T : m <= n) \/ (\A n \in T : x <= n)
        BY <4>1, <4>2
      <4> QED
        BY <3>1, <4>1, <4>3
    <3> QED
      BY <3>3, <3>4
  <2> QED
    BY <2>1, <2>2
<1> HIDE DEF Good
<1>4. \A T \in SUBSET D : T \in Good
  BY <1>2, <1>3, FiniteInduction
<1>5. PICK m \in S : \A n \in S : m <= n
  BY <1>1, <1>4 DEF Good
<1> QED
  BY <1>5 DEF Min

\* How a customer with the given ids is classified.
LEMMA Classified ==
  ASSUME NEW ids \in Seq(TaxIds), NEW b
  PROVE  LET c == ClassifyCustomer(ids, b)
         IN  /\ c.status \in {"DOMESTIC", "OTHER", "PRIVATE_PERSON"}
             /\ c.vat \in Range(ids) \cup {NoVat}
             /\ \A id \in Range(ids) : Specificity(id.kind) <= Specificity(c.vat.kind)
             /\ c.status = "DOMESTIC" <=> c.vat.kind = "hungarian"
             /\ c.status = "PRIVATE_PERSON" => c.vat = NoVat
<1> DEFINE Of(kind) == {i \in DOMAIN ids : ids[i].kind = kind}
           c == ClassifyCustomer(ids, b)
<1>1. ASSUME NEW kind, Of(kind) # {}
      PROVE  ids[Min(Of(kind))] \in Range(ids) /\ ids[Min(Of(kind))].kind = kind
  <2>1. Min(Of(kind)) \in Of(kind)
    BY <1>1, FirstOfKind
  <2> QED
    BY <2>1 DEF Range
<1>2. c = IF Of("hungarian") # {} THEN [status |-> "DOMESTIC", vat |-> ids[Min(Of("hungarian"))]]
          ELSE IF Of("community") # {} THEN [status |-> "OTHER", vat |-> ids[Min(Of("community"))]]
          ELSE IF Of("third") # {} THEN [status |-> "OTHER", vat |-> ids[Min(Of("third"))]]
          ELSE [status |-> IF b THEN "OTHER" ELSE "PRIVATE_PERSON", vat |-> NoVat]
  BY DEF ClassifyCustomer
<1>3. ASSUME NEW id \in Range(ids)
      PROVE  /\ id.kind = "hungarian" => Of("hungarian") # {}
             /\ id.kind = "community" => Of("community") # {}
             /\ id.kind = "third" => Of("third") # {}
  BY DEF Range
<1> HIDE DEF Of, c
<1>4. CASE Of("hungarian") # {}
  <2>1. c.status = "DOMESTIC" /\ c.vat \in Range(ids) /\ c.vat.kind = "hungarian"
    BY <1>1, <1>2, <1>4
  <2> QED
    BY <2>1 DEF Specificity, c
<1>5. CASE Of("hungarian") = {} /\ Of("community") # {}
  <2>1. c.status = "OTHER" /\ c.vat \in Range(ids) /\ c.vat.kind = "community"
    BY <1>1, <1>2, <1>5
  <2> QED
    BY <1>3, <1>5, <2>1 DEF Specificity, c
<1>6. CASE Of("hungarian") = {} /\ Of("community") = {} /\ Of("third") # {}
  <2>1. c.status = "OTHER" /\ c.vat \in Range(ids) /\ c.vat.kind = "third"
    BY <1>1, <1>2, <1>6
  <2> QED
    BY <1>3, <1>6, <2>1 DEF Specificity, c
<1>7. CASE Of("hungarian") = {} /\ Of("community") = {} /\ Of("third") = {}
  <2>1. c.status \in {"OTHER", "PRIVATE_PERSON"} /\ c.vat = NoVat
    BY <1>2, <1>7
  <2>2. \A id \in Range(ids) : Specificity(id.kind) = 0
    BY <1>3, <1>7 DEF Specificity
  <2>3. c.vat.kind = "none" /\ Specificity(c.vat.kind) = 0
    <3>1. NoVat.kind = "none"
      BY DEF NoVat
    <3>2. Specificity("none") = 0
      BY DEF Specificity
    <3> QED
      BY <2>1, <3>1, <3>2
  <2> QED
    BY <2>1, <2>2, <2>3 DEF c
<1> QED
  BY <1>4, <1>5, <1>6, <1>7

CustomerKinds ==
  [status : {"DOMESTIC", "OTHER", "PRIVATE_PERSON"},
   vat : TaxIds \cup {NoVat}, name : {"", "person", "company"}]

LEMMA CustomerType ==
  ASSUME NEW inv \in StripeInvoices
  PROVE  Customer(inv) \in CustomerKinds
<1> DEFINE ids == inv.taxIds
           class == ClassifyCustomer(ids, inv.name # "" /\ (ids # <<>> \/ inv.name = "company"))
<1>1. inv.name \in {"", "person", "company"} /\ ids \in Seq(TaxIds)
  BY DEF StripeInvoices
<1>2. /\ class.status \in {"DOMESTIC", "OTHER", "PRIVATE_PERSON"}
      /\ class.vat \in Range(ids) \cup {NoVat}
  BY <1>1, Classified
<1>3. Customer(inv) = [status |-> class.status, vat |-> class.vat,
                       name |-> IF class.status = "PRIVATE_PERSON" THEN "" ELSE inv.name]
  BY DEF Customer
<1>4. Range(ids) \subseteq TaxIds
  BY <1>1, RangeOfTyped
<1> HIDE DEF class, ids
<1>5. class.vat \in TaxIds \cup {NoVat}
  BY <1>2, <1>4
<1>6. (IF class.status = "PRIVATE_PERSON" THEN "" ELSE inv.name) \in {"", "person", "company"}
  BY <1>1
<1> DEFINE status == class.status
           vat == class.vat
           name == IF class.status = "PRIVATE_PERSON" THEN "" ELSE inv.name
<1>7. /\ status \in {"DOMESTIC", "OTHER", "PRIVATE_PERSON"}
      /\ vat \in TaxIds \cup {NoVat} /\ name \in {"", "person", "company"}
      /\ Customer(inv) = [status |-> status, vat |-> vat, name |-> name]
  BY <1>2, <1>3, <1>5, <1>6
<1> HIDE DEF status, vat, name
<1>8. [status |-> status, vat |-> vat, name |-> name] \in CustomerKinds
  BY <1>7 DEF CustomerKinds
<1> QED
  BY <1>7, <1>8

LEMMA DocumentType ==
  ASSUME NEW inv \in StripeInvoices, NEW opts \in Options, Mappable(inv, opts)
  PROVE  LET d == MapInvoice(inv, opts)
         IN  /\ d \in Documents
             /\ d.operation # "CREATE" => d.original # NoNumber /\ d.index >= 1
<1> DEFINE d == MapInvoice(inv, opts)
           L == [number : Nat \ {0}, amounts : Both, unit : Int, unitHUF : Int, rate : Percentages, position : Nat]
           lines == [i \in DOMAIN inv.lines |-> ReportedLine(inv, i, opts)]
<1>1. /\ opts.operation \in {"CREATE", "MODIFY", "STORNO"}
      /\ opts.original \in Numbers \cup {NoNumber}
      /\ opts.index \in Nat /\ opts.parent \in Nat /\ opts.rate \in Rate
  BY DEF Options
<1>2. inv.number \in Numbers /\ inv.currency \in STRING /\ LocalDate(IssueDate(inv)) \in Nat
  BY IssueDates DEF StripeInvoices, Mappable
<1>3. lines \in Seq(L)
  <2>1. DOMAIN inv.lines = 1..Len(inv.lines) /\ Len(inv.lines) \in Nat
    BY InvoiceLines
  <2>2. \A i \in DOMAIN inv.lines : ReportedLine(inv, i, opts) \in L
    BY LineType
  <2> HIDE DEF L
  <2>3. lines \in [1..Len(inv.lines) -> L]
    BY <2>1, <2>2
  <2> QED
    BY <2>1, <2>3, SeqDef
<1>4. Rendered(opts.rate) \in [num : Nat, den : {RateScale}]
  BY <1>1, RenderedRate
<1>5. Summary(inv, opts.rate) \in SUBSET [rate : Percentages, amounts : Both]
  <2>1. ASSUME NEW r \in Summary(inv, opts.rate) PROVE r \in [rate : Percentages, amounts : Both]
    <3> DEFINE part == {i \in DOMAIN inv.lines : Share(inv, i) = r.rate}
    <3>1. /\ r = Row(inv, r.rate, opts.rate) /\ r.rate \in Percentages
          /\ NetOf(inv, part) \in Int /\ VatOf(inv, part) \in Int
          /\ r.amounts = Amounts(NetOf(inv, part), VatOf(inv, part), inv.currency, opts.rate)
      BY <1>1, RowIs
    <3> HIDE DEF part
    <3>2. r.amounts \in Both
      BY <1>1, <3>1, AmountsAre
    <3>3. r = [rate |-> r.rate, amounts |-> r.amounts]
      BY <3>1 DEF Row
    <3> QED
      BY <3>1, <3>2, <3>3
  <2> QED
    BY <2>1
<1>6. Together(inv, DOMAIN inv.lines, opts.rate) \in Both
  <2> DEFINE D == DOMAIN inv.lines
  <2>1. /\ D \in SUBSET DOMAIN inv.lines
    OBVIOUS
  <2> HIDE DEF D
  <2>2. /\ NetOf(inv, D) \in Int /\ VatOf(inv, D) \in Int
        /\ Together(inv, D, opts.rate) = Amounts(NetOf(inv, D), VatOf(inv, D), inv.currency, opts.rate)
    BY <2>1, TogetherIs
  <2>3. Together(inv, D, opts.rate) \in Both
    BY <1>1, <2>2, AmountsAre
  <2> QED
    BY <2>3 DEF D
<1>7. Customer(inv) \in CustomerKinds
  BY CustomerType
<1> DEFINE index == IF opts.operation = "CREATE" THEN 0 ELSE ModificationIndex(opts)
<1>8. index \in Nat /\ (opts.operation # "CREATE" => index >= 1)
  BY <1>1 DEF ModificationIndex
<1>9. d = [operation |-> opts.operation, number |-> inv.number, parent |-> opts.parent,
           issued |-> LocalDate(IssueDate(inv)),
           currency |-> inv.currency, rate |-> Rendered(opts.rate), customer |-> Customer(inv),
           lines |-> lines, summary |-> Summary(inv, opts.rate),
           total |-> Together(inv, DOMAIN inv.lines, opts.rate),
           original |-> opts.original, index |-> index]
  BY DEF MapInvoice
<1> HIDE DEF d, lines, index
<1>10. d \in Documents
  BY <1>1, <1>2, <1>3, <1>4, <1>5, <1>6, <1>7, <1>8, <1>9 DEF Documents, CustomerKinds
<1>11. d.operation # "CREATE" => d.original # NoNumber /\ d.index >= 1
  BY <1>1, <1>8, <1>9 DEF Mappable
<1> QED
  BY <1>10, <1>11 DEF d
-----------------------------------------------------------------------------
(* Customers.                                                              *)

\* How a customer is reported.
LEMMA CustomerOfBestId ==
  ASSUME NEW inv \in StripeInvoices
  PROVE  LET c == Customer(inv)
         IN  /\ \A id \in Range(inv.taxIds) : Specificity(id.kind) <= Specificity(c.vat.kind)
             /\ c.vat \in Range(inv.taxIds) \cup {NoVat}
             /\ c.status = "DOMESTIC" <=> c.vat.kind = "hungarian"
             /\ c.status = "PRIVATE_PERSON" => c.vat = NoVat /\ c.name = ""
<1> DEFINE class == ClassifyCustomer(inv.taxIds,
                      inv.name # "" /\ (inv.taxIds # <<>> \/ inv.name = "company"))
<1>1. inv.taxIds \in Seq(TaxIds)
  BY DEF StripeInvoices
<1>2. /\ \A id \in Range(inv.taxIds) : Specificity(id.kind) <= Specificity(class.vat.kind)
      /\ class.vat \in Range(inv.taxIds) \cup {NoVat}
      /\ class.status = "DOMESTIC" <=> class.vat.kind = "hungarian"
      /\ class.status = "PRIVATE_PERSON" => class.vat = NoVat
  BY <1>1, Classified
<1> DEFINE c == Customer(inv)
<1>3. c = [status |-> class.status, vat |-> class.vat,
           name |-> IF class.status = "PRIVATE_PERSON" THEN "" ELSE inv.name]
  BY DEF Customer
<1> HIDE DEF class, c
<1>4. c.vat = class.vat /\ c.status = class.status
  BY <1>3
<1>5. c.status = "PRIVATE_PERSON" => c.name = ""
  BY <1>3
<1> QED
  BY <1>2, <1>4, <1>5 DEF c

LEMMA SameCustomer ==
  ASSUME NEW a, NEW b, a.name = b.name, a.taxIds = b.taxIds
  PROVE  Customer(a) = Customer(b)
BY DEF Customer
=============================================================================
