----------------------------- MODULE RetryProofs ----------------------------
(***************************************************************************)
(* Theorems about Retry for any configuration, any ceiling of powInt that  *)
(* suits it, and any number of attempts and operations.                    *)
(***************************************************************************)
EXTENDS Retry, FiniteSetTheorems, TLAPS

-----------------------------------------------------------------------------
(* Induction, and powers of two.                                           *)

LEMMA InductionOnNat ==
  ASSUME NEW Good, 0 \in Good, \A n \in Nat : n \in Good => n + 1 \in Good
  PROVE  \A n \in Nat : n \in Good
<1> DEFINE Bad == {1..n : n \in Nat \ Good}
<1>1. Bad \subseteq FiniteSubsetsOf(Nat)
  <2>1. ASSUME NEW n \in Nat PROVE IsFiniteSet(1..n) /\ 1..n \subseteq Nat
    BY FS_Interval
  <2> QED
    BY <2>1 DEF FiniteSubsetsOf
<1>2. ASSUME Bad # {} PROVE FALSE
  <2> HIDE DEF Bad
  <2>1. PICK U \in Bad : \A V \in Bad : ~(<<V, U>> \in StrictSubsetOrdering(Nat))
    BY <1>1, <1>2, WFMin, FS_StrictSubsetOrderingWellFounded
  <2>2. PICK n \in Nat \ Good : U = 1..n
    BY <2>1 DEF Bad
  <2>3. n # 0 /\ n - 1 \in Nat \ Good
    <3>1. n # 0 /\ n - 1 \in Nat
      BY <2>2
    <3> QED
      BY <2>2, <3>1
  <2>4. 1..(n - 1) \in Bad
    BY <2>3 DEF Bad
  <2>5. 1..(n - 1) \subseteq 1..n /\ n \in 1..n /\ n \notin 1..(n - 1)
    BY <2>2, <2>3
  <2>6. <<1..(n - 1), U>> \in StrictSubsetOrdering(Nat)
    BY <2>2, <2>5 DEF StrictSubsetOrdering
  <2> QED
    BY <2>1, <2>4, <2>6
<1> QED
  BY <1>2

LEMMA PowerOfTwo ==
  ASSUME NEW n \in Nat
  PROVE  2^n \in Nat /\ 2^(n + 1) = 2 * 2^n
<1> DEFINE m == n + 1
           A == SUBSET (1..n)
           B == {T \in SUBSET (1..m) : m \in T}
           f == [T \in A |-> T \cup {m}]
<1>1. /\ IsFiniteSet(1..n) /\ Cardinality(1..n) = n
      /\ IsFiniteSet(1..m) /\ Cardinality(1..m) = m
  BY FS_Interval
<1>2. IsFiniteSet(A) /\ Cardinality(A) = 2^n /\ Cardinality(SUBSET (1..m)) = 2^m
  BY <1>1, FS_SUBSET
<1>3. 2^n \in Nat
  BY <1>2, FS_CardinalityType
<1>4. f \in Bijection(A, B)
  <2>1. f \in [A -> B]
    OBVIOUS
  <2>2. \A S, T \in A : f[S] = f[T] => S = T
    OBVIOUS
  <2>3. \A T \in B : T \ {m} \in A /\ f[T \ {m}] = T
    OBVIOUS
  <2> HIDE DEF A, B, f
  <2> QED
    BY <2>1, <2>2, <2>3 DEF Bijection, Injection, Surjection, IsInjective
<1>5. A \cup B = SUBSET (1..m) /\ A \cap B = {}
  <2>1. ASSUME NEW T \in SUBSET (1..m), m \notin T PROVE T \in A
    <3>1. ASSUME NEW x \in T PROVE x \in 1..n
      <4>1. x \in 1..m /\ x # m
        BY <2>1
      <4> QED
        BY <4>1
    <3> QED
      BY <3>1
  <2>2. \A T \in A : T \in SUBSET (1..m) /\ m \notin T
    OBVIOUS
  <2> QED
    BY <2>1, <2>2
<1> HIDE DEF A, B, f, m
<1>6. IsFiniteSet(B) /\ Cardinality(B) = 2^n
  BY <1>2, <1>4, FS_Bijection DEF ExistsBijection
<1>7. Cardinality(A \cup B) = Cardinality(A) + Cardinality(B) - Cardinality({})
  BY <1>2, <1>5, <1>6, FS_Union
<1>8. 2^m = 2^n + 2^n - 0
  BY <1>2, <1>5, <1>6, <1>7, FS_EmptySet
<1>9. 2^m = 2 * 2^n
  BY <1>3, <1>8
<1> QED
  BY <1>3, <1>9 DEF m

LEMMA PowersBegin ==
  ASSUME NEW n
  PROVE  /\ n = 0 => 2^n = 1
         /\ n = 1 => 2^n = 2
<1>1. Cardinality(SUBSET {}) = 2^Cardinality({})
  BY FS_EmptySet, FS_SUBSET
<1>2. SUBSET {} = {{}}
  OBVIOUS
<1>3. ASSUME NEW z, z = 0 PROVE 2^z = 1
  BY <1>1, <1>2, <1>3, FS_EmptySet, FS_Singleton
<1>4. ASSUME n = 1 PROVE 2^n = 2
  <2>1. PICK z \in Nat : z = 0
    OBVIOUS
  <2>2. 2^(z + 1) = 2 * 2^z /\ 2^z = 1 /\ n = z + 1
    BY <1>3, <1>4, <2>1, PowerOfTwo
  <2> QED
    BY <2>2
<1> QED
  BY <1>3, <1>4

LEMMA PowersArePositive == \A n \in Nat : 2^n >= 1
<1> DEFINE Good == {n \in Nat : 2^n >= 1}
<1>1. 0 \in Good
  BY PowersBegin
<1>2. ASSUME NEW n \in Nat, n \in Good PROVE n + 1 \in Good
  BY <1>2, PowerOfTwo
<1> HIDE DEF Good
<1>3. \A n \in Nat : n \in Good
  BY <1>1, <1>2, InductionOnNat
<1> QED
  BY <1>3 DEF Good
-----------------------------------------------------------------------------
(* powInt.                                                                 *)

\* powInt(2, n) ends with the k-th power: it has doubled n times, or it has met
\* a power past the ceiling when it looked, for the first time.
EndsAt(n, k) ==
  /\ k \in 1..n
  /\ k = n \/ (k >= 2 /\ 2^k > Ceiling)
  /\ \A m \in 2..k - 1 : 2^m <= Ceiling

LEMMA EndsOnce ==
  ASSUME NEW n \in Nat, NEW k, NEW l, EndsAt(n, k), EndsAt(n, l)
  PROVE  k = l
<1>1. k \in 1..n /\ l \in 1..n
  BY DEF EndsAt
<1>2. \A m \in 1..n : 2^m \in Nat
  BY PowerOfTwo
<1>3. Ceiling \in Nat
  BY RetryAssumption
<1>4. ~(k < l)
  <2> SUFFICES ASSUME k < l PROVE FALSE
    OBVIOUS
  <2>1. k >= 2 /\ 2^k > Ceiling
    BY <1>1 DEF EndsAt
  <2>2. k \in 2..l - 1
    BY <1>1, <2>1
  <2>3. 2^k <= Ceiling
    BY <2>2 DEF EndsAt
  <2> QED
    BY <1>1, <1>2, <1>3, <2>1, <2>3
<1>5. ~(l < k)
  <2> SUFFICES ASSUME l < k PROVE FALSE
    OBVIOUS
  <2>1. l >= 2 /\ 2^l > Ceiling
    BY <1>1 DEF EndsAt
  <2>2. l \in 2..k - 1
    BY <1>1, <2>1
  <2>3. 2^l <= Ceiling
    BY <2>2 DEF EndsAt
  <2> QED
    BY <1>1, <1>2, <1>3, <2>1, <2>3
<1> QED
  BY <1>1, <1>4, <1>5

LEMMA EndsFirst == EndsAt(1, 1)
BY DEF EndsAt

\* One more doubling asked for: no more are done once the ceiling is passed.
LEMMA EndsNext ==
  ASSUME NEW n \in Nat \ {0}, NEW k, EndsAt(n, k)
  PROVE  /\ n + 1 > 2 /\ 2^k > Ceiling => EndsAt(n + 1, k)
         /\ ~(n + 1 > 2 /\ 2^k > Ceiling) => k = n /\ EndsAt(n + 1, n + 1)
<1>1. k \in 1..n /\ 2^k \in Nat /\ Ceiling \in Nat
  BY RetryAssumption, PowerOfTwo DEF EndsAt
<1>2. ASSUME n + 1 > 2, 2^k > Ceiling PROVE EndsAt(n + 1, k)
  BY <1>1, <1>2 DEF EndsAt
<1>3. ASSUME ~(n + 1 > 2 /\ 2^k > Ceiling) PROVE k = n /\ EndsAt(n + 1, n + 1)
  <2>1. k = n
    BY <1>1, <1>3 DEF EndsAt
  <2>2. ASSUME NEW m \in 2..(n + 1) - 1 PROVE 2^m <= Ceiling
    <3>1. CASE m = k
      BY <1>1, <1>3, <2>1, <3>1
    <3>2. CASE m # k
      <4>1. m \in 2..k - 1
        BY <1>1, <2>1, <3>2
      <4> QED
        BY <4>1 DEF EndsAt
    <3> QED
      BY <3>1, <3>2
  <2> QED
    BY <2>1, <2>2 DEF EndsAt
<1> QED
  BY <1>2, <1>3

LEMMA Ends == \A n \in Nat \ {0} : \E k \in 1..n : EndsAt(n, k)
<1> DEFINE Good == {n \in Nat : n = 0 \/ \E k : EndsAt(n, k)}
<1>1. 0 \in Good
  OBVIOUS
<1>2. ASSUME NEW n \in Nat, n \in Good PROVE n + 1 \in Good
  BY <1>2, EndsFirst, EndsNext
<1> HIDE DEF Good
<1>3. \A n \in Nat : n \in Good
  BY <1>1, <1>2, InductionOnNat
<1> QED
  BY <1>3 DEF Good, EndsAt

\* What the recursive definition of Doublings says.
IsDoublings(g) ==
  g = [n \in Nat \ {0} |->
         IF n = 1 THEN 2 ELSE IF n > 2 /\ g[n - 1] > Ceiling THEN g[n - 1] ELSE 2 * g[n - 1]]

LEMMA DoublingsExist == IsDoublings(Doublings)
<1> DEFINE End(n) == CHOOSE k : EndsAt(n, k)
           g == [n \in Nat \ {0} |-> 2^End(n)]
<1>1. ASSUME NEW n \in Nat \ {0} PROVE EndsAt(n, End(n))
  BY Ends
<1>2. ASSUME NEW n \in Nat \ {0}, NEW k, EndsAt(n, k) PROVE g[n] = 2^k
  <2>1. End(n) = k
    BY <1>1, <1>2, EndsOnce
  <2> QED
    BY <2>1
<1> HIDE DEF g
<1>3. g[1] = 2
  <2>1. PICK n \in Nat \ {0} : n = 1
    OBVIOUS
  <2>2. g[n] = 2^n
    BY <1>2, <2>1, EndsFirst
  <2> QED
    BY <2>1, <2>2, PowersBegin
<1>4. ASSUME NEW n \in Nat \ {0}, n # 1
      PROVE  g[n] = IF n > 2 /\ g[n - 1] > Ceiling THEN g[n - 1] ELSE 2 * g[n - 1]
  <2> DEFINE m == n - 1
  <2>1. m \in Nat \ {0} /\ n = m + 1
    BY <1>4
  <2> HIDE DEF m
  <2>2. PICK k \in 1..m : EndsAt(m, k)
    BY <2>1, Ends
  <2>3. g[m] = 2^k
    BY <1>2, <2>1, <2>2
  <2>4. CASE n > 2 /\ g[m] > Ceiling
    <3>1. EndsAt(n, k)
      BY <2>1, <2>2, <2>3, <2>4, EndsNext
    <3>2. g[n] = 2^k
      BY <1>2, <3>1
    <3> QED
      BY <2>3, <2>4, <3>2 DEF m
  <2>5. CASE ~(n > 2 /\ g[m] > Ceiling)
    <3>1. k = m /\ EndsAt(n, n)
      BY <2>1, <2>2, <2>3, <2>5, EndsNext
    <3>2. g[n] = 2^n
      BY <1>2, <3>1
    <3>3. g[n] = 2 * g[m]
      BY <2>1, <2>3, <3>1, <3>2, PowerOfTwo
    <3> QED
      BY <2>5, <3>3 DEF m
  <2> QED
    BY <2>4, <2>5
<1>5. g = [n \in Nat \ {0} |-> g[n]]
  BY DEF g
<1>6. g = [n \in Nat \ {0} |->
             IF n = 1 THEN 2 ELSE IF n > 2 /\ g[n - 1] > Ceiling THEN g[n - 1] ELSE 2 * g[n - 1]]
  BY <1>3, <1>4, <1>5
<1>7. IsDoublings(g)
  BY <1>6, Zenon DEF IsDoublings
<1>8. Doublings = CHOOSE h : IsDoublings(h)
  BY Zenon DEF Doublings, IsDoublings
<1> QED
  BY <1>7, <1>8

\* The result of powInt: the power asked for, or one past the ceiling and no
\* greater.
LEMMA PowIntResult ==
  ASSUME NEW n \in Nat
  PROVE  /\ PowInt(n) \in Nat /\ PowInt(n) >= 1
         /\ PowInt(n) <= 2^n
         /\ PowInt(n) = 2^n \/ PowInt(n) > Ceiling
<1> DEFINE Right(m) == /\ Doublings[m] \in Nat /\ Doublings[m] >= 1
                       /\ Doublings[m] <= 2^m
                       /\ Doublings[m] = 2^m \/ Doublings[m] > Ceiling
           Good == {m \in Nat : m = 0 \/ Right(m)}
<1>1. 0 \in Good
  OBVIOUS
<1>2. ASSUME NEW m \in Nat, m \in Good PROVE m + 1 \in Good
  <2> DEFINE k == m + 1
  <2>1. CASE m = 0
    <3>1. k = 1 /\ 2^k = 2 /\ Doublings[k] = 2
      BY <2>1, PowersBegin, DoublingsExist DEF IsDoublings
    <3> QED
      BY <3>1
  <2>2. CASE m # 0
    <3>1. k \in Nat \ {0} /\ k # 1 /\ k - 1 = m
      BY <2>2
    <3>2. Right(m)
      BY <1>2, <2>2
    <3>3. 2^m \in Nat /\ 2^k = 2 * 2^m /\ Ceiling \in Nat
      BY PowerOfTwo, RetryAssumption
    <3> HIDE DEF k
    <3>4. Doublings[k] = IF k > 2 /\ Doublings[m] > Ceiling THEN Doublings[m] ELSE 2 * Doublings[m]
      BY <3>1, DoublingsExist DEF IsDoublings
    <3>5. Right(k)
      BY <3>2, <3>3, <3>4
    <3> QED
      BY <3>5 DEF k
  <2> QED
    BY <2>1, <2>2
<1> HIDE DEF Good
<1>3. \A m \in Nat : m \in Good
  BY <1>1, <1>2, InductionOnNat
<1>4. n # 0 => Right(n)
  BY <1>3 DEF Good
<1>5. n = 0 => 2^n = 1 /\ PowInt(n) = 1
  BY PowersBegin DEF PowInt
<1> HIDE DEF Right
<1>6. CASE n = 0
  BY <1>5, <1>6
<1>7. CASE n # 0
  BY <1>4, <1>7 DEF Right, PowInt
<1> QED
  BY <1>6, <1>7
-----------------------------------------------------------------------------
(* backoffFor.                                                             *)

\* The configuration is one for which the ceiling is high enough.
Suits == 8 * config.base * Ceiling >= 10 * config.max

Configuration == [base : Nat \ {0}, max : Nat \ {0}]

LEMMA Delays ==
  ASSUME config \in Configuration, Suits, NEW n \in Nat \ {0}, NEW jitter \in Jitters
  PROVE  LET delay == config.base * 2^(n - 1)
         IN  /\ BackoffFor(n, jitter) \in Nat
             /\ AtMost((8 * delay) \div 10, config.max) \in Nat
             /\ AtMost((12 * delay) \div 10, config.max) \in Nat
             /\ AtMost((8 * delay) \div 10, config.max) <= BackoffFor(n, jitter)
             /\ BackoffFor(n, jitter) <= AtMost((12 * delay) \div 10, config.max)
<1> DEFINE p == PowInt(n - 1)
           w == 2^(n - 1)
           b == config.base
           x == b * p * jitter
           least == 8 * (b * w)
           most == 12 * (b * w)
           xt == x \div 10
           lt == least \div 10
           mt == most \div 10
           cap == config.max
<1>1. n - 1 \in Nat
  OBVIOUS
<1>2. BackoffFor(n, jitter) = AtMost(xt, cap)
  BY DEF BackoffFor
<1>3. /\ b \in Nat \ {0} /\ cap \in Nat /\ Ceiling \in Nat
      /\ jitter \in Nat /\ jitter >= 8 /\ jitter <= 12
  BY RetryAssumption DEF Configuration, Jitters
<1>4. p \in Nat /\ p <= w /\ w \in Nat /\ (p = w \/ p > Ceiling)
  BY <1>1, PowIntResult, PowerOfTwo
<1>5. 8 * b * Ceiling >= 10 * cap
  BY DEF Suits
<1> HIDE DEF p, w, b, cap
<1>6. b * p \in Nat /\ b * w \in Nat /\ b * p <= b * w /\ b * Ceiling \in Nat
  BY <1>3, <1>4
<1>7. (b * p) * jitter \in Nat /\ (b * p) * jitter <= 12 * (b * p) /\ 8 * (b * p) <= (b * p) * jitter
  BY <1>3, <1>6
<1>8. x \in Nat /\ least \in Nat /\ most \in Nat /\ x <= most
  BY <1>6, <1>7
<1>9. least <= x \/ 10 * cap <= x
  <2>1. CASE p = w
    BY <1>7, <2>1
  <2>2. CASE p > Ceiling
    <3>1. b * Ceiling <= b * p
      BY <1>3, <1>4, <2>2
    <3>2. 8 * b * Ceiling = 8 * (b * Ceiling)
      BY <1>3
    <3> QED
      BY <1>3, <1>5, <1>6, <1>7, <3>1, <3>2
  <2> QED
    BY <1>4, <2>1, <2>2
<1> HIDE DEF x, least, most
<1>10. xt \in Nat /\ lt \in Nat /\ mt \in Nat /\ xt <= mt /\ (lt <= xt \/ cap <= xt)
  BY <1>3, <1>8, <1>9
<1> HIDE DEF xt, lt, mt
<1>11. /\ AtMost(xt, cap) \in Nat /\ AtMost(lt, cap) \in Nat /\ AtMost(mt, cap) \in Nat
       /\ AtMost(lt, cap) <= AtMost(xt, cap) /\ AtMost(xt, cap) <= AtMost(mt, cap)
  BY <1>3, <1>10 DEF AtMost
<1> QED
  BY <1>2, <1>11 DEF xt, lt, mt, least, most, w, b, cap

\* The least delay after one more failure is no less than the greatest before.
LEMMA DelaysGrow ==
  ASSUME config \in Configuration, NEW n \in Nat \ {0}
  PROVE  AtMost((12 * (config.base * 2^(n - 1))) \div 10, config.max)
           <= AtMost((8 * (config.base * 2^n)) \div 10, config.max)
<1> DEFINE m == n - 1
           w == 2^m
           b == config.base
           cap == config.max
           before == 12 * (b * w)
           after == 8 * (b * 2^n)
           bt == before \div 10
           at == after \div 10
<1>1. m \in Nat /\ n = m + 1
  OBVIOUS
<1> HIDE DEF m
<1>2. w \in Nat /\ 2^n = 2 * w
  BY <1>1, PowerOfTwo
<1>3. b \in Nat /\ cap \in Nat
  BY DEF Configuration
<1> HIDE DEF w, b, cap
<1>4. b * w \in Nat /\ b * (2 * w) = 2 * (b * w)
  BY <1>2, <1>3
<1>5. before \in Nat /\ after \in Nat /\ before <= after
  BY <1>2, <1>4
<1> HIDE DEF before, after
<1>6. bt \in Nat /\ at \in Nat /\ bt <= at
  BY <1>5
<1> HIDE DEF bt, at
<1>7. AtMost(bt, cap) <= AtMost(at, cap)
  BY <1>3, <1>6 DEF AtMost
<1> QED
  BY <1>7 DEF m, w, b, cap, before, after, bt, at
-----------------------------------------------------------------------------
(* The row.                                                                *)

\* The greatest delay there can be after n attempts.
Longest(n) == AtMost((12 * (config.base * 2^(n - 1))) \div 10, config.max)

\* The last failure came at one of the attempts counted, and before any other.
Bounded == IF attempts = 0 THEN failed = 0 ELSE failed <= Longest(attempts)

IInv == TypeOK /\ Suits /\ Bounded

LEMMA ConfiguredType ==
  ASSUME NEW c \in Configs
  PROVE  Configured(c) \in Configuration
BY RetryAssumption DEF Configured, Configuration

\* NAV moves only what is pending on.
LEMMA ProgressSteps ==
  ASSUME NEW step \in Progress
  PROVE  step[2] \in Pending \cup Final /\ step[1] \notin {"FINISHED", "DONE"}
<1>1. PICK from, to : step = <<from, to>> /\ <<from, to>> \in Progress
  BY Zenon DEF Progress
<1>2. step[1] = from /\ step[2] = to
  BY <1>1
<1>3. from \in {"RECEIVED", "PROCESSING", "SAVED", ""}
  BY <1>1 DEF Progress
<1>4. to \in {"PROCESSING", "", "SAVED", "ABORTED", "DONE", "FINISHED"}
  BY <1>1 DEF Progress
<1>5. to \in Pending \cup Final
  BY <1>4, Zenon DEF Pending, Final
<1>6. from \notin {"FINISHED", "DONE"}
  BY <1>3
<1> QED
  BY <1>2, <1>5, <1>6

LEMMA InitIInv == Init => IInv
<1> SUFFICES ASSUME Init PROVE IInv
  OBVIOUS
<1>1. PICK c \in Configs : config = Configured(c)
  BY DEF Init
<1>2. config \in Configuration
  BY <1>1, ConfiguredType
<1>3. Suits
  BY <1>1, CeilingAssumption DEF Suits
<1>4. results \in Seq(Pending \cup Final)
  BY DEF Init
<1> QED
  BY <1>2, <1>3, <1>4, RetryAssumption DEF Init, IInv, TypeOK, Bounded, Configuration

\* What one more attempt would be put off by, whatever the jitter.
LEMMA NextDelay ==
  ASSUME IInv, NEW n, n = attempts + 1, NEW jitter \in Jitters
  PROVE  /\ BackoffFor(n, jitter) \in Nat /\ Longest(n) \in Nat
         /\ failed <= BackoffFor(n, jitter) /\ BackoffFor(n, jitter) <= Longest(n)
<1> DEFINE least == AtMost((8 * (config.base * 2^(n - 1))) \div 10, config.max)
<1>1. /\ attempts \in Nat /\ n \in Nat \ {0} /\ failed \in Nat
      /\ config \in Configuration /\ Suits
  BY RetryAssumption DEF IInv, TypeOK, Configuration
<1>2. /\ BackoffFor(n, jitter) \in Nat /\ Longest(n) \in Nat /\ least \in Nat
      /\ least <= BackoffFor(n, jitter) /\ BackoffFor(n, jitter) <= Longest(n)
  BY <1>1, Delays DEF Longest
<1> HIDE DEF least
<1>3. failed <= least
  <2>1. CASE attempts = 0
    BY <1>1, <1>2, <2>1 DEF IInv, Bounded
  <2>2. CASE attempts # 0
    <3>1. attempts \in Nat \ {0} /\ n - 1 = attempts
      BY <1>1, <2>2
    <3>2. Longest(attempts) <= least
      BY <1>1, <3>1, DelaysGrow DEF Longest, least
    <3>3. Longest(attempts) \in Nat
      BY <1>1, <3>1, Delays DEF Longest
    <3>4. failed <= Longest(attempts)
      BY <2>2 DEF IInv, Bounded
    <3> QED
      BY <1>1, <1>2, <3>2, <3>3, <3>4
  <2> QED
    BY <2>1, <2>2
<1> QED
  BY <1>1, <1>2, <1>3

LEMMA StepBounded == IInv /\ [Next]_vars => Bounded'
<1> SUFFICES ASSUME IInv, [Next]_vars PROVE Bounded'
  OBVIOUS
<1>1. CASE Fail \/ GiveUp \/ Submit
  <2> DEFINE n == attempts + 1
  <2>1. /\ attempts' = n /\ n # 0 /\ config' = config
    BY <1>1, RetryAssumption DEF Fail, GiveUp, Submit, Attempt, IInv, TypeOK
  <2>2. failed' = failed \/ \E jitter \in Jitters : failed' = BackoffFor(n, jitter)
    BY <1>1, <2>1 DEF Fail, GiveUp, Submit, PutsOff
  <2>3. 8 \in Jitters
    BY DEF Jitters
  <2> HIDE DEF n
  <2>4. failed \in Nat
    BY DEF IInv, TypeOK
  <2>5. failed' <= Longest(n)
    <3>1. CASE failed' = failed
      BY <2>3, <2>4, <3>1, NextDelay DEF n
    <3>2. CASE \E jitter \in Jitters : failed' = BackoffFor(n, jitter)
      BY <3>2, NextDelay DEF n
    <3> QED
      BY <2>2, <3>1, <3>2
  <2> QED
    BY <2>1, <2>5 DEF Bounded, Longest
<1>2. CASE Poll \/ TakeUp \/ Process \/ UNCHANGED vars
  <2>1. attempts' = attempts /\ failed' = failed /\ config' = config
    BY <1>2, Zenon DEF Poll, TakeUp, Process, vars
  <2> QED
    BY <2>1 DEF IInv, Bounded, Longest
<1> QED
  BY <1>1, <1>2 DEF Next

\* A list of results stays one when one of them changes.
LEMMA ResultsStay ==
  ASSUME NEW S, NEW list \in Seq(S), NEW i \in DOMAIN list, NEW value \in S
  PROVE  [list EXCEPT ![i] = value] \in Seq(S)
OBVIOUS

LEMMA StepTyped == IInv /\ [Next]_vars => (TypeOK /\ Suits)'
<1> SUFFICES ASSUME IInv, [Next]_vars PROVE (TypeOK /\ Suits)'
  OBVIOUS
<1> USE RetryAssumption DEF IInv, TypeOK, Suits
<1>1. CASE Fail
  <2>1. PICK jitter \in Jitters : wait' = [why |-> "failure", for |-> BackoffFor(attempts', jitter)]
    BY <1>1 DEF Fail, PutsOff
  <2>2. attempts' = attempts + 1 /\ attempts' \in 0..MaxAttempts /\ attempts' \in Nat \ {0}
    BY <1>1 DEF Fail, Attempt
  <2>3. BackoffFor(attempts', jitter) \in Nat
    BY <2>2, Delays DEF Configuration
  <2> QED
    BY <1>1, <2>1, <2>2, <2>3 DEF Fail
<1>2. CASE GiveUp
  BY <1>2 DEF GiveUp, Attempt
<1>3. CASE Submit
  BY <1>3 DEF Submit, Attempt, PutsOff, InFlight
<1>4. CASE Poll
  <2>1. \/ status' \in {"rejected", "accepted"} /\ wait' = wait
        \/ status' = "processing" /\ wait' = [why |-> "poll", for |-> PollInterval]
    BY <1>4, Zenon DEF Poll, PutsOff
  <2> QED
    BY <1>4, <2>1 DEF Poll, InFlight
<1>5. CASE TakeUp
  <2>1. PICK n \in 1..MaxOperations : results' = [i \in 1..n |-> "RECEIVED"]
    BY <1>5 DEF TakeUp
  <2>2. n \in Nat
    OBVIOUS
  <2>3. "RECEIVED" \in Pending \cup Final
    BY Zenon DEF Pending
  <2>4. results' \in Seq(Pending \cup Final)
    BY <2>1, <2>2, <2>3
  <2> QED
    BY <1>5, <2>4 DEF TakeUp
<1>6. CASE Process
  <2>1. PICK i \in DOMAIN results, step \in Progress :
          results' = [results EXCEPT ![i] = step[2]]
    BY <1>6 DEF Process
  <2>2. step[2] \in Pending \cup Final
    BY ProgressSteps
  <2> HIDE DEF IInv, TypeOK, Suits
  <2>3. results \in Seq(Pending \cup Final)
    BY DEF IInv, TypeOK
  <2>4. results' \in Seq(Pending \cup Final)
    BY <2>1, <2>2, <2>3, ResultsStay
  <2> USE DEF IInv, TypeOK, Suits
  <2> QED
    BY <1>6, <2>4 DEF Process
<1>7. CASE UNCHANGED vars
  BY <1>7 DEF vars
<1> QED
  BY <1>1, <1>2, <1>3, <1>4, <1>5, <1>6, <1>7 DEF Next

LEMMA Inductive == Spec => []IInv
<1>1. IInv /\ [Next]_vars => IInv'
  BY StepTyped, StepBounded DEF IInv
<1> QED
  BY <1>1, InitIInv, PTL DEF Spec

\* Every variable keeps its type: among them, a delay is never negative, however
\* often the row has failed (backoffFor, powInt).
THEOREM TypeCorrect == Spec => []TypeOK
<1>1. IInv => TypeOK
  BY DEF IInv
<1> QED
  BY <1>1, Inductive, PTL

\* However a worker is configured and however often a row has failed, the next
\* attempt is put off by the doubled delay, give or take the jitter, up to
\* MaxBackoff (backoffFor, powInt).
THEOREM DelaysDouble == Spec => []DelayIsExponential
<1> USE DEF DelayIsExponential
<1>1. Init => DelayIsExponential
  BY DEF Init
<1>2. IInv /\ DelayIsExponential /\ [Next]_vars => DelayIsExponential'
  <2> SUFFICES ASSUME IInv, DelayIsExponential, [Next]_vars PROVE DelayIsExponential'
    OBVIOUS
  <2>1. CASE Fail
    <3>1. PICK jitter \in Jitters : wait' = [why |-> "failure", for |-> BackoffFor(attempts', jitter)]
      BY <2>1 DEF Fail, PutsOff
    <3>2. attempts' \in Nat \ {0} /\ config' = config /\ config \in Configuration
      BY <2>1, RetryAssumption DEF Fail, Attempt, IInv, TypeOK, Configuration
    <3> DEFINE delay == config.base * 2^(attempts' - 1)
               low == AtMost((8 * delay) \div 10, config.max)
               high == AtMost((12 * delay) \div 10, config.max)
    <3>3. /\ wait'.for \in Nat /\ low \in Nat /\ high \in Nat
          /\ low <= wait'.for /\ wait'.for <= high
      BY <3>1, <3>2, Delays DEF IInv
    <3> HIDE DEF low, high
    <3>4. wait'.for \in low..high
      BY <3>3
    <3> QED
      BY <3>2, <3>4 DEF low, high
  <2>2. CASE GiveUp
    BY <2>2 DEF GiveUp
  <2>3. CASE Submit
    BY <2>3 DEF Submit, PutsOff
  <2>4. CASE Poll
    <3>1. \/ status' \in {"rejected", "accepted"} /\ wait' = wait
          \/ wait' = [why |-> "poll", for |-> PollInterval]
      BY <2>4, Zenon DEF Poll, PutsOff
    <3>2. status # "rejected" /\ config' = config /\ attempts' = attempts
      BY <2>4 DEF Poll, InFlight
    <3> QED
      BY <3>1, <3>2
  <2>5. CASE TakeUp
    BY <2>5 DEF TakeUp
  <2>6. CASE Process
    BY <2>6 DEF Process
  <2>7. CASE UNCHANGED vars
    BY <2>7 DEF vars
  <2> QED
    BY <2>1, <2>2, <2>3, <2>4, <2>5, <2>6, <2>7 DEF Next
<1> QED
  BY <1>1, <1>2, Inductive, PTL DEF Spec

\* A failure is never retried sooner than the last one before it, whichever way
\* the jitter falls and whatever came between the two: submissions, polls that
\* were answered or both (backoffFor, attemptSubmit, markFailure, markPollFailure).
THEOREM FailuresSlowDown == Spec => RetriesSlowDown
<1>1. IInv /\ [Next]_vars => [failed' >= failed]_vars
  <2> SUFFICES ASSUME IInv, Next PROVE failed' >= failed
    BY DEF vars
  <2>1. failed \in Nat
    BY DEF IInv, TypeOK
  <2>2. CASE Fail
    <3>1. PICK jitter \in Jitters : failed' = BackoffFor(attempts + 1, jitter)
      BY <2>2 DEF Fail, Attempt, PutsOff
    <3> QED
      BY <2>1, <3>1, NextDelay
  <2>3. CASE GiveUp \/ Submit \/ Poll \/ TakeUp \/ Process
    <3>1. failed' = failed
      BY <2>3, Zenon DEF GiveUp, Submit, Poll, TakeUp, Process
    <3> QED
      BY <2>1, <3>1
  <2> QED
    BY <2>2, <2>3 DEF Next
<1> QED
  BY <1>1, Inductive, PTL DEF Spec, RetriesSlowDown

\* However many operations a transaction has and however they go on, a row that
\* was accepted stays right (overallStatus, pollStatus).
THEOREM AcceptancesStand == Spec => []AcceptanceStands
<1>1. Init => AcceptanceStands
  BY DEF Init, AcceptanceStands
<1>2. IInv /\ AcceptanceStands /\ [Next]_vars => AcceptanceStands'
  <2> SUFFICES ASSUME IInv, AcceptanceStands, [Next]_vars, status' = "accepted"
               PROVE  /\ results' # <<>>
                      /\ \A i \in DOMAIN results' : results'[i] \in {"FINISHED", "DONE"}
    BY DEF AcceptanceStands
  <2>1. CASE Poll
    <3>1. OverallStatus \in {"FINISHED", "DONE"} /\ results' = results
      BY <2>1, Zenon DEF Poll
    <3>2. /\ results # <<>>
          /\ \A i \in DOMAIN results : results[i] \in Final /\ results[i] # "ABORTED"
      BY <3>1 DEF OverallStatus
    <3> QED
      BY <3>1, <3>2 DEF Final
  <2>2. CASE Process
    <3>1. status = "accepted"
      BY <2>2 DEF Process
    <3>2. PICK i \in DOMAIN results, step \in Progress : results[i] = step[1]
      BY <2>2 DEF Process
    <3>3. results[i] \in {"FINISHED", "DONE"}
      BY <3>1 DEF AcceptanceStands
    <3> QED
      BY <3>2, <3>3, ProgressSteps
  <2>3. CASE TakeUp
    BY <2>3 DEF TakeUp, InFlight
  <2>4. CASE Fail \/ GiveUp \/ Submit
    BY <2>4 DEF Fail, GiveUp, Submit, InFlight
  <2>5. CASE UNCHANGED vars
    BY <2>5 DEF vars, AcceptanceStands
  <2> QED
    BY <2>1, <2>2, <2>3, <2>4, <2>5 DEF Next
<1> QED
  BY <1>1, <1>2, Inductive, PTL DEF Spec
=============================================================================
