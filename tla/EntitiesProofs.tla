--------------------------- MODULE EntitiesProofs ---------------------------
(***************************************************************************)
(* The theorems about Entities, for every size of groups and words, every  *)
(* map, every nesting and every behaviour.                                 *)
(*                                                                         *)
(* What the runtime loops over is folded here over sequences of any length *)
(* and compared with numbers of any size, so the first half is about folds *)
(* and powers of two.  The induction it needs is done with sets: a set of  *)
(* numbers that has 0 and all successors is Nat.                           *)
(***************************************************************************)
EXTENDS Entities, SequencesExt, TLAPS, FiniteSetTheorems, WellFoundedInduction,
        SequenceTheorems

-----------------------------------------------------------------------------
(* Induction over the naturals, with sets for predicates; powers of two.   *)

\* A set that has 0, and with each number the next, has them all: induction
\* with a set in the place of the predicate, from its least counterexample.
LEMMA Everywhere ==
  ASSUME NEW T, T \subseteq Nat, 0 \in T, \A n \in T : n + 1 \in T
  PROVE  T = Nat
<1>1. SUFFICES ASSUME NEW m \in Nat, m \notin T PROVE FALSE
  OBVIOUS
<1>. DEFINE Missing == {0 .. k : k \in {j \in 0 .. m : j \notin T}}
<1>2. IsFiniteSet(0 .. m)
  BY FS_Interval
<1>3. FiniteSubsetsOf(0 .. m) = SUBSET (0 .. m)
  BY <1>2, FS_FiniteSubsetsOfFinite
<1>4. Missing \subseteq FiniteSubsetsOf(0 .. m) /\ 0 .. m \in Missing
  BY <1>1, <1>3
<1>5. IsWellFoundedOn(StrictSubsetOrdering(0 .. m), FiniteSubsetsOf(0 .. m))
  BY <1>2, FS_StrictSubsetOrderingWellFounded
<1>6. PICK U \in Missing : \A V \in Missing : ~(<<V, U>> \in StrictSubsetOrdering(0 .. m))
  <2>. HIDE DEF Missing
  <2>. QED
    BY <1>4, <1>5, WFMin
<1>7. PICK k \in 0 .. m : k \notin T /\ U = 0 .. k
  BY <1>6
<1>8. k # 0 /\ k - 1 \in 0 .. m /\ k - 1 \notin T
  BY <1>7
<1>9. 0 .. k - 1 \in Missing /\ <<0 .. k - 1, 0 .. k>> \in StrictSubsetOrdering(0 .. m)
  BY <1>7, <1>8 DEF StrictSubsetOrdering
<1>. QED
  BY <1>6, <1>7, <1>9

\* 2 ^ n is the number of subsets of a set of n elements, which gives powers
\* their laws: the provers know none.
LEMMA PowerOfSize ==
  ASSUME NEW n \in Nat
  PROVE  Cardinality(SUBSET (1 .. n)) = 2 ^ n /\ IsFiniteSet(SUBSET (1 .. n))
<1>1. IsFiniteSet(1 .. n) /\ Cardinality(1 .. n) = n
  BY FS_Interval
<1>. DEFINE S == 1 .. n
<1>2. IsFiniteSet(SUBSET S) /\ Cardinality(SUBSET S) = 2 ^ Cardinality(S)
  <2>1. IsFiniteSet(S)
    BY <1>1
  <2>. HIDE DEF S
  <2>. QED
    BY <2>1, FS_SUBSET
<1>. QED
  BY <1>1, <1>2

\* The next power of two is twice as large.
LEMMA PowerStep ==
  ASSUME NEW n \in Nat
  PROVE  2 ^ (n + 1) = 2 * 2 ^ n /\ 2 ^ n \in Nat
<1>. DEFINE A == SUBSET (1 .. n)
            B == {a \cup {n + 1} : a \in A}
            f == [a \in A |-> a \cup {n + 1}]
<1>1. SUBSET (1 .. n + 1) = A \cup B
  <2>1. ASSUME NEW x \in SUBSET (1 .. n + 1), n + 1 \in x PROVE x \in B
    <3>1. x = (x \ {n + 1}) \cup {n + 1} /\ x \ {n + 1} \in A
      BY <2>1
    <3>. QED
      BY <3>1
  <2>2. ASSUME NEW x \in SUBSET (1 .. n + 1), n + 1 \notin x PROVE x \in A
    BY <2>2
  <2>3. A \subseteq SUBSET (1 .. n + 1)
    OBVIOUS
  <2>4. ASSUME NEW b \in B PROVE b \in SUBSET (1 .. n + 1)
    <3>1. PICK a \in A : b = a \cup {n + 1}
      OBVIOUS
    <3>2. a \subseteq 1 .. n + 1 /\ n + 1 \in 1 .. n + 1
      OBVIOUS
    <3>. QED
      BY <3>1, <3>2
  <2>. QED
    BY <2>1, <2>2, <2>3, <2>4
<1>2. A \cap B = {}
  OBVIOUS
<1>3. f \in Bijection(A, B)
  <2>1. \A a, b \in A : f[a] = f[b] => a = b
    OBVIOUS
  <2>2. f \in [A -> B] /\ \A b \in B : \E a \in A : f[a] = b
    OBVIOUS
  <2>. QED
    BY <2>1, <2>2 DEF Bijection, Injection, Surjection, IsInjective
<1>4. IsFiniteSet(A) /\ Cardinality(A) = 2 ^ n /\ 2 ^ n \in Nat
  BY PowerOfSize, FS_CardinalityType
<1>5. IsFiniteSet(B) /\ Cardinality(B) = 2 ^ n
  <2>1. ExistsBijection(A, B)
    BY <1>3 DEF ExistsBijection
  <2>. HIDE DEF A, B, f
  <2>. QED
    BY <2>1, <1>4, FS_Bijection
<1>6. Cardinality(A \cup B) = Cardinality(A) + Cardinality(B) - Cardinality(A \cap B)
  <2>. HIDE DEF A, B, f
  <2>. QED
    BY <1>4, <1>5, FS_Union
<1>7. Cardinality(A \cap B) = 0
  BY <1>2, FS_EmptySet
<1>8. Cardinality(A \cup B) = 2 ^ (n + 1)
  <2>1. Cardinality(SUBSET (1 .. n + 1)) = 2 ^ (n + 1)
    <3>1. n + 1 \in Nat
      OBVIOUS
    <3>. QED
      BY <3>1, PowerOfSize
  <2>. QED
    BY <1>1, <2>1
<1>. QED
  BY <1>4, <1>5, <1>6, <1>7, <1>8

\* Powers of two are positive numbers.
LEMMA PowerPositive ==
  ASSUME NEW n \in Nat
  PROVE  2 ^ n \in Nat /\ 2 ^ n >= 1
<1>. DEFINE T == {k \in Nat : 2 ^ k >= 1}
<1>1. 0 \in T
  OBVIOUS
<1>2. \A k \in T : k + 1 \in T
  BY PowerStep
<1>3. T = Nat
  <2>. HIDE DEF T
  <2>1. T \subseteq Nat
    BY DEF T
  <2>. QED
    BY <1>1, <1>2, <2>1, Everywhere
<1>. QED
  BY <1>3, PowerStep

\* Powers of a sum are products of powers.
LEMMA PowerSum ==
  ASSUME NEW a \in Nat, NEW b \in Nat
  PROVE  2 ^ (a + b) = 2 ^ a * 2 ^ b
<1>. DEFINE T == {k \in Nat : 2 ^ (a + k) = 2 ^ a * 2 ^ k}
<1>1. 0 \in T
  BY PowerPositive
<1>2. ASSUME NEW k \in T PROVE k + 1 \in T
  <2>1. 2 ^ (a + k + 1) = 2 * 2 ^ (a + k) /\ 2 ^ (k + 1) = 2 * 2 ^ k
    <3>1. a + k \in Nat
      OBVIOUS
    <3>. QED
      BY <3>1, PowerStep
  <2>2. 2 ^ a \in Nat /\ 2 ^ k \in Nat
    BY PowerPositive
  <2>3. 2 ^ (a + k) = 2 ^ a * 2 ^ k
    OBVIOUS
  <2>. QED
    BY <2>1, <2>2, <2>3
<1>3. T = Nat
  <2>. HIDE DEF T
  <2>1. T \subseteq Nat
    BY DEF T
  <2>. QED
    BY <1>1, <1>2, <2>1, Everywhere
<1>. QED
  BY <1>3

-----------------------------------------------------------------------------
(* What FoldLeft makes of a sequence, one element at a time.               *)

\* The ways in which a fold here takes a new element into its value: as the
\* next digit of a number, as the place of the next bit of a word, and as the
\* next group of a word that is filled from the top.
Take(how, v, x) ==
  CASE how.kind = "digit" -> v * how.base + x
    [] how.kind = "place" -> (2 * v + how.bit[x]) % how.word
    [] how.kind = "group" -> [bits |-> v.bits + x * 2 ^ (how.word - how.group - v.n),
                              n    |-> v.n + how.group]

\* Taking digits of base B.
Digits(B) == [kind |-> "digit", base |-> B]

\* Taking bits, bit[x] at the place x, in words of w values.
Places(b, w) == [kind |-> "place", bit |-> b, word |-> w]

\* Taking groups of g bits in a word of w bits.
Packs(g, w) == [kind |-> "group", group |-> g, word |-> w]

\* The greatest place of a set with the last place in it.
LEMMA MaxOfTop ==
  ASSUME NEW n \in Nat, NEW S \in SUBSET (1 .. n + 1), n + 1 \in S
  PROVE  Max(S) = n + 1
<1>1. \A y \in S : n + 1 >= y
  OBVIOUS
<1>2. \A x \in S : (\A y \in S : x >= y) => x = n + 1
  OBVIOUS
<1>. QED
  BY <1>1, <1>2 DEF Max

\* it is the fold of s up to the place n.
FoldsTo(it, n, how, lead, s) ==
  /\ DOMAIN it = SUBSET (1 .. n)
  /\ it = [S \in DOMAIN it |-> it[S]]
  /\ it[{}] = lead
  /\ \A S \in SUBSET (1 .. n) :
       S # {} => it[S] = Take(how, it[S \ {Max(S)}], s[Max(S)])

\* There is a fold of every sequence, in every way.
LEMMA FoldExists ==
  ASSUME NEW how, NEW lead, NEW s, NEW n \in Nat
  PROVE  \E it : FoldsTo(it, n, how, lead, s)
<1>. DEFINE T == {k \in Nat : \E it : FoldsTo(it, k, how, lead, s)}
<1>1. 0 \in T
  <2>1. FoldsTo([S \in SUBSET (1 .. 0) |-> lead], 0, how, lead, s)
    <3>1. \A S \in SUBSET (1 .. 0) : S = {}
      OBVIOUS
    <3>. QED
      BY <3>1 DEF FoldsTo
  <2>. QED
    BY <2>1
<1>2. ASSUME NEW k \in T PROVE k + 1 \in T
  <2>1. PICK it : FoldsTo(it, k, how, lead, s)
    OBVIOUS
  <2>. DEFINE jt == [S \in SUBSET (1 .. k + 1) |->
                       IF k + 1 \in S THEN Take(how, it[S \ {k + 1}], s[k + 1]) ELSE it[S]]
  <2>2. jt[{}] = lead
    BY <2>1 DEF FoldsTo
  <2>3. ASSUME NEW S \in SUBSET (1 .. k + 1), S # {}, k + 1 \in S
        PROVE  jt[S] = Take(how, jt[S \ {Max(S)}], s[Max(S)])
    <3>1. Max(S) = k + 1
      BY <2>3, MaxOfTop
    <3>2. S \ {k + 1} \in SUBSET (1 .. k + 1) /\ k + 1 \notin S \ {k + 1}
      OBVIOUS
    <3>3. jt[S \ {k + 1}] = it[S \ {k + 1}]
      BY <3>2
    <3>. QED
      BY <2>3, <3>1, <3>3
  <2>4. ASSUME NEW S \in SUBSET (1 .. k + 1), S # {}, k + 1 \notin S
        PROVE  jt[S] = Take(how, jt[S \ {Max(S)}], s[Max(S)])
    <3>1. S \in SUBSET (1 .. k) /\ S \ {Max(S)} \in SUBSET (1 .. k)
      <4>1. \A i \in 1 .. k + 1 : i # k + 1 => i \in 1 .. k
        OBVIOUS
      <4>. QED
        BY <2>4, <4>1
    <3>2. jt[S] = it[S] /\ jt[S \ {Max(S)}] = it[S \ {Max(S)}]
      BY <2>4, <3>1
    <3>. QED
      BY <2>1, <2>4, <3>1, <3>2 DEF FoldsTo
  <2>5. FoldsTo(jt, k + 1, how, lead, s)
    <3>1. DOMAIN jt = SUBSET (1 .. k + 1) /\ jt = [S \in DOMAIN jt |-> jt[S]]
      OBVIOUS
    <3>. HIDE DEF jt
    <3>. QED
      BY <2>2, <2>3, <2>4, <3>1 DEF FoldsTo
  <2>. QED
    BY <2>5
<1>3. T = Nat
  <2>. HIDE DEF T
  <2>1. T \subseteq Nat
    BY DEF T
  <2>. QED
    BY <1>1, <1>2, <2>1, Everywhere
<1>. QED
  BY <1>3

\* A fold over one place more takes the element there into the fold over the
\* places before it.
LEMMA FoldStep ==
  ASSUME NEW how, NEW lead, NEW s, NEW n \in Nat, NEW it, FoldsTo(it, n, how, lead, s),
         NEW k \in Nat, k + 1 <= n
  PROVE  it[1 .. k + 1] = Take(how, it[1 .. k], s[k + 1])
<1>. DEFINE S == 1 .. k + 1
<1>1. /\ S \in SUBSET (1 .. k + 1) /\ k + 1 \in S
      /\ S \ {k + 1} = 1 .. k /\ S \in SUBSET (1 .. n)
  OBVIOUS
<1>. HIDE DEF S
<1>2. Max(S) = k + 1 /\ S # {}
  BY <1>1, MaxOfTop
<1>3. it[S] = Take(how, it[S \ {Max(S)}], s[Max(S)])
  BY <1>1, <1>2 DEF FoldsTo
<1>. QED
  BY <1>1, <1>2, <1>3 DEF S

\* Two sequences are the same up to n.
SameTo(s, t, n) == \A i \in 1 .. n : s[i] = t[i]

\* Two folds agree where their sequences do.
LEMMA FoldsAgree ==
  ASSUME NEW how, NEW lead, NEW s, NEW t, NEW n \in Nat, NEW it, NEW jt, NEW m \in Nat, n <= m,
         FoldsTo(it, n, how, lead, s), FoldsTo(jt, m, how, lead, t), SameTo(s, t, n)
  PROVE  it[1 .. n] = jt[1 .. n]
<1>. DEFINE T == {k \in Nat : k <= n => it[1 .. k] = jt[1 .. k]}
<1>1. 0 \in T
  BY DEF FoldsTo
<1>2. ASSUME NEW k \in T PROVE k + 1 \in T
  <2>1. SUFFICES ASSUME k + 1 <= n PROVE it[1 .. k + 1] = jt[1 .. k + 1]
    OBVIOUS
  <2>. HIDE DEF T
  <2>2a. k \in Nat
    BY DEF T
  <2>2. it[1 .. k + 1] = Take(how, it[1 .. k], s[k + 1])
    BY <2>2a, <2>1, FoldStep
  <2>3. jt[1 .. k + 1] = Take(how, jt[1 .. k], t[k + 1])
    <3>1. k + 1 <= m
      BY <2>2a, <2>1
    <3>. QED
      BY <2>2a, <3>1, FoldStep
  <2>4. s[k + 1] = t[k + 1] /\ it[1 .. k] = jt[1 .. k]
    BY <2>2a, <2>1 DEF SameTo, T
  <2>5. it[1 .. k + 1] = jt[1 .. k + 1]
    BY <2>2, <2>3, <2>4
  <2>. QED
    BY <2>2a, <2>5 DEF T
<1>3. T = Nat
  <2>. HIDE DEF T
  <2>1. T \subseteq Nat
    BY DEF T
  <2>. QED
    BY <1>1, <1>2, <2>1, Everywhere
<1>. QED
  BY <1>3

\* A fold of a sequence with one place more takes the element there.
LEMMA FoldOfMore ==
  ASSUME NEW how, NEW lead, NEW n \in Nat, NEW s, NEW t, NEW it, NEW jt,
         FoldsTo(it, n, how, lead, s), FoldsTo(jt, n + 1, how, lead, t),
         SameTo(s, t, n)
  PROVE  jt[1 .. n + 1] = Take(how, it[1 .. n], t[n + 1])
<1>1. it[1 .. n] = jt[1 .. n]
  BY FoldsAgree
<1>. DEFINE m == n + 1
<1>2. m \in Nat /\ n + 1 <= m /\ FoldsTo(jt, m, how, lead, t)
  OBVIOUS
<1>. HIDE DEF m
<1>3. jt[1 .. n + 1] = Take(how, jt[1 .. n], t[n + 1])
  BY <1>2, FoldStep
<1>. QED
  BY <1>1, <1>3

\* The number with these digits, the highest first, below a leading one.
Number(B, lead, s) == FoldLeft(LAMBDA n, b : n * B + b, lead, s)

\* What FoldLeft chooses for Number.
NumberFolds(it, B, lead, s) ==
  it = [S \in SUBSET (DOMAIN s) |->
          IF S = {} THEN lead ELSE it[S \ {Max(S)}] * B + s[Max(S)]]

\* A number is a fold of its digits.
LEMMA NumberIsFold ==
  ASSUME NEW B, NEW lead, NEW s, NEW n \in Nat, DOMAIN s = 1 .. n
  PROVE  \E it : FoldsTo(it, n, Digits(B), lead, s) /\ Number(B, lead, s) = it[1 .. n]
<1>1. Number(B, lead, s) = (CHOOSE it : NumberFolds(it, B, lead, s))[DOMAIN s]
  BY DEF Number, FoldLeft, MapThenFoldSet, NumberFolds
<1>2. \A v, x : Take(Digits(B), v, x) = v * B + x
  BY DEF Take, Digits
<1>3. \A it : FoldsTo(it, n, Digits(B), lead, s) => NumberFolds(it, B, lead, s)
  BY <1>2 DEF FoldsTo, NumberFolds
<1>4. \E it : NumberFolds(it, B, lead, s)
  BY <1>3, FoldExists
<1>. DEFINE chosen == CHOOSE it : NumberFolds(it, B, lead, s)
<1>5. NumberFolds(chosen, B, lead, s)
  BY <1>4
<1>6. FoldsTo(chosen, n, Digits(B), lead, s)
  <2>. HIDE DEF chosen
  <2>1. chosen = [S \in SUBSET (1 .. n) |->
          IF S = {} THEN lead ELSE chosen[S \ {Max(S)}] * B + s[Max(S)]]
    BY <1>5 DEF NumberFolds
  <2>. QED
    BY <1>2, <2>1 DEF FoldsTo
<1>. QED
  BY <1>1, <1>6

\* No digits below the leading one.
LEMMA NumberOfNone ==
  ASSUME NEW B, NEW lead
  PROVE  Number(B, lead, <<>>) = lead
<1>1. PICK it : FoldsTo(it, 0, Digits(B), lead, <<>>) /\ Number(B, lead, <<>>) = it[1 .. 0]
  BY NumberIsFold
<1>. QED
  BY <1>1 DEF FoldsTo

\* One digit more.
LEMMA NumberOfMore ==
  ASSUME NEW B, NEW lead, NEW G, NEW s \in Seq(G), NEW b
  PROVE  Number(B, lead, Append(s, b)) = Number(B, lead, s) * B + b
<1>. DEFINE n == Len(s)
            t == Append(s, b)
<1>1. n \in Nat /\ DOMAIN s = 1 .. n /\ DOMAIN t = 1 .. n + 1 /\ t[n + 1] = b
  OBVIOUS
<1>2. SameTo(s, t, n)
  BY DEF SameTo
<1>. HIDE DEF n, t
<1>3. PICK it : FoldsTo(it, n, Digits(B), lead, s) /\ Number(B, lead, s) = it[1 .. n]
  BY <1>1, NumberIsFold
<1>4. PICK jt : FoldsTo(jt, n + 1, Digits(B), lead, t) /\ Number(B, lead, t) = jt[1 .. n + 1]
  <2>1. n + 1 \in Nat
    BY <1>1
  <2>. QED
    BY <1>1, <2>1, NumberIsFold
<1>5. jt[1 .. n + 1] = Take(Digits(B), it[1 .. n], t[n + 1])
  <2>. DEFINE how == Digits(B)
  <2>1. n \in Nat /\ FoldsTo(it, n, how, lead, s) /\ FoldsTo(jt, n + 1, how, lead, t)
    BY <1>1, <1>3, <1>4
  <2>. HIDE DEF how
  <2>2. jt[1 .. n + 1] = Take(how, it[1 .. n], t[n + 1])
    BY <1>2, <2>1, FoldOfMore
  <2>. QED
    BY <2>2 DEF how
<1>. QED
  BY <1>1, <1>3, <1>4, <1>5 DEF t, Take, Digits

\* A set of places has a greatest one.
LEMMA GreatestIsThere ==
  ASSUME NEW n \in Nat, NEW S \in SUBSET (1 .. n), S # {}
  PROVE  Max(S) \in S
<1>. DEFINE T == {k \in Nat : \A R \in SUBSET (1 .. k) : R # {} => Max(R) \in R}
<1>1. 0 \in T
  <2>1. \A R \in SUBSET (1 .. 0) : R = {}
    OBVIOUS
  <2>. QED
    BY <2>1
<1>2. ASSUME NEW k \in T PROVE k + 1 \in T
  <2>1. k \in Nat /\ \A R \in SUBSET (1 .. k) : R # {} => Max(R) \in R
    OBVIOUS
  <2>2. ASSUME NEW R \in SUBSET (1 .. k + 1), R # {} PROVE Max(R) \in R
    <3>1. CASE k + 1 \in R
      BY <2>1, <3>1, MaxOfTop
    <3>2. CASE k + 1 \notin R
      <4>1. \A i \in 1 .. k + 1 : i # k + 1 => i \in 1 .. k
        BY <2>1
      <4>2. R \in SUBSET (1 .. k)
        BY <3>2, <4>1
      <4>. QED
        BY <2>1, <2>2, <4>2
    <3>. QED
      BY <3>1, <3>2
  <2>. QED
    BY <2>1, <2>2
<1>3. T = Nat
  <2>. HIDE DEF T
  <2>1. T \subseteq Nat
    BY DEF T
  <2>. QED
    BY <1>1, <1>2, <2>1, Everywhere
<1>. QED
  BY <1>3

-----------------------------------------------------------------------------
(* Integer arithmetic, and the conversions to machine words.               *)

\* Products of integers are integers.
LEMMA Product ==
  ASSUME NEW x \in Int, NEW y \in Int
  PROVE  x * y \in Int
OBVIOUS

\* Multiplying keeps the order.
LEMMA ScaleUp ==
  ASSUME NEW m \in Nat, NEW x \in Int, NEW y \in Int, x <= y
  PROVE  x * m <= y * m
<1>1. PICK d \in Nat : y = x + d
  <2>1. y - x \in Nat /\ y = x + (y - x)
    OBVIOUS
  <2>. QED
    BY <2>1
<1>2. (x + d) * m = x * m + d * m /\ d * m >= 0 /\ x * m \in Int
  OBVIOUS
<1>. QED
  BY <1>1, <1>2

\* Quotient and remainder.
LEMMA Division ==
  ASSUME NEW a \in Int, NEW m \in Nat \ {0}
  PROVE  /\ a \div m \in Int /\ a % m \in Int
         /\ a = (a \div m) * m + (a % m)
         /\ 0 <= a % m /\ a % m < m /\ a % m \in 0 .. m - 1
<1>1. a \div m \in Int /\ a = m * (a \div m) + (a % m)
  OBVIOUS
<1>2. a % m \in Int /\ 0 <= a % m /\ a % m < m
  OBVIOUS
<1>. QED
  BY <1>1, <1>2

\* A quotient is known by the multiple it stands for.
LEMMA Quotient ==
  ASSUME NEW a \in Int, NEW m \in Nat \ {0}, NEW q \in Int, NEW r \in 0 .. m - 1, a = q * m + r
  PROVE  a \div m = q /\ a % m = r
<1>. DEFINE p == a \div m
            s == a % m
<1>1. p \in Int /\ s \in Int /\ a = p * m + s /\ 0 <= s /\ s < m
  BY Division
<1>. HIDE DEF p, s
<1>2. (p - q) * m = r - s
  <2>1. (p - q) * m = p * m - q * m /\ p * m \in Int /\ q * m \in Int
    BY <1>1
  <2>. QED
    BY <1>1, <2>1
<1>3. ~(p >= q + 1)
  <2>1. SUFFICES ASSUME p - q >= 1 PROVE FALSE
    BY <1>1
  <2>2. 1 * m <= (p - q) * m
    BY <1>1, <2>1, ScaleUp
  <2>. QED
    BY <1>1, <1>2, <2>2
<1>4. ~(p <= q - 1)
  <2>1. SUFFICES ASSUME p - q <= -1 PROVE FALSE
    BY <1>1
  <2>2. (p - q) * m <= (-1) * m
    <3>1. -1 \in Int /\ p - q \in Int
      BY <1>1
    <3>. QED
      BY <2>1, <3>1, ScaleUp
  <2>. QED
    BY <1>1, <1>2, <2>2
<1>5. p = q
  BY <1>1, <1>3, <1>4
<1>. QED
  BY <1>1, <1>5 DEF p, s

\* Dividing a multiple.
LEMMA Multiple ==
  ASSUME NEW m \in Nat \ {0}, NEW q \in Int
  PROVE  (q * m) \div m = q /\ (q * m) % m = 0
<1>1. q * m \in Int /\ q * m = q * m + 0 /\ 0 \in 0 .. m - 1
  OBVIOUS
<1>. QED
  BY <1>1, Quotient

\* A signed conversion turns the word a whole number of times.
LEMMA SignedWord ==
  ASSUME NEW h \in Nat \ {0}, NEW n \in Int
  PROVE  /\ ((n + h) % (2 * h)) - h \in -h .. h - 1
         /\ \E k \in Int : ((n + h) % (2 * h)) - h = n - k * (2 * h)
         /\ n \in -h .. h - 1 => ((n + h) % (2 * h)) - h = n
<1>. DEFINE m == 2 * h
            p == (n + h) \div m
            r == (n + h) % m
<1>1. m \in Nat \ {0} /\ n + h \in Int
  OBVIOUS
<1>2. p \in Int /\ r \in Int /\ n + h = p * m + r /\ 0 <= r /\ r < m
  <2>. HIDE DEF m
  <2>. QED
    BY <1>1, Division
<1>3. n \in -h .. h - 1 => r = n + h
  <2>1. SUFFICES ASSUME n \in -h .. h - 1 PROVE r = n + h
    OBVIOUS
  <2>2. n + h \in 0 .. m - 1 /\ n + h = 0 * m + (n + h)
    BY <2>1
  <2>. HIDE DEF m
  <2>. QED
    BY <1>1, <2>2, Quotient
<1>4. r - h = n - p * m /\ p * m \in Int
  <2>1. p * m \in Int
    BY <1>1, <1>2
  <2>. HIDE DEF p, r
  <2>. QED
    BY <1>2, <2>1
<1>5. r - h \in -h .. h - 1
  <2>. HIDE DEF p, r
  <2>. QED
    BY <1>2
<1>. QED
  BY <1>2, <1>3, <1>4, <1>5

\* So does an unsigned one.
LEMMA UnsignedWord ==
  ASSUME NEW m \in Nat \ {0}, NEW n \in Int
  PROVE  /\ n % m \in 0 .. m - 1
         /\ \E k \in Int : n % m = n - k * m
         /\ n \in 0 .. m - 1 => n % m = n
<1>1. n \in 0 .. m - 1 => n = 0 * m + n
  OBVIOUS
<1>2. n \in 0 .. m - 1 => n % m = n
  BY <1>1, Quotient
<1>3. n \div m \in Int /\ n = (n \div m) * m + (n % m) /\ n % m \in 0 .. m - 1
  BY Division
<1>4. n % m = n - (n \div m) * m
  <2>1. (n \div m) * m \in Int
    BY <1>3
  <2>. QED
    BY <1>3, <2>1
<1>. QED
  BY <1>2, <1>3, <1>4

-----------------------------------------------------------------------------
\* The number that an entity encodes, as EntityReader has it.
Encoded(sg, gs) ==
  Number(2 ^ GroupBits,
         IF sg THEN Entity!SignExtended(Head(gs)) ELSE Head(gs),
         Tail(gs))

\* It is the Exact of EntityReader.
LEMMA ExactIsEncoded ==
  ASSUME NEW gs
  PROVE  Entity!Exact(gs) = Encoded(signed, gs)
BY DEF Entity!Exact, Encoded, Entity!FoldLeft, Entity!MapThenFoldSet, Entity!Max, Entity!Base, Number, FoldLeft, MapThenFoldSet, Max

\* An entity of one group.
LEMMA EncodedOne ==
  ASSUME NEW sg, NEW b
  PROVE  Encoded(sg, <<b>>) = IF sg THEN Entity!SignExtended(b) ELSE b
<1>1. Head(<<b>>) = b /\ Tail(<<b>>) = <<>>
  OBVIOUS
<1>. QED
  BY <1>1, NumberOfNone DEF Encoded

\* An entity of one group more.
LEMMA EncodedMore ==
  ASSUME NEW sg, NEW G, NEW gs \in Seq(G), gs # <<>>, NEW b
  PROVE  Encoded(sg, Append(gs, b)) = Encoded(sg, gs) * 2 ^ GroupBits + b
<1>1. Head(Append(gs, b)) = Head(gs) /\ Tail(Append(gs, b)) = Append(Tail(gs), b) /\ Tail(gs) \in Seq(G)
  OBVIOUS
<1>. DEFINE rest == Tail(gs)
            lead == IF sg THEN Entity!SignExtended(Head(gs)) ELSE Head(gs)
<1>2. Encoded(sg, gs) = Number(2 ^ GroupBits, lead, rest)
  BY DEF Encoded
<1>3. Encoded(sg, Append(gs, b)) = Number(2 ^ GroupBits, lead, Append(rest, b))
  BY <1>1 DEF Encoded
<1>4. rest \in Seq(G)
  BY <1>1
<1>. HIDE DEF rest, lead
<1>5. Number(2 ^ GroupBits, lead, Append(rest, b)) = Number(2 ^ GroupBits, lead, rest) * 2 ^ GroupBits + b
  BY <1>4, NumberOfMore
<1>. QED
  BY <1>2, <1>3, <1>5

-----------------------------------------------------------------------------
\* What a word of so many groups of data bits holds.
Power(k) == 2 ^ (k * GroupBits)

\* The groups that go unchecked.
U == Entity!Unchecked

\* The values of a group.
Base == 2 ^ GroupBits

\* Groups and words have bits in them, and U groups are all of a word but one bit.
LEMMA Sizes ==
  /\ GroupBits \in Nat \ {0} /\ U \in Nat \ {0}
  /\ Base \in Nat /\ (\E h \in Nat \ {0} : Base = 2 * h)
  /\ Half64 \in Nat \ {0} /\ Half64 = Power(U)
<1>1. /\ GroupBits \in Nat \ {0} /\ WordBits \in Nat \ {0, 1}
      /\ WordBits = U * GroupBits + 1 /\ Half64 = 2 ^ (WordBits - 1)
  BY PartsAssumption DEF Entity!GroupAssumption, U
<1>2. U \in Nat \ {0}
  <2>1. U \in Int
    BY <1>1, Division DEF U, Entity!Unchecked
  <2>2. U * GroupBits >= 1
    <3>1. U * GroupBits \in Int
      BY <1>1, <2>1
    <3>. QED
      BY <1>1, <3>1
  <2>3. ~(U <= 0)
    <3>1. SUFFICES ASSUME U <= 0 PROVE FALSE
      OBVIOUS
    <3>2. U * GroupBits <= 0 * GroupBits
      BY <1>1, <2>1, <3>1, ScaleUp
    <3>3. 0 * GroupBits = 0 /\ U * GroupBits \in Int
      BY <1>1, <2>1
    <3>. QED
      BY <1>1, <2>2, <3>2, <3>3
  <2>. QED
    BY <2>1, <2>3
<1>3. GroupBits - 1 \in Nat /\ (GroupBits - 1) + 1 = GroupBits
  BY <1>1
<1>4. Base = 2 * 2 ^ (GroupBits - 1) /\ 2 ^ (GroupBits - 1) \in Nat \ {0}
  <2>1. 2 ^ ((GroupBits - 1) + 1) = 2 * 2 ^ (GroupBits - 1)
    BY <1>3, PowerStep
  <2>2. 2 ^ (GroupBits - 1) \in Nat /\ 2 ^ (GroupBits - 1) >= 1
    BY <1>3, PowerPositive
  <2>. QED
    BY <1>3, <2>1, <2>2 DEF Base
<1>5. U * GroupBits \in Nat /\ WordBits - 1 = U * GroupBits
  BY <1>1, <1>2
<1>6. Half64 = Power(U) /\ Power(U) \in Nat /\ Power(U) >= 1
  BY <1>1, <1>5, PowerPositive DEF Power
<1>. QED
  BY <1>1, <1>2, <1>4, <1>6

\* What a word of so many groups holds, and one of one group more.
LEMMA PowersOfBase ==
  ASSUME NEW k \in Nat
  PROVE  /\ Power(k) \in Nat \ {0}
         /\ Power(k + 1) = Power(k) * Base
         /\ \A j \in Nat : k <= j => Power(k) <= Power(j)
         /\ Power(0) = 1 /\ Power(1) = Base
<1>1. k * GroupBits \in Nat /\ GroupBits \in Nat
  BY Sizes
<1>2. Power(k) \in Nat \ {0}
  BY <1>1, PowerPositive DEF Power
<1>3. Power(k + 1) = Power(k) * Base
  <2>1. (k + 1) * GroupBits = k * GroupBits + GroupBits
    BY <1>1
  <2>. QED
    BY <1>1, <2>1, PowerSum DEF Power, Base
<1>4. ASSUME NEW j \in Nat, k <= j PROVE Power(k) <= Power(j)
  <2>1. PICK d \in Nat : j * GroupBits = k * GroupBits + d
    <3>1. k * GroupBits <= j * GroupBits
      BY <1>1, <1>4, ScaleUp
    <3>2. j * GroupBits - k * GroupBits \in Nat
      BY <1>1, <3>1
    <3>. QED
      BY <1>1, <3>2
  <2>2. Power(j) = Power(k) * 2 ^ d
    BY <1>1, <2>1, PowerSum DEF Power
  <2>3. 2 ^ d \in Nat /\ 1 <= 2 ^ d
    BY PowerPositive
  <2>4. 1 * Power(k) <= 2 ^ d * Power(k)
    BY <1>2, <2>3, ScaleUp
  <2>. QED
    BY <1>2, <2>2, <2>3, <2>4
<1>5. Power(0) = 1 /\ Power(1) = Base
  <2>1. 0 * GroupBits = 0 /\ 1 * GroupBits = GroupBits
    BY <1>1
  <2>2. 2 ^ 0 = 1
    OBVIOUS
  <2>. QED
    BY <2>1, <2>2 DEF Power, Base
<1>. QED
  BY <1>2, <1>3, <1>4, <1>5

-----------------------------------------------------------------------------
(* EntityReader: what the accumulator holds.                               *)

\* The values of a word.
WordRange(sg) == IF sg THEN -Half64 .. Half64 - 1 ELSE 0 .. 2 * Half64 - 1

\* The accumulator after k groups: what k groups can say, or else a word.
Within(sg, k, v) ==
  /\ v \in Int
  /\ IF k > U THEN v \in WordRange(sg)
     ELSE IF sg THEN -Power(k) <= 2 * v /\ 2 * v < Power(k)
     ELSE 0 <= v /\ v < Power(k)

\* A conversion to a word.
Converted(sg, n) == IF sg THEN Entity!ToInt64(n) ELSE Entity!ToUint64(n)

\* What LosesBits asks of a word.
Loses(sg, v) ==
  IF sg THEN Converted(sg, v * Base) \div Base # v ELSE v > (2 * Half64 - 1) \div Base

\* The accumulator is a word.
LEMMA WithinIsWord ==
  ASSUME NEW sg \in BOOLEAN, NEW k \in Nat, NEW v, Within(sg, k, v)
  PROVE  v \in WordRange(sg)
<1>1. CASE k > U
  BY <1>1 DEF Within
<1>2. CASE ~(k > U)
  <2>1. U \in Nat /\ k <= U
    BY <1>2, Sizes
  <2>2. Power(k) <= Half64 /\ Power(k) \in Nat \ {0} /\ Half64 \in Nat \ {0}
    BY <2>1, Sizes, PowersOfBase
  <2>. QED
    BY <1>2, <2>2 DEF Within, WordRange
<1>. QED
  BY <1>1, <1>2

\* A conversion makes a word, and leaves a word as it is.
LEMMA ConvertedWord ==
  ASSUME NEW sg \in BOOLEAN, NEW n \in Int
  PROVE  /\ Converted(sg, n) \in WordRange(sg)
         /\ \E k \in Int : Converted(sg, n) = n - k * (2 * Half64)
         /\ n \in WordRange(sg) => Converted(sg, n) = n
<1>1. Half64 \in Nat \ {0} /\ 2 * Half64 \in Nat \ {0}
  BY Sizes
<1>2. CASE sg
  <2>1. /\ ((n + Half64) % (2 * Half64)) - Half64 \in -Half64 .. Half64 - 1
        /\ \E k \in Int : ((n + Half64) % (2 * Half64)) - Half64 = n - k * (2 * Half64)
        /\ n \in -Half64 .. Half64 - 1 => ((n + Half64) % (2 * Half64)) - Half64 = n
    BY <1>1, SignedWord
  <2>2. Converted(sg, n) = ((n + Half64) % (2 * Half64)) - Half64
        /\ WordRange(sg) = -Half64 .. Half64 - 1
    BY <1>2 DEF Converted, WordRange, Entity!ToInt64
  <2>. QED
    BY <2>1, <2>2
<1>3. CASE ~sg
  <2>. DEFINE m == 2 * Half64
  <2>1. /\ n % m \in 0 .. m - 1
        /\ \E k \in Int : n % m = n - k * m
        /\ n \in 0 .. m - 1 => n % m = n
    <3>1. m \in Nat \ {0}
      BY <1>1
    <3>. HIDE DEF m
    <3>. QED
      BY <3>1, UnsignedWord
  <2>. QED
    BY <1>3, <2>1 DEF Converted, WordRange, Entity!ToUint64
<1>. QED
  BY <1>2, <1>3

\* The first group is within what one group can say.
LEMMA FirstFits ==
  ASSUME NEW sg \in BOOLEAN, NEW b \in 0 .. Base - 1
  PROVE  Within(sg, 1, IF sg THEN Entity!SignExtended(b) ELSE b)
<1>1. PICK h \in Nat \ {0} : Base = 2 * h
  BY Sizes
<1>2. U \in Nat \ {0} /\ ~(1 > U) /\ Power(1) = Base
  BY Sizes, PowersOfBase
<1>3. Base \div 2 = h
  <2>1. (h * 2) \div 2 = h /\ h * 2 = Base
    BY <1>1, Multiple
  <2>. QED
    BY <2>1
<1>4. Entity!SignExtended(b) = IF b >= h THEN b - Base ELSE b
  BY <1>3 DEF Entity!SignExtended, Entity!Base, Base
<1>. QED
  BY <1>1, <1>2, <1>4 DEF Within

\* Groups that go unchecked.
LEMMA GrowsUnchecked ==
  ASSUME NEW sg \in BOOLEAN, NEW k \in Nat \ {0}, k < U, NEW v, Within(sg, k, v),
         NEW b \in 0 .. Base - 1
  PROVE  /\ Converted(sg, v * Base) = v * Base
         /\ Within(sg, k + 1, v * Base + b)
<1>1. /\ Base \in Nat \ {0} /\ U \in Nat
      /\ Power(k) \in Nat \ {0} /\ Power(k + 1) = Power(k) * Base
  BY Sizes, PowersOfBase
<1>2. PICK h \in Int : Power(k) = 2 * h
  <2>1. k - 1 \in Nat /\ Power(k - 1) \in Nat /\ Power((k - 1) + 1) = Power(k - 1) * Base
    <3>1. k - 1 \in Nat
      OBVIOUS
    <3>. QED
      BY <3>1, PowersOfBase
  <2>2. PICK e \in Nat : Base = 2 * e
    BY Sizes
  <2>3. Power(k) = 2 * (Power(k - 1) * e) /\ Power(k - 1) * e \in Int
    BY <2>1, <2>2
  <2>. QED
    BY <2>3
<1>3. v \in Int /\ ~(k > U) /\ ~(k + 1 > U)
  BY <1>1 DEF Within
<1>. DEFINE w == v * Base
<1>4. w \in Int
  BY <1>1, <1>3
<1>5. CASE sg
  <2>1. -h <= v /\ v <= h - 1
    BY <1>2, <1>3, <1>5 DEF Within
  <2>2. (-h) * Base <= w /\ w <= (h - 1) * Base
    <3>1. -h \in Int /\ h - 1 \in Int /\ Base \in Nat
      BY <1>1
    <3>. QED
      BY <1>3, <2>1, <3>1, ScaleUp
  <2>3. (-h) * Base = -(h * Base) /\ (h - 1) * Base = h * Base - Base /\ h * Base \in Int
        /\ Power(k + 1) = 2 * (h * Base)
    BY <1>1, <1>2
  <2>. HIDE DEF w
  <2>4. -Power(k + 1) <= 2 * w /\ 2 * (w + b) < Power(k + 1) /\ 2 * w < Power(k + 1) /\ -Power(k + 1) <= 2 * (w + b)
    BY <1>1, <1>4, <2>2, <2>3
  <2>5. Within(sg, k + 1, w) /\ Within(sg, k + 1, w + b)
    BY <1>3, <1>4, <1>5, <2>4 DEF Within
  <2>6. Converted(sg, w) = w
    BY <1>4, <2>5, WithinIsWord, ConvertedWord
  <2>. QED
    BY <2>5, <2>6 DEF w
<1>6. CASE ~sg
  <2>1. 0 <= v /\ v <= Power(k) - 1
    BY <1>1, <1>3, <1>6 DEF Within
  <2>2. 0 * Base <= w /\ w <= (Power(k) - 1) * Base
    <3>1. Power(k) - 1 \in Int /\ Base \in Nat /\ 0 \in Int
      BY <1>1
    <3>. QED
      BY <1>3, <2>1, <3>1, ScaleUp
  <2>3. 0 * Base = 0 /\ (Power(k) - 1) * Base = Power(k + 1) - Base /\ Power(k + 1) \in Int
    BY <1>1
  <2>. HIDE DEF w
  <2>4. 0 <= w /\ w + b < Power(k + 1) /\ w < Power(k + 1) /\ 0 <= w + b
    BY <1>1, <1>4, <2>2, <2>3
  <2>5. Within(sg, k + 1, w) /\ Within(sg, k + 1, w + b)
    BY <1>3, <1>4, <1>6, <2>4 DEF Within
  <2>6. Converted(sg, w) = w
    BY <1>4, <2>5, WithinIsWord, ConvertedWord
  <2>. QED
    BY <2>5, <2>6 DEF w
<1>. QED
  BY <1>5, <1>6

\* The group that is checked.
LEMMA GrowsChecked ==
  ASSUME NEW sg \in BOOLEAN, NEW v, Within(sg, U, v), NEW b \in 0 .. Base - 1
  PROVE  /\ ~Loses(sg, v) => /\ Converted(sg, v * Base) = v * Base
                             /\ Within(sg, U + 1, v * Base + b)
         /\ Loses(sg, v) => v * Base + b \notin WordRange(sg)
<1>1. /\ Base \in Nat \ {0} /\ U \in Nat \ {0} /\ Half64 \in Nat \ {0}
  BY Sizes
<1>2. PICK q \in Nat : Half64 = q * Base
  <2>1. U - 1 \in Nat /\ Power(U - 1) \in Nat /\ Power((U - 1) + 1) = Power(U - 1) * Base
    <3>1. U - 1 \in Nat
      BY <1>1
    <3>. QED
      BY <3>1, PowersOfBase
  <2>2. (U - 1) + 1 = U
    BY <1>1
  <2>. QED
    BY <2>1, <2>2, Sizes
<1>. DEFINE w == v * Base
<1>3. v \in Int /\ w \in Int /\ U + 1 > U
  BY <1>1 DEF Within
<1>4. \A x \in Int : v <= x => w <= x * Base
  BY <1>1, <1>3, ScaleUp
<1>5. \A x \in Int : x <= v => x * Base <= w
  BY <1>1, <1>3, ScaleUp
<1>6. CASE ~sg
  <2>1. (2 * Half64 - 1) \div Base = 2 * q - 1
    <3>1. (2 * q - 1) * Base = 2 * (q * Base) - Base
      BY <1>1
    <3>. DEFINE a == 2 * Half64 - 1
                p == 2 * q - 1
                r == Base - 1
    <3>2. a = p * Base + r /\ r \in 0 .. Base - 1 /\ p \in Int /\ a \in Int
      BY <1>1, <1>2, <3>1
    <3>. HIDE DEF a, p, r
    <3>3. a \div Base = p
      BY <1>1, <3>2, Quotient
    <3>. QED
      BY <3>3 DEF a, p
  <2>2. Loses(sg, v) <=> v >= 2 * q
    BY <1>2, <1>3, <1>6, <2>1 DEF Loses
  <2>3. 0 <= v
    BY <1>1, <1>6 DEF Within
  <2>4. ASSUME v >= 2 * q PROVE w + b \notin WordRange(sg)
    <3>1. (2 * q) * Base <= w /\ (2 * q) * Base = 2 * Half64
      <4>1. (2 * q) * Base = 2 * (q * Base) /\ 2 * q \in Int
        BY <1>1
      <4>. QED
        BY <1>2, <1>5, <2>4, <4>1
    <3>. HIDE DEF w
    <3>. QED
      BY <1>1, <1>3, <1>6, <3>1 DEF WordRange
  <2>5. ASSUME ~(v >= 2 * q)
        PROVE  Converted(sg, w) = w /\ Within(sg, U + 1, w + b)
    <3>1. w <= (2 * q - 1) * Base /\ 0 * Base <= w
      <4>1. v <= 2 * q - 1 /\ 2 * q - 1 \in Int
        BY <1>3, <2>5
      <4>. QED
        BY <1>4, <1>5, <2>3, <4>1
    <3>2. (2 * q - 1) * Base = 2 * Half64 - Base /\ 0 * Base = 0
      <4>1. (2 * q - 1) * Base = 2 * (q * Base) - Base
        BY <1>1
      <4>. QED
        BY <1>1, <1>2, <4>1
    <3>. HIDE DEF w
    <3>3. w \in WordRange(sg) /\ w + b \in WordRange(sg)
      BY <1>1, <1>3, <1>6, <3>1, <3>2 DEF WordRange
    <3>. QED
      BY <1>3, <3>3, ConvertedWord DEF Within
  <2>. QED
    BY <2>2, <2>4, <2>5
<1>7. CASE sg
  <2>1. PICK k \in Int : Converted(sg, w) = w - k * (2 * Half64)
    <3>. HIDE DEF w
    <3>. QED
      BY <1>3, ConvertedWord
  <2>2. Converted(sg, w) = (v - k * (2 * q)) * Base
    <3>1. (v - k * (2 * q)) * Base = v * Base - k * (2 * (q * Base))
      BY <1>1, <1>3
    <3>. QED
      BY <1>2, <2>1, <3>1
  <2>3. Converted(sg, w) \div Base = v - k * (2 * q)
    <3>1. v - k * (2 * q) \in Int
      BY <1>3
    <3>. QED
      BY <1>1, <2>2, <3>1, Multiple
  <2>4. ~Loses(sg, v) => Converted(sg, w) = w
    <3>1. SUFFICES ASSUME ~Loses(sg, v) PROVE Converted(sg, w) = w
      OBVIOUS
    <3>2. v - k * (2 * q) = v
      BY <1>7, <2>3, <3>1 DEF Loses
    <3>. QED
      BY <2>2, <3>2
  <2>5. w \in WordRange(sg) => ~Loses(sg, v)
    <3>1. SUFFICES ASSUME w \in WordRange(sg) PROVE Converted(sg, w) \div Base = v
      BY <1>7 DEF Loses
    <3>2. Converted(sg, w) = w
      BY <1>3, <3>1, ConvertedWord
    <3>. QED
      BY <1>1, <1>3, <3>2, Multiple
  <2>6. w + b \in WordRange(sg) <=> w \in WordRange(sg)
    <3>1. CASE v <= -q - 1
      <4>1. w <= (-q - 1) * Base /\ (-q - 1) * Base = -Half64 - Base
        <5>1. (-q - 1) * Base = -(q * Base) - Base /\ -q - 1 \in Int
          BY <1>1
        <5>. QED
          BY <1>2, <1>4, <3>1, <5>1
      <4>. HIDE DEF w
      <4>. QED
        BY <1>1, <1>3, <1>7, <4>1 DEF WordRange
    <3>2. CASE -q <= v /\ v <= q - 1
      <4>1. w <= (q - 1) * Base /\ (q - 1) * Base = Half64 - Base
        <5>1. (q - 1) * Base = q * Base - Base /\ q - 1 \in Int
          BY <1>1
        <5>. QED
          BY <1>2, <1>4, <3>2, <5>1
      <4>2. (-q) * Base <= w /\ (-q) * Base = -Half64
        <5>1. (-q) * Base = -(q * Base) /\ -q \in Int
          BY <1>1
        <5>. QED
          BY <1>2, <1>5, <3>2, <5>1
      <4>. HIDE DEF w
      <4>. QED
        BY <1>1, <1>3, <1>7, <4>1, <4>2 DEF WordRange
    <3>3. CASE v >= q
      <4>1. q * Base <= w
        BY <1>5, <3>3
      <4>. HIDE DEF w
      <4>. QED
        BY <1>1, <1>2, <1>3, <1>7, <4>1 DEF WordRange
    <3>. QED
      BY <1>3, <3>1, <3>2, <3>3
  <2>7. ~Loses(sg, v) => w \in WordRange(sg)
    <3>1. Converted(sg, w) \in WordRange(sg)
      <4>. HIDE DEF w
      <4>. QED
        BY <1>3, ConvertedWord
    <3>. QED
      BY <2>4, <3>1
  <2>8. ~Loses(sg, v) => Within(sg, U + 1, w + b)
    <3>. HIDE DEF w
    <3>. QED
      BY <1>3, <2>6, <2>7 DEF Within
  <2>. QED
    BY <2>4, <2>5, <2>6, <2>8
<1>. QED
  BY <1>6, <1>7

\* What one entity's read has come to.
ReadSoFar ==
  /\ signed \in BOOLEAN
  /\ groups \in 0 .. U + 2
  /\ status \in {"reading", Entity!NoError, Entity!EndOfStream, Entity!Overflow}
  /\ data \in Seq(0 .. Base - 1) /\ Len(data) = groups
  /\ status = "reading" => groups <= U + 1
  /\ groups = 0 => val = 0 /\ status \notin {Entity!NoError, Entity!Overflow}
  /\ status \in {Entity!EndOfStream, Entity!Overflow} => val = 0
  /\ groups > 0 /\ status \in {"reading", Entity!NoError} =>
       val = Encoded(signed, data) /\ Within(signed, groups, val)
  /\ status = Entity!Overflow =>
       groups > U + 1 \/ Encoded(signed, data) \notin WordRange(signed)

\* The names of EntityReader, by those used here.
LEMMA Names ==
  /\ Entity!Unchecked = U /\ Entity!Limit = U + 1
  /\ Entity!Base = Base /\ Entity!Group = 0 .. Base - 1
  /\ Entity!Reading = "reading"
  /\ (Entity!LosesBits <=> Loses(signed, val))
  /\ \A n : Entity!ShiftLeft(n) = Converted(signed, n * Base)
BY DEF U, Base, Entity!Limit, Entity!Base, Entity!Group, Entity!Reading, Entity!LosesBits,
       Loses, Converted, Entity!ShiftLeft, Entity!ShiftRight, Entity!Word

\* It holds initially,
LEMMA ReadStarts == Entity!Init => ReadSoFar
BY Sizes DEF Entity!Init, ReadSoFar, Entity!Reading, Entity!NoError, Entity!Overflow, Entity!EndOfStream

\* and every byte keeps it: each of the loops grows the accumulator as it may.
LEMMA ReadGoesOn ==
  ReadSoFar /\ [Entity!Next]_entityVars => ReadSoFar'
<1>. SUFFICES ASSUME ReadSoFar, [Entity!Next]_entityVars PROVE ReadSoFar'
  OBVIOUS
<1>1. CASE UNCHANGED entityVars
  BY <1>1 DEF entityVars, ReadSoFar
<1>2. CASE Entity!Again
  BY <1>2, Sizes DEF Entity!Again, ReadSoFar, Entity!Reading, Entity!NoError, Entity!Overflow, Entity!EndOfStream
<1>3. CASE Entity!CutShort
  BY <1>3, Sizes DEF Entity!CutShort, ReadSoFar, Entity!Reading, Entity!NoError, Entity!Overflow, Entity!EndOfStream
<1>. USE Sizes
<1>4. ASSUME NEW b \in 0 .. Base - 1, NEW v, NEW stop \in BOOLEAN,
             Entity!Accumulate(v, b, stop), status = "reading", groups <= U,
             v = Encoded(signed, Append(data, b)), Within(signed, groups + 1, v)
      PROVE  ReadSoFar'
  <2>1. data' \in Seq(0 .. Base - 1) /\ Len(data') = groups' /\ groups' \in 1 .. U + 1
    BY <1>4 DEF Entity!Accumulate, ReadSoFar
  <2>. QED
    BY <1>4, <2>1 DEF Entity!Accumulate, ReadSoFar, Entity!Reading, Entity!NoError, Entity!Overflow, Entity!EndOfStream
<1>5. ASSUME NEW b \in 0 .. Base - 1, NEW stop \in BOOLEAN, Entity!First(b, stop)
      PROVE  ReadSoFar'
  <2>1. data = <<>> /\ Append(data, b) = <<b>> /\ signed \in BOOLEAN
    BY <1>5 DEF Entity!First, ReadSoFar
  <2>2. Entity!FirstGroup(b) = Encoded(signed, Append(data, b))
    BY <2>1, EncodedOne DEF Entity!FirstGroup
  <2>3. Within(signed, 1, Entity!FirstGroup(b))
    BY <2>1, FirstFits DEF Entity!FirstGroup
  <2>. QED
    BY <1>4, <1>5, <2>2, <2>3 DEF Entity!First, Entity!Reading
<1>6. ASSUME NEW b \in 0 .. Base - 1, status = "reading", groups > 0
      PROVE  /\ Encoded(signed, Append(data, b)) = val * Base + b
             /\ signed \in BOOLEAN /\ groups \in Nat \ {0} /\ Within(signed, groups, val)
  <2>1. data # <<>> /\ data \in Seq(0 .. Base - 1) /\ val = Encoded(signed, data)
        /\ Within(signed, groups, val) /\ signed \in BOOLEAN /\ groups \in Nat \ {0}
    BY <1>6 DEF ReadSoFar
  <2>. QED
    BY <2>1, EncodedMore DEF Base
<1>7. ASSUME NEW b \in 0 .. Base - 1, NEW stop \in BOOLEAN, Entity!More(b, stop)
      PROVE  ReadSoFar'
  <2>1. status = "reading" /\ groups > 0 /\ groups < U
        /\ Entity!Accumulate(Converted(signed, val * Base) + b, b, stop)
    BY <1>7, Names DEF Entity!More
  <2>2. Converted(signed, val * Base) = val * Base /\ Within(signed, groups + 1, val * Base + b)
    BY <1>6, <2>1, GrowsUnchecked
  <2>. QED
    BY <1>4, <1>6, <2>1, <2>2
<1>8. ASSUME NEW b \in 0 .. Base - 1, NEW stop \in BOOLEAN, Entity!Checked(b, stop)
      PROVE  ReadSoFar'
  <2>1. status = "reading" /\ groups >= U /\ groups < U + 1 /\ ~Loses(signed, val)
        /\ Entity!Accumulate(Converted(signed, val * Base) + b, b, stop)
    BY <1>8, Names DEF Entity!Checked
  <2>2. groups = U /\ groups > 0
    BY <2>1 DEF ReadSoFar
  <2>3. Converted(signed, val * Base) = val * Base /\ Within(signed, groups + 1, val * Base + b)
    BY <1>6, <2>1, <2>2, GrowsChecked
  <2>. QED
    BY <1>4, <1>6, <2>1, <2>2, <2>3
<1>9. ASSUME NEW b \in 0 .. Base - 1, Entity!Refused(b)
      PROVE  ReadSoFar'
  <2>1. status = "reading" /\ groups >= U /\ (groups >= U + 1 \/ Loses(signed, val))
        /\ status' = Entity!Overflow /\ val' = 0 /\ groups' = groups + 1
        /\ data' = Append(data, b) /\ signed' = signed
    BY <1>9, Names DEF Entity!Refused
  <2>2. groups > 0 /\ groups \in 0 .. U + 1
    BY <2>1 DEF ReadSoFar
  <2>3. groups' > U + 1 \/ Encoded(signed, Append(data, b)) \notin WordRange(signed)
    <3>1. CASE groups >= U + 1
      BY <2>1, <2>2, <3>1
    <3>2. CASE ~(groups >= U + 1)
      <4>1. groups = U /\ Loses(signed, val)
        BY <2>1, <2>2, <3>2
      <4>. QED
        BY <1>6, <2>1, <2>2, <4>1, GrowsChecked
    <3>. QED
      BY <3>1, <3>2
  <2>4. data' \in Seq(0 .. Base - 1) /\ Len(data') = groups'
    BY <2>1 DEF ReadSoFar
  <2>. QED
    BY <2>1, <2>2, <2>3, <2>4 DEF ReadSoFar, Entity!NoError, Entity!EndOfStream, Entity!Overflow
<1>. QED
  BY <1>1, <1>2, <1>3, <1>5, <1>7, <1>8, <1>9, Names DEF Entity!Next, Entity!Byte

\* It is what the properties of EntityReader need.
LEMMA ReadIsRight == ReadSoFar => Entity!ExactOrRefused /\ Entity!TypeOK
<1>. SUFFICES ASSUME ReadSoFar PROVE Entity!ExactOrRefused /\ Entity!TypeOK
  OBVIOUS
<1>. DEFINE n == Entity!Exact(data)
<1>1. n = Encoded(signed, data)
  BY ExactIsEncoded
<1>2. /\ Entity!AsWire.err = IF n \in WordRange(signed) THEN Entity!NoError ELSE Entity!Overflow
      /\ n \in WordRange(signed) => Entity!AsWire.val = n
  <2>. HIDE DEF n
  <2>. DEFINE w == [pm |-> <<>>, buf |-> <<n>>]
  <2>1. w.buf # <<>> /\ Head(w.buf) = n
    OBVIOUS
  <2>2. Entity!AsWire = IF signed THEN Entity!ReadInt(w) ELSE Entity!ReadUint(w)
    BY DEF Entity!AsWire, n
  <2>. HIDE DEF w
  <2>. QED
    BY <2>1, <2>2 DEF Entity!ReadInt, Entity!ReadUint, Entity!ReadEntity, WordRange, Entity!Int64, Entity!Uint64
<1>. HIDE DEF n
<1>3. signed \in BOOLEAN /\ groups \in Nat
  BY DEF ReadSoFar
<1>4. status = Entity!NoError => groups > 0 /\ val = n /\ n \in WordRange(signed)
  BY <1>1, <1>3, WithinIsWord DEF ReadSoFar
<1>5. status = Entity!Overflow => groups > U + 1 \/ n \notin WordRange(signed)
  BY <1>1 DEF ReadSoFar
<1>6. Entity!ExactOrRefused
  BY <1>2, <1>4, <1>5, Names DEF Entity!ExactOrRefused
<1>7. val \in WordRange(signed)
  <2>1. CASE groups > 0 /\ status \in {"reading", Entity!NoError}
    BY <1>3, <2>1, WithinIsWord DEF ReadSoFar
  <2>2. CASE ~(groups > 0 /\ status \in {"reading", Entity!NoError})
    <3>1. val = 0
      BY <1>3, <2>2 DEF ReadSoFar
    <3>. QED
      BY <3>1, Sizes DEF WordRange
  <2>. QED
    BY <2>1, <2>2
<1>8. Entity!TypeOK
  BY <1>7, Names, Sizes DEF ReadSoFar, Entity!TypeOK, WordRange, Entity!Int64, Entity!Uint64
<1>. QED
  BY <1>6, <1>8

-----------------------------------------------------------------------------
(* Timestamps.                                                             *)

\* n and e are the same but for whole turns.
OffBy(n, e, turn) == \E k \in Int : n = e - k * turn

\* Whole turns are what a remainder of zero says.
LEMMA OffByWhole ==
  ASSUME NEW n \in Int, NEW e \in Int, NEW turn \in Nat \ {0}, OffBy(n, e, turn)
  PROVE  (n - e) % turn = 0
<1>1. PICK k \in Int : n = e - k * turn
  BY DEF OffBy
<1>2. n - e = (-k) * turn /\ -k \in Int
  <2>1. (-k) * turn = -(k * turn) /\ k * turn \in Int
    OBVIOUS
  <2>. QED
    BY <1>1, <2>1
<1>. QED
  BY <1>2, Multiple

\* A conversion to a word is off by whole turns of it.
LEMMA TimeWord ==
  ASSUME NEW n \in Int
  PROVE  /\ Time!ToInt64(n) \in Int /\ OffBy(Time!ToInt64(n), n, 2 * Half64)
         /\ n \in Time!Int64 => Time!ToInt64(n) = n
<1>1. Half64 \in Nat \ {0}
  BY Sizes
<1>2. /\ Time!ToInt64(n) \in -Half64 .. Half64 - 1
      /\ \E k \in Int : Time!ToInt64(n) = n - k * (2 * Half64)
      /\ n \in -Half64 .. Half64 - 1 => Time!ToInt64(n) = n
  BY <1>1, SignedWord DEF Time!ToInt64
<1>. QED
  BY <1>1, <1>2 DEF Time!Int64, OffBy

\* What one of a unit is, in nanoseconds.
Worth(u) == IF u = "Day" THEN SecondsPerDay * Nanos.Second ELSE Nanos[u]

\* What a timestamp in a unit may be off by.
Turn(u) == 2 * Half64 * (IF u \in {"Day", "Second"} THEN Nanos.Second ELSE 1)

\* Units are positive.
LEMMA UnitSizes ==
  /\ SecondsPerDay \in Nat \ {0} /\ Nanos.Second \in Nat \ {0}
  /\ UnixToInternal \in Nat /\ ((Half64 - 1) \div Nanos.Second) + UnixToInternal < Half64
  /\ \A u \in Time!Units \ {"Day"} : Nanos[u] \in Nat \ {0}
BY PartsAssumption DEF Time!UnitAssumption, Time!Units

\* What a conversion makes of a count.
IsRight(n, u, i, d) ==
  LET exact == n * Worth(u)
      since == exact + UnixToInternal * Nanos.Second
  IN  /\ i \in Int /\ d \in Int
      /\ OffBy(i, since, Turn(u)) /\ OffBy(d, exact, 2 * Half64)
      /\ exact \in Time!Int64 => i = since /\ d = exact
      /\ u \in {"Day", "Second"} /\ since \div Nanos.Second \in Time!Int64 => i = since

\* A duration is exact, or off by whole turns of its word.
LEMMA DurationIsRight ==
  ASSUME NEW n \in Int, NEW u \in Time!Units
  PROVE  LET exact == n * Worth(u)
         IN  /\ exact \in Int /\ Time!Duration(n, u) \in Int
             /\ OffBy(Time!Duration(n, u), exact, 2 * Half64)
             /\ exact \in Time!Int64 => Time!Duration(n, u) = exact
<1>. DEFINE exact == n * Worth(u)
<1>1. Worth(u) \in Nat
  BY UnitSizes DEF Worth
<1>2. exact \in Int
  BY <1>1
<1>3. Time!Duration(n, u) = Time!ToInt64(exact)
  <2>1. n * SecondsPerDay * Nanos.Second = n * (SecondsPerDay * Nanos.Second)
    BY UnitSizes
  <2>. QED
    BY <2>1 DEF Time!Duration, Worth
<1>. HIDE DEF exact
<1>. QED
  BY <1>2, <1>3, TimeWord DEF exact

\* The seconds of a word of nanoseconds fit between the year 1 and the last
\* second that a word can count from there.
LEMMA SecondsFit ==
  ASSUME NEW q \in Int, NEW r \in 0 .. Nanos.Second - 1,
         q * Nanos.Second + r \in Time!Int64
  PROVE  q + UnixToInternal \in Time!Int64
<1>. DEFINE top == (Half64 - 1) \div Nanos.Second
            rest == (Half64 - 1) % Nanos.Second
<1>1. PICK ns \in Nat \ {0} : ns = Nanos.Second
  BY UnitSizes
<1>2. Half64 \in Nat \ {0} /\ UnixToInternal \in Nat /\ top + UnixToInternal < Half64
  BY Sizes, UnitSizes
<1>3. top \in Int /\ rest \in 0 .. ns - 1 /\ Half64 - 1 = top * ns + rest
  <2>1. PICK h \in Int : h = Half64 - 1
    BY <1>2
  <2>2. h \div ns \in Int /\ h % ns \in 0 .. ns - 1 /\ h = (h \div ns) * ns + (h % ns)
    BY Division
  <2>. QED
    BY <1>1, <2>1, <2>2
<1>. HIDE DEF top, rest
<1>4. q * ns + r >= -Half64 /\ q * ns + r <= top * ns + rest /\ r \in 0 .. ns - 1
  BY <1>1, <1>2, <1>3 DEF Time!Int64
<1>5. q <= top
  <2>1. SUFFICES ASSUME q >= top + 1 PROVE FALSE
    BY <1>3
  <2>2. (top + 1) * ns <= q * ns /\ (top + 1) * ns = top * ns + ns
    <3>1. top + 1 \in Int /\ (top + 1) * ns = top * ns + ns
      BY <1>3
    <3>. QED
      BY <2>1, <3>1, ScaleUp
  <2>3. PICK a \in Int, b \in Int : a = q * ns /\ b = top * ns
    BY <1>3
  <2>. QED
    BY <1>1, <1>3, <1>4, <2>2, <2>3
<1>6. q >= -Half64
  <2>1. SUFFICES ASSUME q + 1 <= -Half64 PROVE FALSE
    BY <1>2
  <2>2. (q + 1) * ns <= (-Half64) * ns /\ (q + 1) * ns = q * ns + ns
    <3>1. q + 1 \in Int /\ -Half64 \in Int /\ (q + 1) * ns = q * ns + ns
      BY <1>2
    <3>. QED
      BY <2>1, <3>1, ScaleUp
  <2>3. 1 * Half64 <= ns * Half64 /\ (-Half64) * ns = -(ns * Half64) /\ ns * Half64 \in Int
    BY <1>2, ScaleUp
  <2>4. PICK a \in Int : a = q * ns
    OBVIOUS
  <2>. QED
    BY <1>1, <1>2, <1>4, <2>2, <2>3, <2>4
<1>. QED
  BY <1>2, <1>3, <1>5, <1>6 DEF Time!Int64

\* A word of nanoseconds is an exact time.
LEMMA UnixNanoseconds ==
  ASSUME NEW w \in Time!Int64
  PROVE  Time!unix(0, w) = w + UnixToInternal * Nanos.Second
<1>. DEFINE q == w \div Nanos.Second
            r == w % Nanos.Second
<1>1. w \in Int /\ Nanos.Second \in Nat \ {0} /\ UnixToInternal \in Nat
  BY Sizes, UnitSizes DEF Time!Int64
<1>2. q \in Int /\ r \in 0 .. Nanos.Second - 1 /\ w = q * Nanos.Second + r
  BY <1>1, Division
<1>3. Time!unix(0, w) = Time!ToInt64(0 + q + UnixToInternal) * Nanos.Second + r
  BY DEF Time!unix
<1>. HIDE DEF q, r
<1>4. 0 + q + UnixToInternal = q + UnixToInternal /\ q + UnixToInternal \in Int
  BY <1>1, <1>2
<1>5. Time!ToInt64(q + UnixToInternal) = q + UnixToInternal
  BY <1>2, <1>4, SecondsFit, TimeWord
<1>6. (q + UnixToInternal) * Nanos.Second = q * Nanos.Second + UnixToInternal * Nanos.Second
  BY <1>1, <1>2
<1>7. PICK a \in Int, b \in Int : a = q * Nanos.Second /\ b = UnixToInternal * Nanos.Second
  BY <1>1, <1>2
<1>. QED
  BY <1>2, <1>3, <1>4, <1>5, <1>6, <1>7

\* Two members of a word that differ by whole turns of it are the same.
LEMMA SameInWord ==
  ASSUME NEW v \in Time!Int64, NEW t \in Time!Int64, NEW m \in Int,
         v = t - m * (2 * Half64)
  PROVE  v = t
<1>1. Half64 \in Nat \ {0} /\ v \in Int /\ t \in Int /\ 2 * Half64 \in Nat
  BY Sizes DEF Time!Int64
<1>2. v - t < 2 * Half64 /\ t - v < 2 * Half64 /\ m * (2 * Half64) = t - v
  BY <1>1 DEF Time!Int64
<1>3. ~(m >= 1)
  <2>1. m >= 1 => 1 * (2 * Half64) <= m * (2 * Half64)
    BY <1>1, ScaleUp
  <2>. QED
    BY <1>1, <1>2, <2>1
<1>4. ~(m <= -1)
  <2>1. m <= -1 => m * (2 * Half64) <= (-1) * (2 * Half64)
    BY <1>1, ScaleUp
  <2>. QED
    BY <1>1, <1>2, <2>1
<1>5. m = 0
  BY <1>3, <1>4
<1>. QED
  BY <1>1, <1>5

\* The seconds of a time turn with the words that they come through.
LEMMA UnixSeconds ==
  ASSUME NEW s \in Int
  PROVE  LET i == Time!unix(Time!ToInt64(s), 0)
             since == s * Nanos.Second + UnixToInternal * Nanos.Second
         IN  /\ i \in Int /\ OffBy(i, since, 2 * Half64 * Nanos.Second)
             /\ s * Nanos.Second \in Time!Int64 => i = since
             /\ since \div Nanos.Second \in Time!Int64 => i = since
<1>. DEFINE ns == Nanos.Second
            i == Time!unix(Time!ToInt64(s), 0)
            t == s + UnixToInternal
            v == Time!ToInt64(Time!ToInt64(s) + UnixToInternal)
<1>1. Half64 \in Nat \ {0} /\ ns \in Nat \ {0} /\ UnixToInternal \in Nat
  BY Sizes, UnitSizes
<1>2. PICK k \in Int : Time!ToInt64(s) = s - k * (2 * Half64)
  BY TimeWord DEF OffBy
<1>3. Time!ToInt64(s) + UnixToInternal \in Int
  BY <1>1, TimeWord
<1>4. PICK x \in Int, j \in Int :
         x = Time!ToInt64(s) + UnixToInternal /\ v = x - j * (2 * Half64)
  <2>1. PICK x \in Int : x = Time!ToInt64(s) + UnixToInternal
    BY <1>3
  <2>2. PICK j \in Int : Time!ToInt64(x) = x - j * (2 * Half64)
    BY TimeWord DEF OffBy
  <2>3. v = x - j * (2 * Half64)
    BY <2>1, <2>2
  <2>. HIDE DEF v
  <2>. QED
    BY <2>1, <2>3
<1>5. v \in Time!Int64 /\ v \in Int
  <2>1. v \in -Half64 .. Half64 - 1
    BY <1>1, <1>3, SignedWord DEF Time!ToInt64
  <2>. QED
    BY <1>1, <2>1 DEF Time!Int64
<1>6. i = v * ns
  <2>1. 0 \div ns = 0 /\ 0 % ns = 0
    <3>1. 0 * ns = 0
      BY <1>1
    <3>. QED
      BY <1>1, <3>1, Multiple
  <2>2. i = Time!ToInt64(Time!ToInt64(s) + (0 \div ns) + UnixToInternal) * ns + (0 % ns)
    BY DEF Time!unix
  <2>3. Time!ToInt64(s) + 0 + UnixToInternal = Time!ToInt64(s) + UnixToInternal
    BY <1>1, TimeWord
  <2>4. i = v * ns + 0
    BY <2>1, <2>2, <2>3
  <2>. HIDE DEF v
  <2>. QED
    BY <1>1, <1>5, <2>4
<1>. HIDE DEF i, v, ns
<1>7. PICK m \in Int : m = k + j /\ v = t - m * (2 * Half64)
  <2>1. (k + j) * (2 * Half64) = k * (2 * Half64) + j * (2 * Half64)
    BY <1>1
  <2>2. PICK a \in Int, b \in Int : a = k * (2 * Half64) /\ b = j * (2 * Half64)
    BY <1>1
  <2>. QED
    BY <1>1, <1>2, <1>4, <2>1, <2>2
<1>8. t \in Int /\ t * ns = s * ns + UnixToInternal * ns /\ (t * ns) \div ns = t
  BY <1>1, Multiple
<1>. HIDE DEF t
<1>9. t \in Time!Int64 => i = t * ns
  BY <1>5, <1>6, <1>7, SameInWord
<1>10. s * ns \in Time!Int64 => t \in Time!Int64
  <2>1. s * ns = s * ns + 0 /\ 0 \in 0 .. ns - 1
    BY <1>1
  <2>. QED
    BY <2>1, SecondsFit DEF ns, t
<1>11. i \in Int /\ i = t * ns - m * (2 * Half64 * ns)
  <2>1. (t - m * (2 * Half64)) * ns = t * ns - m * (2 * Half64 * ns)
    BY <1>1, <1>8
  <2>. QED
    BY <1>1, <1>5, <1>6, <1>7, <2>1
<1>12. OffBy(i, t * ns, 2 * Half64 * ns)
  BY <1>11 DEF OffBy
<1>. QED
  BY <1>8, <1>9, <1>10, <1>11, <1>12 DEF i, ns

\* So is a timestamp, with the turns of its unit.
LEMMA ConversionIsRight ==
  ASSUME NEW n \in Time!Int64, NEW u \in Time!Units
  PROVE  IsRight(n, u, Time!TimestampUTC(n, u), Time!Duration(n, u))
<1>. DEFINE exact == n * Worth(u)
            since == exact + UnixToInternal * Nanos.Second
            i == Time!TimestampUTC(n, u)
            d == Time!Duration(n, u)
<1>1. /\ Half64 \in Nat \ {0} /\ n \in Int /\ Nanos.Second \in Nat \ {0}
      /\ SecondsPerDay \in Nat \ {0} /\ UnixToInternal \in Nat
  BY Sizes, UnitSizes DEF Time!Int64
<1>2. /\ exact \in Int /\ d \in Int /\ OffBy(d, exact, 2 * Half64)
      /\ exact \in Time!Int64 => d = exact
  BY <1>1, DurationIsRight
<1>3. ASSUME NEW s \in Int, exact = s * Nanos.Second,
             i = Time!unix(Time!ToInt64(s), 0), u \in {"Day", "Second"}
      PROVE  IsRight(n, u, i, d)
  <2>1. /\ i \in Int /\ OffBy(i, since, 2 * Half64 * Nanos.Second)
        /\ exact \in Time!Int64 => i = since
        /\ since \div Nanos.Second \in Time!Int64 => i = since
    BY <1>3, UnixSeconds
  <2>2. Turn(u) = 2 * Half64 * Nanos.Second
    BY <1>3 DEF Turn
  <2>. HIDE DEF i, d
  <2>. QED
    BY <1>2, <2>1, <2>2 DEF IsRight
<1>4. CASE u = "Day"
  <2>1. n * SecondsPerDay \in Int /\ exact = n * SecondsPerDay * Nanos.Second
    BY <1>1, <1>4 DEF Worth
  <2>2. i = Time!unix(Time!ToInt64(n * SecondsPerDay), 0)
    BY <1>4 DEF Time!TimestampUTC
  <2>. HIDE DEF exact, i, d
  <2>. QED
    BY <1>3, <1>4, <2>1, <2>2 DEF i, d
<1>5. CASE u = "Second"
  <2>1. exact = n * Nanos.Second
    BY <1>5 DEF Worth
  <2>2. i = Time!unix(Time!ToInt64(n), 0)
    BY <1>1, <1>5, TimeWord DEF Time!TimestampUTC
  <2>. HIDE DEF exact, i, d
  <2>. QED
    BY <1>1, <1>3, <1>5, <2>1, <2>2 DEF i, d
<1>6. CASE u \notin {"Day", "Second"}
  <2>1. i = Time!unix(0, Time!ToInt64(exact)) /\ Turn(u) = 2 * Half64
    BY <1>1, <1>6 DEF Time!TimestampUTC, Worth, Turn
  <2>. HIDE DEF exact
  <2>2. PICK w \in Int : w = Time!ToInt64(exact)
    BY <1>2, TimeWord
  <2>3. w \in Time!Int64
    <3>1. w \in -Half64 .. Half64 - 1
      BY <1>1, <1>2, <2>2, SignedWord DEF Time!ToInt64
    <3>. QED
      BY <3>1 DEF Time!Int64
  <2>4. i = w + UnixToInternal * Nanos.Second
    BY <2>1, <2>2, <2>3, UnixNanoseconds
  <2>5. PICK c \in Int : c = UnixToInternal * Nanos.Second
    BY <1>1
  <2>6. exact \in Time!Int64 => w = exact
    BY <1>2, <2>2, TimeWord
  <2>7. PICK k \in Int : w = exact - k * (2 * Half64)
    BY <1>2, <2>2, TimeWord DEF OffBy
  <2>8. k * (2 * Half64) \in Int
    BY <1>1
  <2>9. since - k * (2 * Half64) = w + c /\ since \in Int
    <3>1. PICK a \in Int : a = k * (2 * Half64)
      BY <2>8
    <3>. QED
      BY <1>2, <2>5, <2>7, <3>1
  <2>10. i \in Int /\ OffBy(i, since, Turn(u)) /\ (exact \in Time!Int64 => i = since)
    BY <2>1, <2>4, <2>5, <2>6, <2>9 DEF OffBy
  <2>. HIDE DEF i, d
  <2>. QED
    BY <1>2, <1>6, <2>10 DEF IsRight, exact, i, d
<1>. QED
  BY <1>4, <1>5, <1>6

\* The invariant of Timestamps: instant and duration are those of the count.
TimesSoFar == count \in Time!Int64 /\ unit \in Time!Units /\ IsRight(count, unit, instant, duration)

\* It holds initially,
LEMMA TimesStart == Time!Init => TimesSoFar
<1>. SUFFICES ASSUME Time!Init PROVE TimesSoFar
  OBVIOUS
<1>1. 0 \in Time!Int64 /\ "Nanosecond" \in Time!Units
  BY Sizes DEF Time!Int64, Time!Units
<1>2. IsRight(0, "Nanosecond", instant, Time!Duration(0, "Nanosecond"))
  BY <1>1, ConversionIsRight DEF Time!Init
<1>3. 0 * Worth("Nanosecond") = 0
  BY UnitSizes DEF Worth, Time!Units
<1>4. Time!Duration(0, "Nanosecond") = 0
  BY <1>1, <1>2, <1>3 DEF IsRight
<1>. QED
  BY <1>1, <1>2, <1>4 DEF Time!Init, TimesSoFar

\* every conversion keeps it,
LEMMA TimesGoOn == TimesSoFar /\ [Time!Next]_timeVars => TimesSoFar'
<1>. SUFFICES ASSUME TimesSoFar, [Time!Next]_timeVars PROVE TimesSoFar'
  OBVIOUS
<1>1. CASE UNCHANGED timeVars
  BY <1>1 DEF timeVars, TimesSoFar
<1>2. ASSUME NEW n \in Counts, NEW u \in Time!Units, Time!Convert(n, u)
      PROVE  TimesSoFar'
  <2>1. n \in Time!Int64
    BY PartsAssumption DEF Time!UnitAssumption
  <2>2. IsRight(n, u, Time!TimestampUTC(n, u), Time!Duration(n, u))
    BY <2>1, ConversionIsRight
  <2>. QED
    BY <1>2, <2>1, <2>2 DEF Time!Convert, TimesSoFar
<1>. QED
  BY <1>1, <1>2 DEF Time!Next

\* and it is what the property needs.
LEMMA TimesAreRight == TimesSoFar => Time!TimesAreExactOrTurned
<1>. SUFFICES ASSUME TimesSoFar PROVE Time!TimesAreExactOrTurned
  OBVIOUS
<1>. DEFINE e == count * Worth(unit)
            since == e + UnixToInternal * Nanos.Second
<1>1. e = Time!Exact /\ e \in Int /\ since = Time!ExactInstant /\ since \in Int
  <2>1. Worth(unit) \in Nat /\ count \in Int
    BY UnitSizes, Sizes DEF Worth, TimesSoFar, Time!Int64
  <2>2. e = Time!Exact
    BY DEF Worth, Time!Exact
  <2>3. e \in Int /\ since \in Int
    BY <2>1, UnitSizes
  <2>. QED
    BY <2>2, <2>3 DEF Time!ExactInstant
<1>2. /\ instant \in Int /\ duration \in Int
      /\ OffBy(instant, since, Turn(unit)) /\ OffBy(duration, e, 2 * Half64)
      /\ e \in Time!Int64 => instant = since /\ duration = e
      /\ unit \in {"Day", "Second"} /\ since \div Nanos.Second \in Time!Int64
           => instant = since
  BY DEF TimesSoFar, IsRight
<1>3. Turn(unit) \in Nat \ {0} /\ 2 * Half64 \in Nat \ {0}
  BY Sizes, UnitSizes DEF Turn
<1>. HIDE DEF e, since
<1>4. (instant - since) % Turn(unit) = 0 /\ (duration - e) % (2 * Half64) = 0
  BY <1>1, <1>2, <1>3, OffByWhole
<1>. QED
  BY <1>1, <1>2, <1>4 DEF Time!TimesAreExactOrTurned, Turn

-----------------------------------------------------------------------------
(* The bits of an entity or a map, and the number they are the digits of.  *)

\* Dividing by a product is dividing twice.
LEMMA DivideTwice ==
  ASSUME NEW a \in Int, NEW m \in Nat \ {0}, NEW n \in Nat \ {0}
  PROVE  a \div (m * n) = (a \div m) \div n
<1>. DEFINE q == a \div m
            r == a % m
            p == q \div n
            s == q % n
<1>1. q \in Int /\ r \in Int /\ a = q * m + r /\ 0 <= r /\ r < m
  BY Division
<1>2. p \in Int /\ s \in Int /\ q = p * n + s /\ 0 <= s /\ s < n
  <2>. HIDE DEF q
  <2>. QED
    BY <1>1, Division
<1>. HIDE DEF q, r, p, s
<1>3. a = p * (m * n) + (s * m + r) /\ s * m \in Int /\ m * n \in Nat \ {0}
  <2>1. (p * n + s) * m = p * (m * n) + s * m /\ s * m \in Int
    BY <1>1, <1>2
  <2>. QED
    BY <1>1, <1>2, <2>1
<1>4. 0 <= s * m /\ s * m <= m * n - m
  <2>1. 0 * m <= s * m /\ s * m <= (n - 1) * m
    BY <1>2, ScaleUp
  <2>2. (n - 1) * m = m * n - m /\ 0 * m = 0
    OBVIOUS
  <2>. QED
    BY <2>1, <2>2
<1>. DEFINE mn == m * n
            t == s * m + r
<1>5. t \in 0 .. mn - 1 /\ a = p * mn + t /\ mn \in Nat \ {0}
  BY <1>1, <1>3, <1>4
<1>. HIDE DEF mn, t
<1>6. a \div mn = p
  BY <1>2, <1>5, Quotient
<1>. QED
  BY <1>6 DEF mn, p, q

\* Dividing a sum of which one part is a multiple.
LEMMA DivideSum ==
  ASSUME NEW m \in Nat \ {0}, NEW q \in Int, NEW d \in Int
  PROVE  (q * m + d) \div m = q + (d \div m)
<1>. DEFINE e == d \div m
            r == d % m
            a == q * m + d
            s == q + e
<1>1. e \in Int /\ r \in 0 .. m - 1 /\ d = e * m + r
  BY Division
<1>. HIDE DEF e, r
<1>2. a = s * m + r /\ a \in Int /\ s \in Int
  BY <1>1
<1>. HIDE DEF a, s
<1>3. a \div m = s
  BY <1>1, <1>2, Quotient
<1>. QED
  BY <1>3 DEF a, s, e

\* What is even does not change the lowest bit.
LEMMA EvenLess ==
  ASSUME NEW q \in Int, NEW x \in Int
  PROVE  (2 * q + x) % 2 = x % 2
OBVIOUS

-----------------------------------------------------------------------------
\* The values of a group of g bits.
Radix(g) == 2 ^ g

\* There are some.
LEMMA RadixIsNat ==
  ASSUME NEW g \in Nat \ {0}
  PROVE  Radix(g) \in Nat \ {0}
BY PowerPositive DEF Radix

\* The number of which the groups are the digits.
NumberOf(g, gs) == Number(Radix(g), 0, gs)

\* The bit at the place i, counted from 0 at the start of the first group.
BitOf(g, gs, i) == (gs[i \div g + 1] \div 2 ^ (g - 1 - (i % g))) % 2

\* n bits of that number, from the place c on.
Cut(g, gs, c, n) == (NumberOf(g, gs) \div 2 ^ (g * Len(gs) - c - n)) % 2 ^ n

\* The groups of g bits.
Groups(g) == 0 .. Radix(g) - 1

\* The first k groups.
First(gs, k) == SubSeq(gs, 1, k)

\* One group more among the first ones is one digit more.
LEMMA FirstOfMore ==
  ASSUME NEW g \in Nat \ {0}, NEW gs \in Seq(Groups(g)), NEW k \in Nat, k + 1 <= Len(gs)
  PROVE  /\ First(gs, k) \in Seq(Groups(g))
         /\ First(gs, k + 1) = Append(First(gs, k), gs[k + 1])
         /\ NumberOf(g, First(gs, k + 1)) = NumberOf(g, First(gs, k)) * Radix(g) + gs[k + 1]
         /\ gs[k + 1] \in Groups(g)
<1>1. First(gs, k) \in Seq(Groups(g)) /\ First(gs, k + 1) = Append(First(gs, k), gs[k + 1]) /\ gs[k + 1] \in Groups(g)
  BY SubSeqProperties DEF First
<1>. DEFINE f == First(gs, k)
            d == gs[k + 1]
<1>2. Number(Radix(g), 0, Append(f, d)) = Number(Radix(g), 0, f) * Radix(g) + d
  <2>1. f \in Seq(Groups(g))
    BY <1>1
  <2>. HIDE DEF f, d
  <2>. QED
    BY <2>1, NumberOfMore
<1>. QED
  BY <1>1, <1>2 DEF NumberOf

\* The number of some groups is a natural number.
LEMMA NumberOfFirst ==
  ASSUME NEW g \in Nat \ {0}, NEW gs \in Seq(Groups(g)), NEW k \in Nat, k <= Len(gs)
  PROVE  NumberOf(g, First(gs, k)) \in Nat
<1>. DEFINE T == {j \in Nat : j <= Len(gs) => NumberOf(g, First(gs, j)) \in Nat}
<1>1. 0 \in T
  <2>1. First(gs, 0) = <<>>
    BY SubSeqProperties DEF First
  <2>. QED
    BY <2>1, NumberOfNone DEF NumberOf
<1>2. ASSUME NEW j \in T PROVE j + 1 \in T
  <2>1. SUFFICES ASSUME j + 1 <= Len(gs) PROVE NumberOf(g, First(gs, j + 1)) \in Nat
    OBVIOUS
  <2>2. NumberOf(g, First(gs, j + 1)) = NumberOf(g, First(gs, j)) * Radix(g) + gs[j + 1] /\ gs[j + 1] \in Nat
    BY <2>1, FirstOfMore, RadixIsNat DEF Groups
  <2>3. NumberOf(g, First(gs, j)) \in Nat /\ Radix(g) \in Nat
    BY <2>1, RadixIsNat
  <2>. QED
    BY <2>2, <2>3
<1>3. T = Nat
  <2>. HIDE DEF T
  <2>1. T \subseteq Nat
    BY DEF T
  <2>. QED
    BY <1>1, <1>2, <2>1, Everywhere
<1>. QED
  BY <1>3

\* The bit at a place of the first k groups is that digit of their number.
BitsOfFirst(g, gs, k) ==
  \A i \in 0 .. g * k - 1 :
    BitOf(g, gs, i) = (NumberOf(g, First(gs, k)) \div 2 ^ (g * k - 1 - i)) % 2

\* If that holds of k groups it holds of k + 1.
LEMMA BitsOfMore ==
  ASSUME NEW g \in Nat \ {0}, NEW gs \in Seq(Groups(g)), NEW k \in Nat, k + 1 <= Len(gs), BitsOfFirst(g, gs, k)
  PROVE  BitsOfFirst(g, gs, k + 1)
<1>. DEFINE n == NumberOf(g, First(gs, k))
            d == gs[k + 1]
            m == NumberOf(g, First(gs, k + 1))
<1>1. g \in Nat \ {0} /\ Radix(g) \in Nat \ {0} /\ n \in Nat /\ m = n * Radix(g) + d /\ d \in 0 .. Radix(g) - 1
  <2>1. k <= Len(gs)
    OBVIOUS
  <2>. QED
    BY <2>1, RadixIsNat, FirstOfMore, NumberOfFirst DEF Groups
<1>2. m \in Nat /\ m \div Radix(g) = n
  <2>1. m \in Nat
    BY <1>1
  <2>. DEFINE B == Radix(g)
  <2>2. m \in Int /\ n \in Int /\ B \in Nat \ {0} /\ d \in 0 .. B - 1 /\ m = n * B + d
    BY <1>1, <2>1
  <2>. HIDE DEF m, n, d, B
  <2>3. m \div B = n
    BY <2>2, Quotient
  <2>. QED
    BY <2>1, <2>3 DEF B
<1>3. g * k \in Nat /\ g * (k + 1) = g * k + g
  BY <1>1
<1>. DEFINE Gk == g * k
<1>4. ASSUME NEW i \in 0 .. Gk - 1
      PROVE  BitOf(g, gs, i) = (m \div 2 ^ (Gk + g - 1 - i)) % 2
  <2>. DEFINE e == Gk - 1 - i
  <2>1. e \in Nat /\ Gk + g - 1 - i = g + e
    BY <1>1, <1>3
  <2>2. BitOf(g, gs, i) = (n \div 2 ^ e) % 2
    BY DEF BitsOfFirst
  <2>. HIDE DEF e
  <2>3. 2 ^ (g + e) = Radix(g) * 2 ^ e /\ 2 ^ e \in Nat \ {0}
    BY <1>1, <2>1, PowerSum, PowerPositive DEF Radix
  <2>. HIDE DEF m, n
  <2>4. m \div (Radix(g) * 2 ^ e) = n \div 2 ^ e
    <3>. DEFINE f == 2 ^ e
    <3>1. f \in Nat \ {0} /\ m \in Int /\ Radix(g) \in Nat \ {0} /\ m \div Radix(g) = n
      BY <1>1, <1>2, <2>3
    <3>. HIDE DEF f
    <3>2. m \div (Radix(g) * f) = (m \div Radix(g)) \div f
      BY <3>1, DivideTwice
    <3>. QED
      BY <3>1, <3>2 DEF f
  <2>. QED
    BY <2>1, <2>2, <2>3, <2>4
<1>5. ASSUME NEW i \in Gk .. Gk + g - 1
      PROVE  BitOf(g, gs, i) = (m \div 2 ^ (Gk + g - 1 - i)) % 2
  <2>. DEFINE r == i - Gk
              e == g - 1 - r
  <2>1. r \in 0 .. g - 1 /\ e \in Nat /\ Gk + g - 1 - i = e /\ r \in Nat /\ g = (r + 1) + e
    BY <1>1, <1>3
  <2>2. i = k * g + r /\ i \in Int
    BY <1>1, <1>3
  <2>. HIDE DEF r, e
  <2>3. i \div g = k /\ i % g = r
    <3>1. k \in Int /\ g \in Nat \ {0} /\ r \in 0 .. g - 1
      BY <1>1, <2>1
    <3>. QED
      BY <2>2, <3>1, Quotient
  <2>4. BitOf(g, gs, i) = (d \div 2 ^ e) % 2
    BY <2>3 DEF BitOf, e
  <2>5. Radix(g) = 2 * 2 ^ r * 2 ^ e /\ 2 ^ r \in Nat /\ 2 ^ e \in Nat \ {0}
    <3>1. 2 ^ ((r + 1) + e) = 2 ^ (r + 1) * 2 ^ e
      <4>1. r + 1 \in Nat
        BY <2>1
      <4>. QED
        BY <2>1, <4>1, PowerSum
    <3>. QED
      BY <2>1, <3>1, PowerStep, PowerPositive DEF Radix
  <2>. DEFINE q == n * (2 * 2 ^ r)
  <2>6. m = q * 2 ^ e + d /\ q \in Int /\ q = 2 * (n * 2 ^ r) /\ n * 2 ^ r \in Int /\ d \in Int
    <3>. DEFINE x == 2 ^ r
                y == 2 ^ e
    <3>1. x \in Nat /\ y \in Nat /\ Radix(g) = 2 * x * y /\ n \in Nat /\ m = n * Radix(g) + d /\ d \in Int
      BY <1>1, <2>5
    <3>. HIDE DEF n, m, d, x, y
    <3>2. n * (2 * x * y) = (n * (2 * x)) * y
      BY <3>1
    <3>3. n * (2 * x) = 2 * (n * x) /\ n * x \in Int /\ n * (2 * x) \in Int
      BY <3>1
    <3>. QED
      BY <3>1, <3>2, <3>3 DEF x, y
  <2>. HIDE DEF m, n, d, q
  <2>7. m \div 2 ^ e = q + (d \div 2 ^ e) /\ d \div 2 ^ e \in Int
    BY <2>5, <2>6, DivideSum, Division
  <2>8. (m \div 2 ^ e) % 2 = (d \div 2 ^ e) % 2
    BY <2>6, <2>7, EvenLess
  <2>. QED
    BY <2>1, <2>4, <2>8
<1>6. ASSUME NEW i \in 0 .. Gk + g - 1
      PROVE  BitOf(g, gs, i) = (m \div 2 ^ (Gk + g - 1 - i)) % 2
  <2>1. i \in 0 .. Gk - 1 \/ i \in Gk .. Gk + g - 1
    BY <1>1, <1>3
  <2>. HIDE DEF Gk, m
  <2>. QED
    BY <1>4, <1>5, <2>1
<1>. DEFINE all == g * (k + 1)
<1>7. all = Gk + g /\ Gk \in Nat /\ g \in Nat
  BY <1>1, <1>3
<1>. HIDE DEF Gk, m, all
<1>8. \A i \in 0 .. all - 1 : BitOf(g, gs, i) = (m \div 2 ^ (all - 1 - i)) % 2
  BY <1>6, <1>7
<1>. QED
  BY <1>8 DEF BitsOfFirst, all, m

\* So the bits of the groups are the binary digits of the number.
LEMMA BitsAreDigits ==
  ASSUME NEW g \in Nat \ {0}, NEW gs \in Seq(Groups(g)), NEW i \in 0 .. g * Len(gs) - 1
  PROVE  BitOf(g, gs, i) = (NumberOf(g, gs) \div 2 ^ (g * Len(gs) - 1 - i)) % 2
<1>. DEFINE T == {k \in Nat : k <= Len(gs) => BitsOfFirst(g, gs, k)}
<1>1. 0 \in T
  <2>1. g * 0 = 0
    BY RadixIsNat
  <2>. QED
    BY <2>1 DEF BitsOfFirst
<1>2. ASSUME NEW k \in T PROVE k + 1 \in T
  BY BitsOfMore
<1>3. T = Nat
  <2>. HIDE DEF T
  <2>1. T \subseteq Nat
    BY DEF T
  <2>. QED
    BY <1>1, <1>2, <2>1, Everywhere
<1>4. BitsOfFirst(g, gs, Len(gs))
  BY <1>3
<1>5. First(gs, Len(gs)) = gs
  BY SubSeqProperties DEF First
<1>. QED
  BY <1>4, <1>5 DEF BitsOfFirst

\* The bits that the groups have.
NumBits(g, gs) == g * Len(gs)

\* The number of all groups is a natural number.
LEMMA NumberIsNat ==
  ASSUME NEW g \in Nat \ {0}, NEW gs \in Seq(Groups(g))
  PROVE  NumberOf(g, gs) \in Nat /\ NumBits(g, gs) \in Nat
<1>1. First(gs, Len(gs)) = gs /\ Len(gs) \in Nat
  BY SubSeqProperties DEF First
<1>2. NumberOf(g, gs) \in Nat
  BY <1>1, NumberOfFirst
<1>. QED
  BY <1>1, <1>2, RadixIsNat DEF NumBits

\* n bits are a number of n bits.
LEMMA CutRange ==
  ASSUME NEW g \in Nat \ {0}, NEW gs \in Seq(Groups(g)), NEW c \in Nat, NEW n \in Nat, c + n <= NumBits(g, gs)
  PROVE  Cut(g, gs, c, n) \in 0 .. 2 ^ n - 1 /\ 2 ^ n \in Nat \ {0}
<1>. DEFINE e == g * Len(gs) - c - n
            a == NumberOf(g, gs) \div 2 ^ e
            m == 2 ^ n
<1>1. e \in Nat
  BY NumberIsNat DEF NumBits
<1>2. 2 ^ e \in Nat \ {0} /\ m \in Nat \ {0}
  <2>. HIDE DEF e
  <2>. QED
    BY <1>1, PowerPositive
<1>3. a \in Int
  <2>. DEFINE p == 2 ^ e
              w == NumberOf(g, gs)
  <2>1. p \in Nat \ {0} /\ w \in Int
    BY <1>2, NumberIsNat
  <2>. HIDE DEF p, w
  <2>2. w \div p \in Int
    BY <2>1, Division
  <2>. QED
    BY <2>2 DEF p, w
<1>4. Cut(g, gs, c, n) = a % m
  BY DEF Cut
<1>. HIDE DEF a, m
<1>5. a % m \in 0 .. m - 1
  BY <1>2, <1>3, Division
<1>. QED
  BY <1>2, <1>4, <1>5 DEF m

\* No bits are 0.
LEMMA CutOfNone ==
  ASSUME NEW g \in Nat \ {0}, NEW gs \in Seq(Groups(g)), NEW c \in Nat, c <= NumBits(g, gs)
  PROVE  Cut(g, gs, c, 0) = 0
<1>1. Cut(g, gs, c, 0) \in 0 .. 2 ^ 0 - 1
  <2>1. c + 0 <= NumBits(g, gs)
    OBVIOUS
  <2>. QED
    BY <2>1, CutRange
<1>2. 2 ^ 0 = 1
  OBVIOUS
<1>. QED
  BY <1>1, <1>2

\* One bit more is twice as much, and that bit.
LEMMA CutOfMore ==
  ASSUME NEW g \in Nat \ {0}, NEW gs \in Seq(Groups(g)), NEW c \in Nat, NEW n \in Nat, c + n + 1 <= NumBits(g, gs)
  PROVE  /\ Cut(g, gs, c, n + 1) = 2 * Cut(g, gs, c, n) + BitOf(g, gs, c + n)
         /\ BitOf(g, gs, c + n) \in {0, 1}
<1>. DEFINE w == NumberOf(g, gs)
            e == g * Len(gs) - c - (n + 1)
            x == w \div 2 ^ e
            b == x % 2
            m == 2 ^ n
            q == (x \div 2) \div m
            s == (x \div 2) % m
<1>1. e \in Nat /\ w \in Nat /\ g * Len(gs) - c - n = e + 1 /\ c + n \in 0 .. g * Len(gs) - 1
      /\ g * Len(gs) - 1 - (c + n) = e
  BY NumberIsNat DEF NumBits
<1>2. BitOf(g, gs, c + n) = b
  BY <1>1, BitsAreDigits
<1>3. Cut(g, gs, c, n + 1) = x % 2 ^ (n + 1)
  BY DEF Cut
<1>. HIDE DEF e
<1>4. 2 ^ e \in Nat \ {0} /\ 2 ^ (e + 1) = 2 ^ e * 2 /\ m \in Nat \ {0} /\ 2 ^ (n + 1) = 2 * m
  BY <1>1, PowerStep, PowerPositive
<1>5. Cut(g, gs, c, n) = s
  <2>1. Cut(g, gs, c, n) = (w \div 2 ^ (e + 1)) % 2 ^ n
    BY <1>1 DEF Cut
  <2>. DEFINE p == 2 ^ e
  <2>2. p \in Nat \ {0} /\ w \in Int
    BY <1>1, <1>4
  <2>. HIDE DEF w, p
  <2>3. w \div (p * 2) = (w \div p) \div 2
    <3>1. \A t \in Nat \ {0} : w \div (p * t) = (w \div p) \div t
      BY <2>2, DivideTwice
    <3>. QED
      BY <3>1
  <2>. QED
    BY <1>4, <2>1, <2>3 DEF p
<1>6. x \in Int
  <2>. HIDE DEF w
  <2>. QED
    BY <1>1, <1>4, Division
<1>. HIDE DEF w, x
<1>7. x \div 2 \in Int /\ b \in 0 .. 1 /\ x = 2 * (x \div 2) + b
  BY <1>6
<1>. DEFINE h == x \div 2
<1>8. q \in Int /\ s \in 0 .. m - 1 /\ h = q * m + s
  <2>. HIDE DEF m
  <2>1. h \in Int
    BY <1>7
  <2>. HIDE DEF h
  <2>2. h \div m \in Int /\ h % m \in 0 .. m - 1 /\ h = (h \div m) * m + (h % m)
    BY <1>4, <2>1, Division
  <2>. QED
    BY <2>2 DEF h
<1>. DEFINE M == 2 * m
            r == 2 * s + b
<1>9. x = q * M + r /\ r \in 0 .. M - 1 /\ M \in Nat \ {0}
  <2>1. q \in Int /\ s \in 0 .. m - 1 /\ b \in 0 .. 1 /\ m \in Nat \ {0} /\ x = 2 * (q * m + s) + b
    BY <1>4, <1>7, <1>8
  <2>. HIDE DEF q, s, b, m, h
  <2>2. 2 * (q * m + s) + b = q * (2 * m) + (2 * s + b)
    BY <2>1
  <2>3. 2 * s + b \in 0 .. 2 * m - 1 /\ 2 * m \in Nat \ {0}
    BY <2>1
  <2>. QED
    BY <2>1, <2>2, <2>3
<1>. HIDE DEF M, r
<1>10. x % M = r
  <2>. HIDE DEF q
  <2>. QED
    BY <1>6, <1>8, <1>9, Quotient
<1>11. b \in {0, 1}
  <2>. HIDE DEF b
  <2>. QED
    BY <1>7
<1>. QED
  BY <1>2, <1>3, <1>4, <1>5, <1>10, <1>11 DEF M, r

-----------------------------------------------------------------------------
(* BitGroup: a read goes through its bits one by one.                      *)

\* A word holds WordBits bits.
LEMMA BitSizes ==
  /\ 2 * Half64 = 2 ^ WordBits /\ WordBits \in Nat \ {0}
  /\ \A n \in 0 .. WordBits : 2 ^ n <= 2 * Half64 /\ 2 ^ n \in Nat \ {0}
<1>1. WordBits \in Nat \ {0} /\ Half64 = 2 ^ (WordBits - 1) /\ WordBits - 1 \in Nat
  BY PartsAssumption DEF Entity!GroupAssumption
<1>2. 2 * Half64 = 2 ^ WordBits
  <2>1. 2 ^ ((WordBits - 1) + 1) = 2 * 2 ^ (WordBits - 1) /\ (WordBits - 1) + 1 = WordBits
    BY <1>1, PowerStep
  <2>. QED
    BY <1>1, <2>1
<1>3. ASSUME NEW n \in 0 .. WordBits PROVE 2 ^ n <= 2 * Half64 /\ 2 ^ n \in Nat \ {0}
  <2>1. PICK d \in Nat : WordBits = n + d /\ n \in Nat
    <3>1. WordBits - n \in Nat /\ WordBits = n + (WordBits - n) /\ n \in Nat
      BY <1>1
    <3>. QED
      BY <3>1
  <2>. DEFINE p == 2 ^ n
              q == 2 ^ d
  <2>2. p \in Nat \ {0} /\ q \in Nat \ {0} /\ 2 * Half64 = p * q
    <3>1. 2 ^ (n + d) = p * q /\ p \in Nat \ {0} /\ q \in Nat \ {0}
      <4>1. 2 ^ (n + d) = p * q
        BY <2>1, PowerSum
      <4>2. p \in Nat \ {0} /\ q \in Nat \ {0}
        BY <2>1, PowerPositive
      <4>. QED
        BY <4>1, <4>2
    <3>2. n + d = WordBits
      BY <2>1
    <3>. HIDE DEF p, q
    <3>. QED
      BY <1>2, <3>1, <3>2
  <2>. HIDE DEF p, q
  <2>3. 1 * p <= q * p
    BY <2>2, ScaleUp
  <2>4. p <= 2 * Half64
    BY <2>2, <2>3
  <2>. QED
    BY <2>2, <2>4 DEF p
<1>. QED
  BY <1>1, <1>2, <1>3

\* The places that ReadBits goes through, from the cursor on.
Steps(n) == [i \in 1 .. n |-> i]

\* What FoldLeft chooses for the loop of ReadBits.
OrFolds(it, n) ==
  it = [S \in SUBSET (DOMAIN [i \in 1 .. n |-> i]) |->
          IF S = {} THEN 0
          ELSE Bits!ToUint64(2 * it[S \ {Max(S)}]
                               + Bits!Bit(cursor + [i \in 1 .. n |-> i][Max(S)] - 1))]

\* The loop of ReadBits.
OrFold(n) ==
  LET Or(v, i) == Bits!ToUint64(2 * v + Bits!Bit(cursor + i - 1))
  IN  Bits!FoldLeft(Or, 0, [i \in 1 .. n |-> i])

\* It is the fold that was chosen.
LEMMA OrFoldIsChosen ==
  ASSUME NEW n
  PROVE  OrFold(n) = (CHOOSE it : OrFolds(it, n))[DOMAIN [i \in 1 .. n |-> i]]
BY DEF OrFold, Bits!FoldLeft, Bits!MapThenFoldSet, Bits!Max, Max, OrFolds

\* And that is a fold in the sense above.
LEMMA OrIsFold ==
  ASSUME NEW n \in Nat,
         NEW b, b = [x \in 1 .. n |-> Bits!Bit(cursor + x - 1)]
  PROVE  \E it : FoldsTo(it, n, Places(b, 2 * Half64), 0, Steps(n)) /\ OrFold(n) = it[1 .. n]
<1>. DEFINE how == Places(b, 2 * Half64)
            s == [i \in 1 .. n |-> i]
<1>1. DOMAIN s = 1 .. n
  OBVIOUS
<1>2. ASSUME NEW S \in SUBSET (1 .. n), S # {} PROVE Max(S) \in 1 .. n
  BY <1>2, GreatestIsThere
<1>3. ASSUME NEW v, NEW x \in 1 .. n
      PROVE  Take(how, v, x) = Bits!ToUint64(2 * v + Bits!Bit(cursor + x - 1))
  BY DEF Take, Places, Bits!ToUint64
<1>4. \A it : FoldsTo(it, n, how, 0, s) => OrFolds(it, n)
  BY <1>2, <1>3 DEF FoldsTo, OrFolds
<1>5. \E it : OrFolds(it, n)
  BY <1>4, FoldExists
<1>. DEFINE chosen == CHOOSE it : OrFolds(it, n)
<1>6. OrFolds(chosen, n)
  BY <1>5
<1>. HIDE DEF chosen
<1>7. chosen = [S \in SUBSET (1 .. n) |->
          IF S = {} THEN 0
          ELSE Bits!ToUint64(2 * chosen[S \ {Max(S)}] + Bits!Bit(cursor + s[Max(S)] - 1))]
  BY <1>6 DEF OrFolds
<1>8. FoldsTo(chosen, n, how, 0, s)
  <2>1. ASSUME NEW S \in SUBSET (1 .. n), S # {}
        PROVE  chosen[S] = Take(how, chosen[S \ {Max(S)}], s[Max(S)])
    <3>1. Max(S) \in 1 .. n /\ s[Max(S)] = Max(S)
      BY <1>2, <2>1
    <3>2. chosen[S] = Bits!ToUint64(2 * chosen[S \ {Max(S)}] + Bits!Bit(cursor + s[Max(S)] - 1))
      <4>. HIDE DEF s
      <4>. QED
        BY <1>7, <2>1
    <3>. HIDE DEF how, s
    <3>. QED
      BY <1>3, <3>1, <3>2
  <2>2. DOMAIN chosen = SUBSET (1 .. n) /\ chosen = [S \in DOMAIN chosen |-> chosen[S]] /\ chosen[{}] = 0
    <3>. HIDE DEF s
    <3>. QED
      BY <1>7
  <2>. HIDE DEF s, how
  <2>. QED
    BY <2>1, <2>2 DEF FoldsTo
<1>9. OrFold(n) = chosen[1 .. n]
  BY <1>1, OrFoldIsChosen DEF chosen
<1>. QED
  BY <1>8, <1>9 DEF Steps

\* The fold of the bits up to a place is the cut up to it.
LEMMA OrIsCut ==
  ASSUME NEW gs \in Seq(Groups(GroupBits)), NEW c \in Nat, NEW n \in 0 .. WordBits, c + n <= NumBits(GroupBits, gs),
         NEW b, b = [x \in 1 .. n |-> BitOf(GroupBits, gs, c + x - 1)],
         NEW it, FoldsTo(it, n, Places(b, 2 * Half64), 0, Steps(n))
  PROVE  it[1 .. n] = Cut(GroupBits, gs, c, n)
<1>. DEFINE T == {k \in Nat : k <= n => it[1 .. k] = Cut(GroupBits, gs, c, k)}
<1>1. 0 \in T
  <2>1. it[1 .. 0] = 0
    BY DEF FoldsTo
  <2>2. Cut(GroupBits, gs, c, 0) = 0
    BY CutOfNone, NumberIsNat, Sizes
  <2>. QED
    BY <2>1, <2>2
<1>2. ASSUME NEW k \in T PROVE k + 1 \in T
  <2>1. SUFFICES ASSUME k + 1 <= n PROVE it[1 .. k + 1] = Cut(GroupBits, gs, c, k + 1)
    OBVIOUS
  <2>2. k \in Nat /\ it[1 .. k] = Cut(GroupBits, gs, c, k) /\ n \in Nat
    BY <2>1
  <2>3. it[1 .. k + 1] = Take(Places(b, 2 * Half64), it[1 .. k], k + 1)
    <3>1. Steps(n)[k + 1] = k + 1
      BY <2>1, <2>2 DEF Steps
    <3>. HIDE DEF T
    <3>2. it[1 .. k + 1] = Take(Places(b, 2 * Half64), it[1 .. k], Steps(n)[k + 1])
      <4>. DEFINE how == Places(b, 2 * Half64)
                  s == Steps(n)
                  lead == 0
      <4>1. FoldsTo(it, n, how, lead, s) /\ n \in Nat /\ k \in Nat /\ k + 1 <= n
        BY <2>1, <2>2
      <4>. HIDE DEF how, s, lead
      <4>2. it[1 .. k + 1] = Take(how, it[1 .. k], s[k + 1])
        BY <4>1, FoldStep
      <4>. QED
        BY <4>2 DEF how, s
    <3>. QED
      BY <3>1, <3>2
  <2>4. b[k + 1] = BitOf(GroupBits, gs, c + k)
    BY <2>1, <2>2
  <2>5. Cut(GroupBits, gs, c, k + 1) = 2 * Cut(GroupBits, gs, c, k) + BitOf(GroupBits, gs, c + k)
    <3>1. c + k + 1 <= NumBits(GroupBits, gs)
      <4>1. NumBits(GroupBits, gs) \in Nat
        BY NumberIsNat, Sizes
      <4>. HIDE DEF T
      <4>. QED
        BY <2>1, <2>2, <4>1
    <3>. QED
      <4>1. GroupBits \in Nat \ {0}
        BY Sizes
      <4>. HIDE DEF T
      <4>. QED
        BY <2>2, <3>1, <4>1, CutOfMore
  <2>6. Cut(GroupBits, gs, c, k + 1) \in 0 .. 2 * Half64 - 1
    <3>1. k + 1 \in Nat /\ k + 1 \in 0 .. WordBits /\ c + (k + 1) <= NumBits(GroupBits, gs)
      <4>1. NumBits(GroupBits, gs) \in Nat
        BY NumberIsNat, Sizes
      <4>2. WordBits \in Nat
        BY BitSizes
      <4>. HIDE DEF T
      <4>. QED
        BY <2>1, <2>2, <4>1, <4>2
    <3>2. Cut(GroupBits, gs, c, k + 1) \in 0 .. 2 ^ (k + 1) - 1
      BY <3>1, CutRange, Sizes
    <3>3. 2 ^ (k + 1) <= 2 * Half64 /\ 2 ^ (k + 1) \in Nat
      BY <3>1, BitSizes
    <3>. QED
      BY <3>2, <3>3, Sizes
  <2>7. Cut(GroupBits, gs, c, k + 1) % (2 * Half64) = Cut(GroupBits, gs, c, k + 1)
    <3>. DEFINE m == 2 * Half64
                a == Cut(GroupBits, gs, c, k + 1)
    <3>1. m \in Nat \ {0} /\ a \in 0 .. m - 1 /\ a \in Int
      BY <2>6, Sizes
    <3>. HIDE DEF m, a
    <3>2. a % m = a
      BY <3>1, UnsignedWord
    <3>. QED
      BY <3>2 DEF m, a
  <2>. QED
    BY <2>2, <2>3, <2>4, <2>5, <2>7 DEF Take, Places
<1>3. T = Nat
  <2>. HIDE DEF T
  <2>1. T \subseteq Nat
    BY DEF T
  <2>. QED
    BY <1>1, <1>2, <2>1, Everywhere
<1>4. n \in Nat /\ n <= n
  <2>1. WordBits \in Nat
    BY BitSizes
  <2>. HIDE DEF T
  <2>. QED
    BY <2>1
<1>5. n \in T
  BY <1>3, <1>4
<1>. QED
  BY <1>4, <1>5

\* ReadBits returns the bits at the cursor, as a number.
LEMMA BitsAreCut ==
  ASSUME bits \in Seq(Groups(GroupBits)), cursor \in Nat, NEW n \in 0 .. WordBits, cursor + n <= NumBits(GroupBits, bits)
  PROVE  OrFold(n) = Cut(GroupBits, bits, cursor, n)
<1>1. n \in Nat
  BY BitSizes
<1>2. PICK b : b = [x \in 1 .. n |-> Bits!Bit(cursor + x - 1)]
  OBVIOUS
<1>3. b = [x \in 1 .. n |-> BitOf(GroupBits, bits, cursor + x - 1)]
  BY <1>2 DEF Bits!Bit, BitOf
<1>4. PICK it : FoldsTo(it, n, Places(b, 2 * Half64), 0, Steps(n)) /\ OrFold(n) = it[1 .. n]
  BY <1>1, <1>2, OrIsFold
<1>. QED
  BY <1>3, <1>4, OrIsCut

\* A conversion keeps what fits, however often the word has turned.
LEMMA TurnedWord ==
  ASSUME NEW x \in Int, NEW y \in -Half64 .. Half64 - 1, NEW k \in Int, x = y - k * (2 * Half64)
  PROVE  Bits!ToInt64(x) = y
<1>. DEFINE m == 2 * Half64
            a == x + Half64
            r == y + Half64
            q == -k
<1>1. m \in Nat \ {0} /\ r \in 0 .. m - 1 /\ a \in Int /\ q \in Int
  BY Sizes
<1>2. a = q * m + r
  <2>1. (-k) * m = -(k * m) /\ k * m \in Int
    BY <1>1
  <2>. QED
    BY <2>1, Sizes
<1>. HIDE DEF m, a, r, q
<1>3. a % m = r
  BY <1>1, <1>2, Quotient
<1>. QED
  BY <1>3, Sizes DEF m, a, r, Bits!ToInt64

\* A conversion turns the word a whole number of times.
LEMMA BitsWord ==
  ASSUME NEW n \in Int
  PROVE  \E k \in Int : Bits!ToInt64(n) = n - k * (2 * Half64) /\ Bits!ToInt64(n) \in Int
<1>1. Half64 \in Nat \ {0}
  BY Sizes
<1>2. \E k \in Int : ((n + Half64) % (2 * Half64)) - Half64 = n - k * (2 * Half64)
  BY <1>1, SignedWord
<1>3. ((n + Half64) % (2 * Half64)) - Half64 \in -Half64 .. Half64 - 1
  BY <1>1, SignedWord
<1>. QED
  BY <1>1, <1>2, <1>3 DEF Bits!ToInt64

\* A number of n bits as a signed one.
Signed(u, n) == IF 2 * u >= 2 ^ n /\ n > 0 THEN u - 2 ^ n ELSE u

\* Shifting up and down again is the sign extension.
LEMMA SignExtension ==
  ASSUME NEW n \in 0 .. WordBits, NEW u \in 0 .. 2 ^ n - 1
  PROVE  Bits!SignExtended(u, n) = Signed(u, n) /\ Signed(u, n) \in Bits!Int64
<1>. DEFINE p == 2 ^ n
<1>1. p \in Nat \ {0} /\ p <= 2 * Half64 /\ Half64 \in Nat \ {0} /\ u \in Nat /\ u < p /\ n \in Nat
  BY BitSizes, Sizes
<1>2. CASE n = 0
  <2>1. p = 1
    BY <1>2
  <2>2. u = 0
    BY <1>1, <2>1
  <2>3. 0 = 0 - 0 * (2 * Half64) /\ 0 \in -Half64 .. Half64 - 1
    BY <1>1
  <2>4. Bits!ToInt64(0) = 0
    BY <2>3, TurnedWord
  <2>. QED
    BY <1>1, <1>2, <2>2, <2>3, <2>4 DEF Bits!SignExtended, Signed, Bits!Int64
<1>3. CASE n > 0
  <2>. DEFINE h == 2 ^ (n - 1)
  <2>1. h \in Nat \ {0} /\ p = 2 * h
    <3>1. n - 1 \in Nat /\ (n - 1) + 1 = n
      BY <1>1, <1>3
    <3>2. 2 ^ ((n - 1) + 1) = 2 * 2 ^ (n - 1)
      BY <3>1, PowerStep
    <3>. QED
      BY <3>1, <3>2, PowerPositive
  <2>. HIDE DEF h, p
  <2>2. (u \div h) % 2 = 1 <=> 2 * u >= p
    <3>1. CASE u >= h
      <4>. DEFINE r == u - h
      <4>1. u = 1 * h + r /\ r \in 0 .. h - 1 /\ u \in Int
        BY <1>1, <2>1, <3>1
      <4>. HIDE DEF r
      <4>2. u \div h = 1
        BY <2>1, <4>1, Quotient
      <4>. QED
        BY <1>1, <2>1, <3>1, <4>2
    <3>2. CASE ~(u >= h)
      <4>1. u = 0 * h + u /\ u \in 0 .. h - 1 /\ u \in Int
        BY <1>1, <2>1, <3>2
      <4>2. u \div h = 0
        BY <2>1, <4>1, Quotient
      <4>. QED
        BY <1>1, <2>1, <3>2, <4>2
    <3>. QED
      BY <3>1, <3>2
  <2>3. CASE 2 * u >= p
    <3>1. u - p \in -Half64 .. Half64 - 1
      BY <1>1, <2>1, <2>3
    <3>1a. u \in Int /\ p \in Int
      BY <1>1
    <3>2. PICK j \in Int : Bits!ToInt64(u) = u - j * (2 * Half64) /\ Bits!ToInt64(u) \in Int
      BY <3>1a, BitsWord
    <3>3. PICK k \in Int : Bits!ToInt64(p) = p - k * (2 * Half64) /\ Bits!ToInt64(p) \in Int
      BY <3>1a, BitsWord
    <3>. DEFINE x == Bits!ToInt64(u) - Bits!ToInt64(p)
                y == u - p
                i == j - k
    <3>4. x = y - i * (2 * Half64) /\ x \in Int /\ i \in Int /\ y \in -Half64 .. Half64 - 1
      <4>1. (j - k) * (2 * Half64) = j * (2 * Half64) - k * (2 * Half64)
            /\ j * (2 * Half64) \in Int /\ k * (2 * Half64) \in Int
        BY <1>1
      <4>. QED
        BY <1>1, <3>1, <3>2, <3>3, <4>1
    <3>. HIDE DEF x, y, i
    <3>5. Bits!ToInt64(x) = y
      BY <3>4, TurnedWord
    <3>. QED
      BY <1>3, <2>2, <2>3, <3>1, <3>5 DEF Bits!SignExtended, Signed, Bits!Int64, x, y, p, h
  <2>4. CASE ~(2 * u >= p)
    <3>1. u \in -Half64 .. Half64 - 1 /\ u = u - 0 * (2 * Half64) /\ u \in Int
      BY <1>1, <2>1, <2>4
    <3>2. Bits!ToInt64(u) = u
      BY <3>1, TurnedWord
    <3>. QED
      BY <1>3, <2>2, <2>4, <3>1, <3>2 DEF Bits!SignExtended, Signed, Bits!Int64, p, h
  <2>. QED
    BY <2>3, <2>4
<1>. QED
  BY <1>1, <1>2, <1>3

-----------------------------------------------------------------------------
\* What the call has returned, and where it has left the cursor.
CallIsRight ==
  /\ call.kind \in {"none", "bits", "signed"}
  /\ call.kind # "none" =>
       /\ call.from \in Nat /\ call.n \in Nat
       /\ IF call.n <= WordBits /\ call.from + call.n <= NumBits(GroupBits, bits)
          THEN /\ result.err = Bits!NoError /\ cursor = call.from + call.n
               /\ result.val = IF call.kind = "signed"
                               THEN Signed(Cut(GroupBits, bits, call.from, call.n), call.n)
                               ELSE Cut(GroupBits, bits, call.from, call.n)
          ELSE result.err \in {Bits!Overflow, Bits!EndOfStream} /\ cursor = call.from

\* The invariant of BitGroup: its state is of the types of the code, and the last
\* call was right.
BitsSoFar ==
  /\ bits \in Seq(Groups(GroupBits))
  /\ cursor \in 0 .. NumBits(GroupBits, bits)
  /\ result.err \in {Bits!NoError, Bits!EndOfStream, Bits!Overflow}
  /\ result.val \in IF call.kind = "signed" THEN Bits!Int64 ELSE Bits!Uint64
  /\ CallIsRight

\* It holds initially,
LEMMA BitsStart == Bits!Init => BitsSoFar
<1>. SUFFICES ASSUME Bits!Init PROVE BitsSoFar
  OBVIOUS
<1>1. bits \in Seq(Groups(GroupBits))
  BY DEF Bits!Init
<1>2. NumBits(GroupBits, bits) \in Nat
  BY <1>1, NumberIsNat, Sizes
<1>. QED
  BY <1>1, <1>2, Sizes DEF Bits!Init, BitsSoFar, CallIsRight, Bits!Returned, Bits!NoCall, Bits!Uint64

\* and so it is what a read returns: the bits, or an error if there are too few,
LEMMA ReadOfBits ==
  ASSUME BitsSoFar, NEW n \in 0 .. WordBits + 1
  PROVE  /\ n <= WordBits /\ cursor + n <= NumBits(GroupBits, bits) =>
              Bits!BitsAt(n) = Bits!Returned(Cut(GroupBits, bits, cursor, n), Bits!NoError)
         /\ ~(n <= WordBits /\ cursor + n <= NumBits(GroupBits, bits)) =>
              \/ Bits!BitsAt(n) = Bits!Returned(0, Bits!Overflow)
              \/ Bits!BitsAt(n) = Bits!Returned(0, Bits!EndOfStream)
<1>1. WordBits \in Nat /\ NumBits(GroupBits, bits) \in Nat /\ Bits!numBits = NumBits(GroupBits, bits) /\ bits \in Seq(Groups(GroupBits))
      /\ cursor \in Nat
  <2>1. bits \in Seq(Groups(GroupBits)) /\ NumBits(GroupBits, bits) \in Nat
    BY NumberIsNat, Sizes DEF BitsSoFar
  <2>. QED
    BY <2>1, BitSizes DEF BitsSoFar, Bits!numBits, NumBits
<1>2. ASSUME n <= WordBits, cursor + n <= NumBits(GroupBits, bits)
      PROVE  Bits!BitsAt(n) = Bits!Returned(Cut(GroupBits, bits, cursor, n), Bits!NoError)
  <2>1. n \in 0 .. WordBits /\ ~(cursor + n > Bits!numBits)
    BY <1>1, <1>2
  <2>2. Bits!BitsAt(n) = Bits!Returned(OrFold(n), Bits!NoError)
    BY <2>1 DEF Bits!BitsAt, OrFold
  <2>. QED
    BY <1>1, <1>2, <2>1, <2>2, BitsAreCut
<1>3. ASSUME ~(n <= WordBits /\ cursor + n <= NumBits(GroupBits, bits))
      PROVE  \/ Bits!BitsAt(n) = Bits!Returned(0, Bits!Overflow)
             \/ Bits!BitsAt(n) = Bits!Returned(0, Bits!EndOfStream)
  <2>1. CASE n > WordBits
    <3>1. n \notin 0 .. WordBits
      BY <1>1, <2>1
    <3>. QED
      BY <3>1 DEF Bits!BitsAt
  <2>2. CASE ~(n > WordBits)
    <3>1. n \in 0 .. WordBits /\ cursor + n > Bits!numBits
      BY <1>1, <1>3, <2>2
    <3>. QED
      BY <3>1 DEF Bits!BitsAt
  <2>. QED
    BY <2>1, <2>2
<1>. QED
  BY <1>2, <1>3

\* A call that returns r for n bits, sign-extended or not.
LEMMA CallKeepsPlace ==
  ASSUME BitsSoFar, NEW n \in 0 .. WordBits + 1, NEW kind \in {"bits", "signed"},
         Bits!Moved(Bits!BitsAt(n), n), bits' = bits,
         call' = [kind |-> kind, from |-> cursor, n |-> n],
         result'.err = Bits!BitsAt(n).err,
         result'.val = IF kind = "signed" /\ Bits!BitsAt(n).err = Bits!NoError
                       THEN Bits!SignExtended(Bits!BitsAt(n).val, n) ELSE Bits!BitsAt(n).val
  PROVE  BitsSoFar'
<1>. DEFINE r == Bits!BitsAt(n)
<1>1. /\ bits \in Seq(Groups(GroupBits)) /\ cursor \in 0 .. NumBits(GroupBits, bits) /\ NumBits(GroupBits, bits) \in Nat
      /\ WordBits \in Nat /\ n \in Nat /\ cursor \in Nat /\ Half64 \in Nat \ {0}
  <2>1. bits \in Seq(Groups(GroupBits)) /\ NumBits(GroupBits, bits) \in Nat
    BY NumberIsNat, Sizes DEF BitsSoFar
  <2>. QED
    BY <2>1, BitSizes, Sizes DEF BitsSoFar
<1>2. call'.kind = kind /\ call'.from = cursor /\ call'.n = n /\ NumBits(GroupBits, bits)' = NumBits(GroupBits, bits)
  BY DEF NumBits
<1>3. CASE n <= WordBits /\ cursor + n <= NumBits(GroupBits, bits)
  <2>. DEFINE u == Cut(GroupBits, bits, cursor, n)
  <2>1. Bits!BitsAt(n) = Bits!Returned(u, Bits!NoError)
    BY <1>3, ReadOfBits
  <2>2. u \in 0 .. 2 ^ n - 1 /\ 2 ^ n <= 2 * Half64 /\ 2 ^ n \in Nat
    <3>1. n \in 0 .. WordBits
      BY <1>1, <1>3
    <3>2. 2 ^ n <= 2 * Half64 /\ 2 ^ n \in Nat
      BY <3>1, BitSizes
    <3>. QED
      BY <1>1, <1>3, <3>2, CutRange, Sizes
  <2>3. cursor' = cursor + n /\ result'.err = Bits!NoError
        /\ result'.val = IF kind = "signed" THEN Bits!SignExtended(u, n) ELSE u
    <3>. HIDE DEF u
    <3>. QED
      BY <2>1 DEF Bits!Moved, Bits!Returned
  <2>4. result'.val = (IF kind = "signed" THEN Signed(u, n) ELSE u)
        /\ (kind = "signed" => result'.val \in Bits!Int64)
    <3>1. n \in 0 .. WordBits
      BY <1>1, <1>3
    <3>. HIDE DEF u
    <3>. QED
      BY <2>2, <2>3, <3>1, SignExtension
  <2>5. kind # "signed" => result'.val \in Bits!Uint64
    <3>. HIDE DEF u
    <3>. QED
      BY <1>1, <2>2, <2>3 DEF Bits!Uint64
  <2>6. u = Cut(GroupBits, bits', call'.from, call'.n)
    BY <1>2
  <2>7. CallIsRight'
    <3>. HIDE DEF u
    <3>. QED
      BY <1>1, <1>2, <1>3, <2>3, <2>4, <2>6 DEF CallIsRight
  <2>. HIDE DEF u
  <2>8. cursor' \in 0 .. NumBits(GroupBits, bits)'
    BY <1>1, <1>2, <1>3, <2>3
  <2>. QED
    BY <1>1, <1>2, <2>3, <2>4, <2>5, <2>7, <2>8 DEF BitsSoFar
<1>4. CASE ~(n <= WordBits /\ cursor + n <= NumBits(GroupBits, bits))
  <2>1. Bits!BitsAt(n).val = 0 /\ Bits!BitsAt(n).err \in {Bits!Overflow, Bits!EndOfStream}
    BY <1>4, ReadOfBits DEF Bits!Returned
  <2>2. Bits!BitsAt(n).err # Bits!NoError
    BY <2>1 DEF Bits!Overflow, Bits!EndOfStream, Bits!NoError
  <2>3. cursor' = cursor /\ result'.err \in {Bits!Overflow, Bits!EndOfStream} /\ result'.val = 0
    BY <2>1, <2>2 DEF Bits!Moved
  <2>4. CallIsRight'
    BY <1>1, <1>2, <1>4, <2>3 DEF CallIsRight
  <2>5. result'.val \in Bits!Int64 /\ result'.val \in Bits!Uint64
    BY <1>1, <2>3 DEF Bits!Int64, Bits!Uint64
  <2>. QED
    BY <1>1, <1>2, <2>3, <2>4, <2>5 DEF BitsSoFar
<1>. QED
  BY <1>3, <1>4

\* and every action keeps it.
LEMMA BitsGoOn == BitsSoFar /\ [Bits!Next]_groupVars => BitsSoFar'
<1>. SUFFICES ASSUME BitsSoFar, [Bits!Next]_groupVars PROVE BitsSoFar'
  OBVIOUS
<1>1. CASE UNCHANGED groupVars
  BY <1>1 DEF groupVars, BitsSoFar, CallIsRight, NumBits
<1>2. ASSUME NEW gs \in BitGroups, NEW cut \in BOOLEAN, Bits!ReadBitGroup(gs, cut)
      PROVE  BitsSoFar'
  <2>1. bits' \in Seq(Groups(GroupBits))
    <3>1. gs \in Seq(Groups(GroupBits))
      BY PartsAssumption DEF Bits!BitGroupAssumption, Groups, Radix
    <3>2. <<>> \in Seq(Groups(GroupBits))
      OBVIOUS
    <3>. QED
      BY <1>2, <3>1, <3>2 DEF Bits!ReadBitGroup
  <2>2. NumBits(GroupBits, bits') \in Nat
    BY <2>1, NumberIsNat, Sizes
  <2>. QED
    BY <1>2, <2>1, <2>2, Sizes
    DEF Bits!ReadBitGroup, BitsSoFar, CallIsRight, Bits!Returned, Bits!NoCall, Bits!Uint64,
        Bits!NoError, Bits!EndOfStream, Bits!Overflow
<1>3. ASSUME NEW n \in 0 .. WordBits + 1, Bits!ReadBits(n)
      PROVE  BitsSoFar'
  <2>1. /\ Bits!Moved(Bits!BitsAt(n), n) /\ bits' = bits
        /\ call' = [kind |-> "bits", from |-> cursor, n |-> n] /\ result' = Bits!BitsAt(n)
    BY <1>3 DEF Bits!ReadBits
  <2>. QED
    BY <2>1, CallKeepsPlace
<1>4. ASSUME NEW n \in 0 .. WordBits + 1, Bits!ReadBitsSigned(n)
      PROVE  BitsSoFar'
  <2>. DEFINE r == Bits!BitsAt(n)
  <2>1. /\ Bits!Moved(r, n) /\ bits' = bits
        /\ call' = [kind |-> "signed", from |-> cursor, n |-> n]
        /\ result' = IF r.err = Bits!NoError
                     THEN [r EXCEPT !.val = Bits!SignExtended(@, n)] ELSE r
    BY <1>4 DEF Bits!ReadBitsSigned
  <2>2. \E v, e : r = Bits!Returned(v, e)
    BY ReadOfBits
  <2>3. result'.err = r.err
        /\ result'.val = IF r.err = Bits!NoError THEN Bits!SignExtended(r.val, n) ELSE r.val
    <3>. HIDE DEF r
    <3>. QED
      BY <2>1, <2>2 DEF Bits!Returned
  <2>. QED
    BY <2>1, <2>3, CallKeepsPlace
<1>. QED
  BY <1>1, <1>2, <1>3, <1>4 DEF Bits!Next

\* It is what the properties of BitGroup need.
LEMMA BitsAreRight ==
  BitsSoFar => Bits!TypeOK /\ Bits!BitsComeInOrder /\ Bits!RefusalKeepsPlace
<1>. SUFFICES ASSUME BitsSoFar
              PROVE  Bits!TypeOK /\ Bits!BitsComeInOrder /\ Bits!RefusalKeepsPlace
  OBVIOUS
<1>1. Bits!numBits = NumBits(GroupBits, bits)
  BY DEF Bits!numBits, NumBits
<1>2. Bits!TypeOK
  BY <1>1 DEF BitsSoFar, Bits!TypeOK, Groups, Radix
<1>3. Bits!Whole = NumberOf(GroupBits, bits)
  BY DEF Bits!Whole, Bits!FoldLeft, Bits!MapThenFoldSet, Bits!Max, NumberOf, Number, FoldLeft, MapThenFoldSet, Max, Radix
<1>4. \A c, n : Bits!Slice(c, n) = Cut(GroupBits, bits, c, n)
  BY <1>1, <1>3 DEF Bits!Slice, Cut, NumBits
<1>5. Bits!BitsComeInOrder
  BY <1>4 DEF BitsSoFar, CallIsRight, Bits!BitsComeInOrder, Signed, Bits!NoError, Bits!Overflow, Bits!EndOfStream
<1>6. Bits!RefusalKeepsPlace
  BY <1>1 DEF BitsSoFar, CallIsRight, Bits!RefusalKeepsPlace, Bits!NoError, Bits!Overflow, Bits!EndOfStream
<1>. QED
  BY <1>2, <1>5, <1>6

-----------------------------------------------------------------------------
(* PresenceMap: words, from their top.                                     *)

\* The bits of the word of a map.
W == Map!MapWordBits

\* The bits of a group of a map.
Mg == MapGroupBits

\* What is assumed of them: the word has one bit more than it takes groups.
LEMMA MapSizes ==
  /\ Mg \in Nat \ {0} /\ Packed \in Nat \ {0} /\ W \in Nat /\ W = Packed * Mg + 1
  /\ Packed * Mg \in Nat \ {0} /\ MaxDepth \in Nat
  /\ Maps \subseteq Seq(Groups(Mg)) \ {<<>>}
<1>1. Mg \in Nat \ {0} /\ Packed \in Nat \ {0} /\ MaxDepth \in Nat
      /\ Maps \subseteq Seq(Groups(Mg)) \ {<<>>}
  BY PartsAssumption DEF Map!MapAssumption, Mg, Groups, Radix
<1>2. Packed * Mg \in Nat \ {0}
  BY <1>1
<1>3. W = Packed * Mg + 1
  BY DEF W, Map!MapWordBits, Mg
<1>. QED
  BY <1>1, <1>2, <1>3

\* The powers of two that add up.
LEMMA PowerProduct ==
  ASSUME NEW a \in Nat, NEW b \in Nat, NEW c \in Nat, c = a + b
  PROVE  2 ^ c = 2 ^ a * 2 ^ b /\ 2 ^ a \in Nat \ {0} /\ 2 ^ b \in Nat \ {0} /\ 2 ^ c \in Nat \ {0}
<1>1. 2 ^ (a + b) = 2 ^ a * 2 ^ b
  BY PowerSum
<1>2. c \in Nat
  OBVIOUS
<1>3. 2 ^ a \in Nat \ {0} /\ 2 ^ b \in Nat \ {0} /\ 2 ^ c \in Nat \ {0}
  BY <1>2, PowerPositive
<1>. QED
  BY <1>1, <1>3

\* The i-th bit of a word, from the top.
WordBit(x, i) == (x \div 2 ^ (W - i)) % 2 = 1

\* The values of the word.
Word == 0 .. 2 ^ W - 1

\* The topmost bit is the first one.
LEMMA TopOfWord ==
  ASSUME NEW x \in Word
  PROVE  (x \div 2 ^ (W - 1) = 1) <=> WordBit(x, 1)
<1>. DEFINE h == 2 ^ (W - 1)
            q == x \div h
<1>1. h \in Nat \ {0} /\ 2 ^ W = 2 * h
  <2>1. W - 1 \in Nat /\ (W - 1) + 1 = W
    BY MapSizes
  <2>. QED
    BY <2>1, PowerStep, PowerPositive
<1>2. x \in Nat /\ x < 2 * h
  BY <1>1 DEF Word
<1>. HIDE DEF h
<1>. DEFINE r == x % h
<1>3. x \in Int
  BY <1>2
<1>4. q \in Int /\ r \in Int /\ x = q * h + r /\ 0 <= r /\ r < h /\ q * h \in Int
  <2>1. q \in Int /\ r \in Int /\ x = q * h + r /\ 0 <= r /\ r < h
    BY <1>1, <1>3, Division
  <2>. HIDE DEF q, r
  <2>. QED
    BY <1>1, <2>1
<1>. HIDE DEF q, r
<1>5. ~(q >= 2)
  <2>1. SUFFICES ASSUME q >= 2 PROVE FALSE
    OBVIOUS
  <2>2. 2 * h <= q * h
    BY <1>1, <1>4, <2>1, ScaleUp
  <2>. QED
    BY <1>1, <1>2, <1>4, <2>2
<1>6. ~(q <= -1)
  <2>1. SUFFICES ASSUME q <= -1 PROVE FALSE
    OBVIOUS
  <2>2. q * h <= (-1) * h
    <3>1. -1 \in Int
      OBVIOUS
    <3>. QED
      BY <1>1, <1>4, <2>1, <3>1, ScaleUp
  <2>3. (-1) * h = -h
    BY <1>1
  <2>. QED
    BY <1>1, <1>2, <1>4, <2>2, <2>3
<1>7. q = 0 \/ q = 1
  BY <1>4, <1>5, <1>6
<1>8. q = 1 <=> q % 2 = 1
  BY <1>7
<1>. QED
  BY <1>8 DEF WordBit, q, h

\* A number of m bits at the top of a word.
LEMMA Placed ==
  ASSUME NEW m \in Nat, m <= W, NEW x \in 0 .. 2 ^ m - 1
  PROVE  /\ x * 2 ^ (W - m) \in Word
         /\ (x * 2 ^ (W - m)) % 2 ^ (W - m) = 0
         /\ \A i \in 1 .. m : WordBit(x * 2 ^ (W - m), i) <=> (x \div 2 ^ (m - i)) % 2 = 1
<1>. DEFINE l == 2 ^ (W - m)
            p == 2 ^ m
            y == x * l
<1>1. l \in Nat \ {0} /\ p \in Nat \ {0} /\ 2 ^ W = p * l /\ W - m \in Nat
  <2>1. W - m \in Nat /\ W \in Nat /\ W = m + (W - m)
    BY MapSizes
  <2>. QED
    BY <2>1, PowerProduct
<1>2. x \in Int /\ x \in 0 .. p - 1
  BY <1>1
<1>3. y \in Int /\ y \div l = x /\ y % l = 0
  <2>. HIDE DEF l
  <2>. QED
    BY <1>1, <1>2, Multiple
<1>4. y \in Word
  <2>. HIDE DEF p, l
  <2>1. x <= p - 1 /\ 0 <= x /\ p - 1 \in Int
    BY <1>1, <1>2
  <2>2. x * l <= (p - 1) * l /\ 0 * l <= x * l
    BY <1>1, <1>2, <2>1, ScaleUp
  <2>3. (p - 1) * l = p * l - l /\ 0 * l = 0 /\ p * l \in Int /\ x * l \in Int
    BY <1>1, <1>2
  <2>. QED
    BY <1>1, <2>2, <2>3 DEF Word
<1>5. ASSUME NEW i \in 1 .. m
      PROVE  WordBit(y, i) <=> (x \div 2 ^ (m - i)) % 2 = 1
  <2>. DEFINE e == 2 ^ (m - i)
  <2>1. 2 ^ (W - i) = l * e /\ e \in Nat \ {0}
    <3>1. m - i \in Nat /\ W - i \in Nat /\ W - i = (W - m) + (m - i)
      BY <1>1, MapSizes
    <3>. QED
      BY <1>1, <3>1, PowerProduct
  <2>. HIDE DEF l, e, y
  <2>2. y \div (l * e) = (y \div l) \div e
    <3>1. y \in Int /\ l \in Nat \ {0} /\ e \in Nat \ {0}
      BY <1>1, <1>3, <2>1 DEF l
    <3>. QED
      BY <3>1, DivideTwice
  <2>. QED
    BY <1>3, <2>1, <2>2 DEF WordBit, e
<1>. QED
  BY <1>3, <1>4, <1>5

\* Shifting up drops the first bit and keeps the rest clean.
LEMMA ShiftedWord ==
  ASSUME NEW x \in Word, NEW n \in 1 .. W - 1, x % 2 ^ (W - n) = 0
  PROVE  /\ (x * 2) % 2 ^ W \in Word
         /\ ((x * 2) % 2 ^ W) % 2 ^ (W - (n - 1)) = 0
         /\ \A i \in 1 .. W - 1 : WordBit((x * 2) % 2 ^ W, i) <=> WordBit(x, i + 1)
<1>. DEFINE w == 2 ^ W
            y == (x * 2) % w
            k == (x * 2) \div w
<1>1. w \in Nat \ {0} /\ x \in Nat /\ W \in Nat
  <2>1. w \in Nat \ {0} /\ W \in Nat
    BY MapSizes, PowerPositive
  <2>. QED
    BY <2>1 DEF Word
<1>2. y \in 0 .. w - 1 /\ y \in Int /\ k \in Int /\ x * 2 = k * w + y
  <2>1. x * 2 \in Int
    BY <1>1
  <2>. HIDE DEF w
  <2>. QED
    BY <1>1, <2>1, Division
<1>3. y \in Word
  BY <1>2 DEF Word
<1>. HIDE DEF y, k
<1>4. y % 2 ^ (W - (n - 1)) = 0
  <2>. DEFINE l == 2 ^ (W - n)
              m == 2 ^ (W - (n - 1))
              p == 2 ^ (n - 1)
  <2>1. l \in Nat \ {0} /\ m = 2 * l /\ p \in Nat \ {0} /\ w = p * m
    <3>1. n \in Nat /\ W - n \in Nat /\ W - (n - 1) = (W - n) + 1 /\ n - 1 \in Nat /\ W - (n - 1) \in Nat
          /\ W = (n - 1) + (W - (n - 1))
      BY <1>1
    <3>2. m = 2 * l /\ l \in Nat \ {0}
      BY <3>1, PowerStep, PowerPositive
    <3>3. w = p * m /\ p \in Nat \ {0}
      <4>. DEFINE a == n - 1
                  b == W - (n - 1)
      <4>1. a \in Nat /\ b \in Nat /\ W \in Nat /\ W = a + b
        BY <1>1, <3>1
      <4>. HIDE DEF a, b
      <4>2. 2 ^ W = 2 ^ a * 2 ^ b /\ 2 ^ a \in Nat \ {0}
        BY <4>1, PowerProduct
      <4>. QED
        BY <4>2 DEF a, b
    <3>. QED
      BY <3>2, <3>3
  <2>2. PICK a \in Int : x = a * l
    <3>. HIDE DEF l
    <3>1. x \div l \in Int /\ x = (x \div l) * l + (x % l)
      BY <1>1, <2>1, Division
    <3>2. x % l = 0
      BY DEF l
    <3>3. x = (x \div l) * l
      <4>1. (x \div l) * l \in Int
        BY <2>1, <3>1
      <4>. QED
        BY <3>1, <3>2, <4>1
    <3>. QED
      BY <3>1, <3>3
  <2>. DEFINE b == a - k * p
  <2>. HIDE DEF l, m, p, w
  <2>3. y = b * m /\ b \in Int
    <3>1. (a * l) * 2 = a * (2 * l)
      BY <2>1
    <3>2. k * (p * m) = (k * p) * m /\ k * p \in Int
      BY <1>2, <2>1
    <3>3. (a - k * p) * m = a * m - (k * p) * m /\ a * m \in Int /\ (k * p) * m \in Int
      BY <2>1, <3>2
    <3>. QED
      BY <1>2, <2>1, <2>2, <3>1, <3>2, <3>3
  <2>. HIDE DEF b
  <2>4. m \in Nat \ {0}
    BY <2>1
  <2>5. y % m = 0
    BY <2>3, <2>4, Multiple
  <2>. QED
    BY <2>5 DEF m
<1>5. ASSUME NEW i \in 1 .. W - 1 PROVE WordBit(y, i) <=> WordBit(x, i + 1)
  <2>. DEFINE d == 2 ^ (W - (i + 1))
              e == 2 ^ (W - i)
              p == 2 ^ (i - 1)
  <2>1. d \in Nat \ {0} /\ e = d * 2 /\ p \in Nat /\ w = (2 * p) * e
    <3>1. W - (i + 1) \in Nat /\ W - i = (W - (i + 1)) + 1 /\ i \in Nat /\ i - 1 \in Nat /\ W - i \in Nat
          /\ W = i + (W - i) /\ i = (i - 1) + 1
      BY <1>1
    <3>2. e = 2 * d /\ d \in Nat \ {0}
      BY <3>1, PowerStep, PowerPositive
    <3>3. w = 2 ^ i * e
      BY <1>1, <3>1, PowerProduct
    <3>4. 2 ^ i = 2 * p /\ p \in Nat
      BY <3>1, PowerStep, PowerPositive
    <3>. QED
      BY <3>2, <3>3, <3>4
  <2>. HIDE DEF d, e, p, w
  <2>2. e \in Nat \ {0}
    BY <2>1
  <2>. DEFINE q == k * (2 * p)
  <2>3. x * 2 = q * e + y /\ q \in Int
    <3>1. k * ((2 * p) * e) = (k * (2 * p)) * e /\ k * (2 * p) \in Int
      BY <1>2, <2>1, <2>2
    <3>. QED
      BY <1>2, <2>1, <3>1
  <2>4. (x * 2) \div e = q + (y \div e) /\ y \div e \in Int
    <3>. HIDE DEF q
    <3>1. (q * e + y) \div e = q + (y \div e)
      BY <1>2, <2>2, <2>3, DivideSum
    <3>2. y \div e \in Int
      BY <1>2, <2>2, Division
    <3>. QED
      BY <2>3, <3>1, <3>2
  <2>5. (x * 2) \div e = x \div d
    <3>1. (x * 2) \div (2 * d) = ((x * 2) \div 2) \div d
      <4>. DEFINE t == 2
                  z == x * 2
      <4>1. t \in Nat \ {0} /\ z \in Int /\ d \in Nat \ {0}
        BY <1>1, <2>1
      <4>. HIDE DEF t, z
      <4>2. z \div (t * d) = (z \div t) \div d
        BY <4>1, DivideTwice
      <4>. QED
        BY <4>2 DEF t, z
    <3>2. (x * 2) \div 2 = x
      BY <1>1
    <3>3. 2 * d = e
      BY <2>1
    <3>. QED
      BY <3>1, <3>2, <3>3
  <2>6. (x \div d) % 2 = (y \div e) % 2
    <3>1. q = 2 * (k * p) /\ k * p \in Int
      BY <1>2, <2>1
    <3>. HIDE DEF q
    <3>. QED
      BY <2>4, <2>5, <3>1, EvenLess
  <2>. QED
    BY <2>6 DEF WordBit, d, e
<1>. QED
  BY <1>3, <1>4, <1>5 DEF y, w

\* The bits of so many groups are a number of so many bits.
LEMMA NumberBound ==
  ASSUME NEW g \in Nat \ {0}, NEW gs \in Seq(Groups(g)), NEW k \in Nat, k <= Len(gs)
  PROVE  NumberOf(g, First(gs, k)) \in 0 .. 2 ^ (g * k) - 1
<1>. DEFINE T == {j \in Nat : j <= Len(gs) => NumberOf(g, First(gs, j)) < 2 ^ (g * j)}
<1>1. 0 \in T
  <2>1. First(gs, 0) = <<>> /\ g * 0 = 0
    BY SubSeqProperties DEF First
  <2>2. NumberOf(g, <<>>) = 0
    BY NumberOfNone DEF NumberOf
  <2>3. 2 ^ 0 = 1
    OBVIOUS
  <2>. DEFINE e == g * 0
  <2>4. e = 0
    BY <2>1
  <2>. HIDE DEF e
  <2>5. NumberOf(g, First(gs, 0)) < 2 ^ e
    BY <2>1, <2>2, <2>3, <2>4
  <2>. QED
    BY <2>5 DEF e
<1>2. ASSUME NEW j \in T PROVE j + 1 \in T
  <2>1. SUFFICES ASSUME j + 1 <= Len(gs) PROVE NumberOf(g, First(gs, j + 1)) < 2 ^ (g * (j + 1))
    OBVIOUS
  <2>. DEFINE n == NumberOf(g, First(gs, j))
              d == gs[j + 1]
              p == 2 ^ (g * j)
              b == Radix(g)
  <2>2. j \in Nat /\ j <= Len(gs) /\ n < p
    BY <2>1
  <2>3. n \in Nat /\ d \in 0 .. b - 1 /\ NumberOf(g, First(gs, j + 1)) = n * b + d
    BY <2>1, <2>2, NumberOfFirst, FirstOfMore DEF Groups
  <2>4. 2 ^ (g * (j + 1)) = p * b /\ p \in Nat /\ b \in Nat \ {0}
    <3>1. g * j \in Nat /\ g * (j + 1) \in Nat /\ g * (j + 1) = g * j + g /\ g \in Nat
      BY <2>2
    <3>. DEFINE x == g * j
                y == g * (j + 1)
    <3>2. x \in Nat /\ y \in Nat /\ y = x + g
      BY <3>1
    <3>. HIDE DEF x, y
    <3>3. 2 ^ y = 2 ^ x * 2 ^ g /\ 2 ^ x \in Nat \ {0} /\ 2 ^ g \in Nat \ {0}
      BY <3>1, <3>2, PowerProduct
    <3>. QED
      BY <3>3 DEF x, y, Radix
  <2>. HIDE DEF n, d, p, b
  <2>5. n * b <= (p - 1) * b /\ (p - 1) * b = p * b - b
    <3>1. n <= p - 1 /\ n \in Int /\ p - 1 \in Int
      BY <2>2, <2>3, <2>4
    <3>2. (p - 1) * b = p * b - b
      BY <2>4
    <3>. QED
      BY <2>4, <3>1, <3>2, ScaleUp
  <2>6. n * b + d < p * b
    <3>1. n * b \in Int /\ p * b \in Int
      BY <2>3, <2>4
    <3>. QED
      BY <2>3, <2>4, <2>5, <3>1
  <2>. QED
    BY <2>3, <2>4, <2>6
<1>3. T = Nat
  <2>. HIDE DEF T
  <2>1. T \subseteq Nat
    BY DEF T
  <2>. QED
    BY <1>1, <1>2, <2>1, Everywhere
<1>4. NumberOf(g, First(gs, k)) < 2 ^ (g * k)
  BY <1>3
<1>5. NumberOf(g, First(gs, k)) \in Nat /\ 2 ^ (g * k) \in Nat
  <2>1. g * k \in Nat
    OBVIOUS
  <2>. QED
    BY <2>1, NumberOfFirst, PowerPositive
<1>. QED
  BY <1>4, <1>5

-----------------------------------------------------------------------------
\* The first n bits of a word.
InW(x, n) == [i \in 1 .. n |-> WordBit(x, i)]

\* The bits of groups, in order.
Sent(gs) == [i \in 1 .. Mg * Len(gs) |-> BitOf(Mg, gs, i - 1) = 1]

\* They are the BitsSent of BitSequence.
LEMMA SentIsSent ==
  ASSUME NEW gs \in Seq(Groups(Mg))
  PROVE  Map!Sequence!BitsSent(gs) = Sent(gs)
<1>1. Mg \in Nat \ {0}
  BY MapSizes
<1>2. ASSUME NEW k \in 1 .. Mg * Len(gs)
      PROVE  Map!Sequence!BitOf(gs[(k - 1) \div MapGroupBits + 1], ((k - 1) % MapGroupBits) + 1)
               = (BitOf(Mg, gs, k - 1) = 1)
  <2>. DEFINE r == (k - 1) % Mg
  <2>1. r \in Int
    <3>1. k - 1 \in Int
      OBVIOUS
    <3>. QED
      BY <1>1, <3>1, Division
  <2>. HIDE DEF r
  <2>2. Mg - (r + 1) = Mg - 1 - r
    BY <1>1, <2>1
  <2>. QED
    BY <2>2 DEF Map!Sequence!BitOf, BitOf, r, Mg
<1>. QED
  BY <1>2 DEF Map!Sequence!BitsSent, Sent, Mg

\* The bits of a sequence of groups are the bits of its number.
LEMMA SentIsNumber ==
  ASSUME NEW gs \in Seq(Groups(Mg)), NEW i \in 1 .. Mg * Len(gs)
  PROVE  BitOf(Mg, gs, i - 1) = (NumberOf(Mg, gs) \div 2 ^ (Mg * Len(gs) - i)) % 2
<1>1. Mg \in Nat \ {0} /\ Len(gs) \in Nat
  BY MapSizes
<1>2. Mg * Len(gs) \in Nat
  BY <1>1
<1>3. i - 1 \in 0 .. Mg * Len(gs) - 1 /\ Mg * Len(gs) - 1 - (i - 1) = Mg * Len(gs) - i
  BY <1>2
<1>. QED
  BY <1>1, <1>3, BitsAreDigits

\* Up to Packed groups at the top of a word.
LEMMA WordOfGroups ==
  ASSUME NEW gs \in Seq(Groups(Mg)), Len(gs) <= Packed
  PROVE  LET n == Mg * Len(gs)
             x == NumberOf(Mg, gs) * 2 ^ (W - n)
         IN  /\ n \in 0 .. Packed * Mg /\ n <= W
             /\ x \in Word /\ x % 2 ^ (W - n) = 0 /\ InW(x, n) = Sent(gs)
<1>. DEFINE n == Mg * Len(gs)
            v == NumberOf(Mg, gs)
            x == v * 2 ^ (W - n)
<1>1. Mg \in Nat \ {0} /\ Len(gs) \in Nat /\ Packed \in Nat
  BY MapSizes
<1>2. n \in Nat /\ n <= Packed * Mg /\ n <= W
  <2>1. Len(gs) * Mg <= Packed * Mg
    BY <1>1, ScaleUp
  <2>2. n = Len(gs) * Mg /\ n \in Nat
    BY <1>1
  <2>. QED
    BY <2>1, <2>2, MapSizes
<1>3. v \in 0 .. 2 ^ n - 1
  <2>1. First(gs, Len(gs)) = gs /\ Len(gs) <= Len(gs)
    BY <1>1, SubSeqProperties DEF First
  <2>. QED
    BY <1>1, <2>1, NumberBound
<1>. HIDE DEF v
<1>4. x \in Word /\ x % 2 ^ (W - n) = 0
      /\ \A i \in 1 .. n : WordBit(x, i) <=> (v \div 2 ^ (n - i)) % 2 = 1
  <2>. HIDE DEF n
  <2>. QED
    BY <1>2, <1>3, Placed
<1>5. ASSUME NEW i \in 1 .. n PROVE WordBit(x, i) = (BitOf(Mg, gs, i - 1) = 1)
  <2>1. BitOf(Mg, gs, i - 1) = (v \div 2 ^ (n - i)) % 2
    BY SentIsNumber DEF v
  <2>2. WordBit(x, i) <=> (v \div 2 ^ (n - i)) % 2 = 1
    BY <1>4
  <2>. QED
    BY <2>1, <2>2 DEF WordBit
<1>6. InW(x, n) = Sent(gs)
  <2>. HIDE DEF x
  <2>. QED
    BY <1>5 DEF InW, Sent
<1>. QED
  BY <1>2, <1>4, <1>6 DEF v

-----------------------------------------------------------------------------
(* What Word packs.                                                        *)

\* What Word folds a map's first groups into.
PackFolds(it, s) ==
  it = [S \in SUBSET (DOMAIN s) |->
          IF S = {} THEN [bits |-> 0, n |-> 0] ELSE Map!Pack(it[S \ {Max(S)}], s[Max(S)])]

\* The loop of ReadPMAP.
PackFold(s) == Map!FoldLeft(Map!Pack, [bits |-> 0, n |-> 0], s)

\* It is the fold that was chosen.
LEMMA PackFoldIsChosen ==
  ASSUME NEW s
  PROVE  PackFold(s) = (CHOOSE it : PackFolds(it, s))[DOMAIN s]
BY DEF PackFold, Map!FoldLeft, Map!MapThenFoldSet, Map!Max, Max, PackFolds

\* And that is a fold in the sense above.
LEMMA PackIsFold ==
  ASSUME NEW s, NEW n \in Nat, DOMAIN s = 1 .. n
  PROVE  \E it : /\ FoldsTo(it, n, Packs(MapGroupBits, Map!MapWordBits), [bits |-> 0, n |-> 0], s)
                 /\ PackFold(s) = it[1 .. n]
<1>. DEFINE how == Packs(MapGroupBits, Map!MapWordBits)
            none == [bits |-> 0, n |-> 0]
<1>1. \A v, x : Take(how, v, x) = Map!Pack(v, x)
  BY DEF Take, Packs, Map!Pack
<1>. HIDE DEF how
<1>2. \A it : FoldsTo(it, n, how, none, s) => PackFolds(it, s)
  BY <1>1 DEF FoldsTo, PackFolds
<1>3. \E it : PackFolds(it, s)
  BY <1>2, FoldExists
<1>. DEFINE chosen == CHOOSE it : PackFolds(it, s)
<1>4. PackFolds(chosen, s)
  BY <1>3
<1>. HIDE DEF chosen
<1>5. chosen = [S \in SUBSET (1 .. n) |->
          IF S = {} THEN none ELSE Map!Pack(chosen[S \ {Max(S)}], s[Max(S)])]
  BY <1>4 DEF PackFolds
<1>6. FoldsTo(chosen, n, how, none, s)
  BY <1>1, <1>5 DEF FoldsTo
<1>7. PackFold(s) = chosen[1 .. n]
  BY PackFoldIsChosen DEF chosen
<1>. QED
  BY <1>6, <1>7 DEF how

\* One group more below those that are packed.
LEMMA PacksOneMore ==
  ASSUME NEW s \in Seq(Groups(Mg)), Len(s) <= Packed, NEW k \in Nat, k + 1 <= Len(s)
  PROVE  Take(Packs(Mg, W), [bits |-> NumberOf(Mg, First(s, k)) * 2 ^ (W - Mg * k), n |-> Mg * k], s[k + 1])
           = [bits |-> NumberOf(Mg, First(s, k + 1)) * 2 ^ (W - Mg * (k + 1)), n |-> Mg * (k + 1)]
<1>. DEFINE m == Mg * k
            l == Mg * (k + 1)
            v == NumberOf(Mg, First(s, k))
            d == s[k + 1]
<1>1. Mg \in Nat \ {0} /\ Packed \in Nat /\ W \in Nat /\ Len(s) \in Nat /\ W = Packed * Mg + 1
  BY MapSizes
<1>2. m \in Nat /\ l \in Nat /\ l = m + Mg /\ l <= W
  <2>1. (k + 1) * Mg <= Packed * Mg
    <3>1. k + 1 <= Packed /\ k + 1 \in Int
      BY <1>1
    <3>. QED
      BY <1>1, <3>1, ScaleUp
  <2>2. (k + 1) * Mg = l /\ l = m + Mg /\ m \in Nat /\ l \in Nat
    BY <1>1
  <2>. QED
    BY <1>1, <2>1, <2>2
<1>3. v \in Nat /\ d \in Nat /\ NumberOf(Mg, First(s, k + 1)) = v * Radix(Mg) + d
  <2>1. k <= Len(s) /\ Radix(Mg) \in Nat
    BY <1>1, RadixIsNat
  <2>. QED
    BY <1>1, <2>1, NumberOfFirst, FirstOfMore DEF Groups
<1>. HIDE DEF m, l, v, d
<1>4. W - m \in Nat /\ W - l \in Nat /\ W - m = Mg + (W - l) /\ Mg \in Nat /\ W - Mg - m = W - l
  BY <1>1, <1>2
<1>. DEFINE p == 2 ^ (W - m)
            q == 2 ^ (W - l)
            b == Radix(Mg)
<1>5. p = b * q /\ b \in Nat /\ q \in Nat
  <2>1. 2 ^ (W - m) = 2 ^ Mg * 2 ^ (W - l) /\ 2 ^ Mg \in Nat \ {0} /\ 2 ^ (W - l) \in Nat \ {0}
    BY <1>4, PowerProduct
  <2>. QED
    BY <2>1 DEF Radix
<1>6. Take(Packs(Mg, W), [bits |-> v * p, n |-> m], d) = [bits |-> v * p + d * q, n |-> m + Mg]
  BY <1>4 DEF Take, Packs
<1>7. v * p + d * q = (v * b + d) * q
  <2>. HIDE DEF p, q, b
  <2>1. v * (b * q) = (v * b) * q /\ (v * b + d) * q = (v * b) * q + d * q
    BY <1>3, <1>5
  <2>. QED
    BY <1>5, <2>1
<1>8. [bits |-> v * p + d * q, n |-> m + Mg] = [bits |-> (v * b + d) * q, n |-> l]
  BY <1>2, <1>7
<1>. QED
  BY <1>3, <1>6, <1>8 DEF m, l, v, d

\* So the word holds the number of its groups, at its top.
LEMMA PackIsNumber ==
  ASSUME NEW s \in Seq(Groups(Mg)), Len(s) <= Packed
  PROVE  PackFold(s) = [bits |-> NumberOf(Mg, s) * 2 ^ (W - Mg * Len(s)), n |-> Mg * Len(s)]
<1>. DEFINE n == Len(s)
            how == Packs(Mg, W)
            none == [bits |-> 0, n |-> 0]
            Upto(k) == [bits |-> NumberOf(Mg, First(s, k)) * 2 ^ (W - Mg * k), n |-> Mg * k]
<1>1. n \in Nat /\ DOMAIN s = 1 .. n /\ Mg \in Nat \ {0} /\ W \in Nat
  BY MapSizes
<1>2. PICK it : FoldsTo(it, n, how, none, s) /\ PackFold(s) = it[1 .. n]
  BY <1>1, PackIsFold DEF Mg, W
<1>2a. \A j \in Nat : j + 1 <= n => it[1 .. j + 1] = Take(how, it[1 .. j], s[j + 1])
  <2>. HIDE DEF n, how, none
  <2>. QED
    BY <1>1, <1>2, FoldStep
<1>. DEFINE T == {k \in Nat : k <= n => it[1 .. k] = Upto(k)}
<1>3. 0 \in T
  <2>1. it[1 .. 0] = none
    BY <1>2 DEF FoldsTo
  <2>2. First(s, 0) = <<>> /\ Mg * 0 = 0
    BY <1>1, SubSeqProperties DEF First
  <2>3. NumberOf(Mg, <<>>) = 0
    BY NumberOfNone DEF NumberOf
  <2>4. 0 * 2 ^ (W - 0) = 0
    <3>1. W - 0 \in Nat
      BY <1>1
    <3>2. 2 ^ (W - 0) \in Nat
      BY <3>1, PowerPositive
    <3>. QED
      BY <3>2
  <2>. DEFINE e == Mg * 0
  <2>5. e = 0
    BY <2>2
  <2>. HIDE DEF e
  <2>6. [bits |-> NumberOf(Mg, First(s, 0)) * 2 ^ (W - e), n |-> e] = none
    BY <2>2, <2>3, <2>4, <2>5
  <2>7. Upto(0) = none
    BY <2>6 DEF e
  <2>. QED
    BY <2>1, <2>7
<1>4. ASSUME NEW k \in T PROVE k + 1 \in T
  <2>1. SUFFICES ASSUME k + 1 <= n PROVE it[1 .. k + 1] = Upto(k + 1)
    OBVIOUS
  <2>2. k \in Nat /\ it[1 .. k] = Upto(k)
    BY <1>1, <2>1
  <2>3. it[1 .. k + 1] = Take(how, it[1 .. k], s[k + 1])
    BY <1>2a, <2>1, <2>2
  <2>4. Take(how, Upto(k), s[k + 1]) = Upto(k + 1)
    BY <2>1, <2>2, PacksOneMore
  <2>. HIDE DEF how, Upto
  <2>. QED
    BY <2>2, <2>3, <2>4
<1>5. T = Nat
  <2>. HIDE DEF T
  <2>1. T \subseteq Nat
    BY DEF T
  <2>. QED
    BY <1>3, <1>4, <2>1, Everywhere
<1>6. it[1 .. n] = Upto(n)
  BY <1>1, <1>5
<1>7. First(s, n) = s
  BY <1>1, SubSeqProperties DEF First
<1>. QED
  BY <1>2, <1>6, <1>7

-----------------------------------------------------------------------------
(* The bits of groups that follow each other.                              *)

\* The group that the i-th bit is in.
LEMMA GroupOfBit ==
  ASSUME NEW m \in Nat \ {0}, NEW l \in Nat, NEW i \in 0 .. m * l - 1
  PROVE  i \div m \in 0 .. l - 1
<1>. DEFINE q == i \div m
            r == i % m
<1>1. m * l \in Nat /\ i \in Int /\ 0 <= i /\ i < m * l
  OBVIOUS
<1>2. q \in Int /\ r \in Int /\ i = q * m + r /\ 0 <= r /\ r < m
  BY <1>1, Division
<1>. HIDE DEF q, r
<1>3. ~(q >= l)
  <2>1. SUFFICES ASSUME l <= q PROVE FALSE
    BY <1>2
  <2>2. l * m <= q * m /\ l * m = m * l /\ q * m \in Int
    BY <1>2, <2>1, ScaleUp
  <2>. QED
    BY <1>1, <1>2, <2>2
<1>4. ~(q <= -1)
  <2>1. SUFFICES ASSUME q <= -1 PROVE FALSE
    OBVIOUS
  <2>2. q * m <= (-1) * m /\ (-1) * m = -m /\ q * m \in Int
    <3>1. -1 \in Int /\ (-1) * m = -m
      OBVIOUS
    <3>. QED
      BY <1>2, <2>1, <3>1, ScaleUp
  <2>. QED
    BY <1>1, <1>2, <2>2
<1>. QED
  BY <1>2, <1>3, <1>4 DEF q

\* Sequences with the same bits in the same places are the same.
SameBits(s, t, n) == Len(s) = n /\ Len(t) = n /\ \A i \in 1 .. n : s[i] = t[i]

\* A sequence is no more than its elements.
LEMMA SameBitsAreSame ==
  ASSUME NEW s \in Seq(BOOLEAN), NEW t \in Seq(BOOLEAN), NEW n \in Nat, SameBits(s, t, n)
  PROVE  s = t
<1>1. s \in [1 .. n -> BOOLEAN] /\ t \in [1 .. n -> BOOLEAN]
  BY DEF SameBits
<1>. QED
  BY <1>1 DEF SameBits

\* The elements of a concatenation.
LEMMA ConcatParts ==
  ASSUME NEW S, NEW s \in Seq(S), NEW t \in Seq(S)
  PROVE  /\ s \o t \in Seq(S) /\ Len(s \o t) = Len(s) + Len(t)
         /\ \A i \in 1 .. Len(s) : (s \o t)[i] = s[i]
         /\ \A i \in 1 .. Len(t) : (s \o t)[Len(s) + i] = t[i]
OBVIOUS

\* The same for bits.
LEMMA BitsJoined ==
  ASSUME NEW s \in Seq(BOOLEAN), NEW t \in Seq(BOOLEAN)
  PROVE  /\ s \o t \in Seq(BOOLEAN) /\ Len(s \o t) = Len(s) + Len(t)
         /\ \A i \in 1 .. Len(s) : (s \o t)[i] = s[i]
         /\ \A i \in 1 .. Len(t) : (s \o t)[Len(s) + i] = t[i]
OBVIOUS

\* The bits of groups are a sequence of bits, a group after the other.
LEMMA SentIsBits ==
  ASSUME NEW gs \in Seq(Groups(Mg))
  PROVE  Sent(gs) \in Seq(BOOLEAN) /\ Len(Sent(gs)) = Mg * Len(gs) /\ Mg * Len(gs) \in Nat
<1>. DEFINE n == Mg * Len(gs)
<1>1. n \in Nat
  BY MapSizes
<1>2. \A i \in 1 .. n : (BitOf(Mg, gs, i - 1) = 1) \in BOOLEAN
  OBVIOUS
<1>3. Sent(gs) = [i \in 1 .. n |-> BitOf(Mg, gs, i - 1) = 1]
  BY DEF Sent
<1>. HIDE DEF n
<1>4. Sent(gs) \in [1 .. n -> BOOLEAN]
  BY <1>3, Zenon
<1>5. Sent(gs) \in Seq(BOOLEAN) /\ DOMAIN Sent(gs) = 1 .. n
  BY <1>1, <1>4
<1>6. Len(Sent(gs)) = n
  BY <1>1, <1>5
<1>. QED
  BY <1>1, <1>5, <1>6 DEF n

\* The bits of one sequence of groups after another.
LEMMA SentConcat ==
  ASSUME NEW a \in Seq(Groups(Mg)), NEW b \in Seq(Groups(Mg))
  PROVE  Sent(a \o b) = Sent(a) \o Sent(b)
<1>. DEFINE ab == a \o b
            A == Mg * Len(a)
            B == Mg * Len(b)
            L == Sent(ab)
            R == Sent(a) \o Sent(b)
<1>1. Mg \in Nat \ {0} /\ Len(a) \in Nat /\ Len(b) \in Nat
  BY MapSizes
<1>2. ab \in Seq(Groups(Mg)) /\ Len(ab) = Len(a) + Len(b)
      /\ (\A i \in 1 .. Len(a) : ab[i] = a[i])
      /\ (\A i \in 1 .. Len(b) : ab[Len(a) + i] = b[i])
  BY <1>1, ConcatParts
<1>3. A \in Nat /\ B \in Nat /\ Mg * Len(ab) = A + B
  BY <1>1, <1>2
<1>4. Sent(a) \in Seq(BOOLEAN) /\ Len(Sent(a)) = A /\ Sent(b) \in Seq(BOOLEAN) /\ Len(Sent(b)) = B
      /\ L \in Seq(BOOLEAN) /\ Len(L) = A + B
  BY <1>2, <1>3, SentIsBits
<1>5. R \in Seq(BOOLEAN) /\ Len(R) = A + B
      /\ (\A i \in 1 .. A : R[i] = Sent(a)[i])
      /\ (\A i \in 1 .. B : R[A + i] = Sent(b)[i])
  <2>. DEFINE s == Sent(a)
              u == Sent(b)
  <2>1. s \in Seq(BOOLEAN) /\ u \in Seq(BOOLEAN) /\ Len(s) = A /\ Len(u) = B /\ A \in Nat /\ B \in Nat
    BY <1>3, <1>4
  <2>. HIDE DEF A, B, s, u
  <2>2. s \o u \in Seq(BOOLEAN) /\ Len(s \o u) = A + B
        /\ (\A i \in 1 .. A : (s \o u)[i] = s[i])
        /\ (\A i \in 1 .. B : (s \o u)[A + i] = u[i])
    <3>1. s \o u \in Seq(BOOLEAN) /\ Len(s \o u) = Len(s) + Len(u)
          /\ (\A i \in 1 .. Len(s) : (s \o u)[i] = s[i])
          /\ (\A i \in 1 .. Len(u) : (s \o u)[Len(s) + i] = u[i])
      BY <2>1, BitsJoined
    <3>. QED
      BY <2>1, <3>1
  <2>. QED
    BY <2>2 DEF s, u
<1>6. ASSUME NEW i \in 1 .. A PROVE L[i] = R[i]
  <2>1. i - 1 \in 0 .. Mg * Len(a) - 1 /\ i \in 1 .. Mg * Len(ab) /\ i \in 1 .. Mg * Len(a)
    BY <1>3
  <2>2. (i - 1) \div Mg \in 0 .. Len(a) - 1
    BY <1>1, <2>1, GroupOfBit
  <2>3. (i - 1) \div Mg + 1 \in 1 .. Len(a)
    BY <1>1, <2>2
  <2>4. BitOf(Mg, ab, i - 1) = BitOf(Mg, a, i - 1)
    BY <1>2, <2>3 DEF BitOf
  <2>5. L[i] = (BitOf(Mg, ab, i - 1) = 1)
    BY <2>1 DEF Sent
  <2>6. Sent(a)[i] = (BitOf(Mg, a, i - 1) = 1)
    BY <2>1 DEF Sent
  <2>. QED
    BY <1>5, <2>4, <2>5, <2>6
<1>7. ASSUME NEW j \in 1 .. B PROVE L[A + j] = R[A + j]
  <2>. DEFINE q == (j - 1) \div Mg
              r == (j - 1) % Mg
              i == A + j
  <2>1. j - 1 \in 0 .. Mg * Len(b) - 1 /\ i \in 1 .. Mg * Len(ab) /\ j \in 1 .. Mg * Len(b) /\ j - 1 \in Int
    BY <1>3
  <2>2. q \in 0 .. Len(b) - 1 /\ r \in 0 .. Mg - 1 /\ j - 1 = q * Mg + r
    BY <1>1, <2>1, GroupOfBit, Division
  <2>3. q + 1 \in 1 .. Len(b) /\ q \in Int
    BY <1>1, <2>2
  <2>4. i - 1 = (Len(a) + q) * Mg + r /\ i - 1 \in Int
    <3>1. (Len(a) + q) * Mg = Mg * Len(a) + q * Mg /\ q * Mg \in Int
      BY <1>1, <2>3
    <3>. HIDE DEF q, r
    <3>. QED
      <4>. DEFINE x == Mg * Len(a)
                  y == q * Mg
      <4>1. x \in Int /\ y \in Int /\ A = x /\ (Len(a) + q) * Mg = x + y /\ j - 1 = y + r
        BY <1>1, <1>3, <2>2, <3>1
      <4>2. i = A + j /\ j \in Int
        BY <2>1
      <4>. HIDE DEF x, y, i, A
      <4>. QED
        BY <2>2, <4>1, <4>2
  <2>. HIDE DEF q, r, i
  <2>5. (i - 1) \div Mg = Len(a) + q /\ (i - 1) % Mg = r
    <3>. DEFINE p == Len(a) + q
                k == i - 1
    <3>1. p \in Int /\ k = p * Mg + r /\ k \in Int
      BY <1>1, <2>3, <2>4
    <3>2. Mg \in Nat \ {0} /\ r \in 0 .. Mg - 1
      BY <1>1, <2>2
    <3>. HIDE DEF p, k
    <3>3. k \div Mg = p /\ k % Mg = r
      BY <3>1, <3>2, Quotient
    <3>. QED
      BY <3>3 DEF p, k
  <2>6. ab[Len(a) + q + 1] = b[q + 1]
    <3>1. Len(a) + q + 1 = Len(a) + (q + 1)
      BY <1>1, <2>3
    <3>. QED
      BY <1>2, <2>3, <3>1
  <2>7. BitOf(Mg, ab, i - 1) = BitOf(Mg, b, j - 1)
    BY <2>5, <2>6 DEF BitOf, q, r
  <2>8. L[i] = (BitOf(Mg, ab, i - 1) = 1)
    BY <2>1 DEF Sent
  <2>9. Sent(b)[j] = (BitOf(Mg, b, j - 1) = 1)
    BY <2>1 DEF Sent
  <2>. QED
    BY <1>5, <2>7, <2>8, <2>9 DEF i
<1>8. \A i \in 1 .. A + B : L[i] = R[i]
  <2>1. SUFFICES ASSUME NEW i \in 1 .. A + B PROVE L[i] = R[i]
    OBVIOUS
  <2>2. CASE i \in 1 .. A
    BY <1>6, <2>2
  <2>3. CASE i \notin 1 .. A
    <3>1. i - A \in 1 .. B /\ i = A + (i - A)
      BY <1>3, <2>3
    <3>. HIDE DEF A, B, L, R
    <3>. QED
      BY <1>7, <3>1
  <2>. QED
    BY <2>2, <2>3
<1>. HIDE DEF A, B, L, R
<1>9. L = R
  <2>1. SameBits(L, R, A + B) /\ A + B \in Nat
    BY <1>3, <1>4, <1>5, <1>8 DEF SameBits
  <2>. QED
    BY <1>4, <1>5, <2>1, SameBitsAreSame
<1>. QED
  BY <1>9 DEF L, R

\* The bits of a word are a sequence of bits.
LEMMA WordIsBits ==
  ASSUME NEW x \in Word, NEW n \in Nat
  PROVE  InW(x, n) \in Seq(BOOLEAN) /\ Len(InW(x, n)) = n /\ \A i \in 1 .. n : InW(x, n)[i] = WordBit(x, i)
<1>1. \A i \in 1 .. n : WordBit(x, i) \in BOOLEAN
  BY DEF WordBit
<1>2. InW(x, n) = [i \in 1 .. n |-> WordBit(x, i)]
  BY DEF InW
<1>3. InW(x, n) \in [1 .. n -> BOOLEAN]
  BY <1>1, <1>2, Zenon
<1>4. InW(x, n) \in Seq(BOOLEAN) /\ DOMAIN InW(x, n) = 1 .. n
  BY <1>3
<1>. QED
  BY <1>2, <1>4

\* Shifting the word takes its first bit, whatever follows the word.
LEMMA ShiftTakesHead ==
  ASSUME NEW x \in Word, NEW n \in 1 .. W - 1, x % 2 ^ (W - n) = 0, NEW s \in Seq(BOOLEAN)
  PROVE  /\ InW(x, n) \o s # <<>>
         /\ Head(InW(x, n) \o s) = (x \div 2 ^ (W - 1) = 1)
         /\ Tail(InW(x, n) \o s) = InW((x * 2) % 2 ^ W, n - 1) \o s
<1>. DEFINE y == (x * 2) % 2 ^ W
            u == InW(x, n)
            v == InW(y, n - 1)
            l == u \o s
            r == v \o s
<1>1. y \in Word /\ \A i \in 1 .. W - 1 : WordBit(y, i) <=> WordBit(x, i + 1)
  BY ShiftedWord
<1>2. n \in Nat /\ n - 1 \in Nat /\ n <= W - 1 /\ W \in Nat
  BY MapSizes
<1>. HIDE DEF y
<1>3. u \in Seq(BOOLEAN) /\ Len(u) = n /\ \A i \in 1 .. n : u[i] = WordBit(x, i)
  BY <1>2, WordIsBits
<1>4. v \in Seq(BOOLEAN) /\ Len(v) = n - 1 /\ \A i \in 1 .. n - 1 : v[i] = WordBit(y, i)
  BY <1>1, <1>2, WordIsBits
<1>5. WordBit(x, 1) = (x \div 2 ^ (W - 1) = 1)
  BY TopOfWord DEF WordBit
<1>. HIDE DEF u, v
<1>6. l \in Seq(BOOLEAN) /\ Len(l) = n + Len(s)
      /\ (\A i \in 1 .. n : l[i] = u[i]) /\ (\A i \in 1 .. Len(s) : l[n + i] = s[i])
  <2>1. l \in Seq(BOOLEAN) /\ Len(l) = Len(u) + Len(s)
        /\ (\A i \in 1 .. Len(u) : l[i] = u[i]) /\ (\A i \in 1 .. Len(s) : l[Len(u) + i] = s[i])
    BY <1>3, BitsJoined
  <2>. HIDE DEF l
  <2>. QED
    BY <1>3, <2>1
<1>7. r \in Seq(BOOLEAN) /\ Len(r) = (n - 1) + Len(s)
      /\ (\A i \in 1 .. n - 1 : r[i] = v[i]) /\ (\A i \in 1 .. Len(s) : r[(n - 1) + i] = s[i])
  <2>1. r \in Seq(BOOLEAN) /\ Len(r) = Len(v) + Len(s)
        /\ (\A i \in 1 .. Len(v) : r[i] = v[i]) /\ (\A i \in 1 .. Len(s) : r[Len(v) + i] = s[i])
    BY <1>4, BitsJoined
  <2>. HIDE DEF r
  <2>. QED
    BY <1>4, <2>1
<1>. HIDE DEF l, r
<1>. DEFINE m == (n - 1) + Len(s)
            t == Tail(l)
<1>8. Len(s) \in Nat /\ m \in Nat /\ l # <<>> /\ Head(l) = l[1]
  BY <1>2, <1>6
<1>9. t \in Seq(BOOLEAN) /\ Len(t) = m /\ \A i \in 1 .. m : t[i] = l[i + 1]
  BY <1>2, <1>6, <1>8
<1>10. ASSUME NEW i \in 1 .. m PROVE t[i] = r[i]
  <2>1. CASE i <= n - 1
    <3>1. i \in 1 .. n - 1 /\ i + 1 \in 1 .. n /\ i \in 1 .. W - 1
      BY <1>2, <1>8, <2>1
    <3>2. t[i] = WordBit(x, i + 1)
      BY <1>3, <1>6, <1>9, <3>1
    <3>3. r[i] = WordBit(y, i)
      BY <1>4, <1>7, <3>1
    <3>. QED
      BY <1>1, <3>1, <3>2, <3>3 DEF WordBit
  <2>2. CASE ~(i <= n - 1)
    <3>. DEFINE j == i - (n - 1)
    <3>1. j \in 1 .. Len(s) /\ i + 1 = n + j /\ i = (n - 1) + j
      BY <1>2, <1>8, <2>2
    <3>. HIDE DEF j
    <3>2. t[i] = l[n + j] /\ l[n + j] = s[j] /\ r[(n - 1) + j] = s[j]
      BY <1>6, <1>7, <1>9, <3>1
    <3>. QED
      BY <3>1, <3>2
  <2>. QED
    BY <2>1, <2>2
<1>. HIDE DEF t
<1>11. t = r
  <2>1. SameBits(t, r, m)
    BY <1>7, <1>9, <1>10 DEF SameBits
  <2>. HIDE DEF m
  <2>. QED
    BY <1>7, <1>8, <1>9, <2>1, SameBitsAreSame
<1>12. Head(l) = (x \div 2 ^ (W - 1) = 1)
  <2>1. 1 \in 1 .. n
    BY <1>2
  <2>2. l[1] = WordBit(x, 1)
    BY <1>3, <1>6, <2>1
  <2>. QED
    BY <1>5, <1>8, <2>2
<1>. QED
  BY <1>8, <1>11, <1>12 DEF l, r, u, v, t, y

-----------------------------------------------------------------------------
\* Nothing sent, and nothing in the word.
LEMMA NothingSent == Sent(<<>>) = <<>> /\ \A x : InW(x, 0) = <<>>
<1>1. Mg * Len(<<>>) = 0
  BY MapSizes
<1>2. Sent(<<>>) = [i \in {} |-> BitOf(Mg, <<>>, i - 1) = 1]
  BY <1>1 DEF Sent
<1>3. \A x : InW(x, 0) = [i \in {} |-> WordBit(x, i)]
  BY DEF InW
<1>. QED
  BY <1>2, <1>3

\* Nothing before, and nothing after.
LEMMA NoBitsJoined ==
  ASSUME NEW s \in Seq(BOOLEAN)
  PROVE  s \o <<>> = s /\ <<>> \o s = s
OBVIOUS

\* A word that is loaded with one group has the bits that the group had.
LEMMA LoadedGroup ==
  ASSUME NEW d \in Groups(Mg)
  PROVE  /\ d * 2 ^ (W - Mg) \in Word
         /\ (d * 2 ^ (W - Mg)) % 2 ^ (W - Mg) = 0
         /\ InW(d * 2 ^ (W - Mg), Mg) = Sent(<<d>>)
         /\ Mg \in 1 .. Packed * Mg
<1>1. <<d>> \in Seq(Groups(Mg)) /\ Len(<<d>>) = 1 /\ <<d>>[1] = d
  OBVIOUS
<1>2. Mg \in Nat \ {0} /\ Packed \in Nat \ {0} /\ Mg * 1 = Mg /\ Packed * Mg \in Nat
  BY MapSizes
<1>3. NumberOf(Mg, <<d>>) = d
  <2>. DEFINE gs == <<d>>
  <2>1. gs \in Seq(Groups(Mg)) /\ Len(gs) = 1 /\ gs[1] = d
    BY <1>1
  <2>. HIDE DEF gs
  <2>. DEFINE k == 0
  <2>2. k \in Nat /\ k + 1 <= Len(gs) /\ k <= Len(gs)
    BY <2>1
  <2>3. First(gs, 0) = <<>> /\ First(gs, 0 + 1) = gs
    BY <2>1, SubSeqProperties DEF First
  <2>4. NumberOf(Mg, <<>>) = 0
    BY NumberOfNone DEF NumberOf
  <2>. HIDE DEF k
  <2>5. NumberOf(Mg, First(gs, k + 1)) = NumberOf(Mg, First(gs, k)) * Radix(Mg) + gs[k + 1]
    BY <1>2, <2>1, <2>2, FirstOfMore
  <2>6. k = 0 /\ k + 1 = 1
    BY DEF k
  <2>7. NumberOf(Mg, gs) = 0 * Radix(Mg) + d
    <3>1. First(gs, k) = <<>> /\ First(gs, k + 1) = gs
      BY <2>3 DEF k
    <3>. QED
      BY <2>1, <2>4, <2>5, <2>6, <3>1
  <2>8. Radix(Mg) \in Nat /\ d \in Int
    BY <1>2, RadixIsNat DEF Groups
  <2>. QED
    BY <2>7, <2>8 DEF gs
<1>. DEFINE gs == <<d>>
<1>4. gs \in Seq(Groups(Mg)) /\ Len(gs) <= Packed /\ Len(gs) = 1
  BY <1>1, <1>2
<1>. HIDE DEF gs
<1>. DEFINE n == Mg * Len(gs)
            x == NumberOf(Mg, gs) * 2 ^ (W - n)
<1>5. x \in Word /\ x % 2 ^ (W - n) = 0 /\ InW(x, n) = Sent(gs)
  BY <1>4, WordOfGroups
<1>6. n = Mg
  BY <1>2, <1>4
<1>7. x = d * 2 ^ (W - Mg)
  <2>. HIDE DEF n
  <2>. QED
    BY <1>3, <1>6 DEF gs
<1>8. Mg \in 1 .. Packed * Mg
  <2>1. 1 * Mg <= Packed * Mg /\ 1 * Mg = Mg
    <3>1. 1 <= Packed /\ 1 \in Int /\ 1 * Mg = Mg
      BY <1>2
    <3>. QED
      BY <1>2, <3>1, ScaleUp
  <2>. QED
    BY <1>2, <2>1
<1>. HIDE DEF x, n
<1>. QED
  BY <1>5, <1>6, <1>7, <1>8 DEF gs

-----------------------------------------------------------------------------
(* One map in use.                                                         *)

\* What a map in use has still to return, with the buffers as they are.
View(pm, p) == InW(p.bits, p.n) \o Sent(SubSeq(pm[p.buf], p.extPos + 1, p.extLen))

\* The buffers that a decoder has.
Buffers == [Segments -> Seq(Groups(Mg))]

\* The maps in use, as the Go struct has them.
MapsInUse == [bits : Word, n : 0 .. Packed * Mg, buf : Segments, extLen : Nat, extPos : Nat, seg : Segments]

\* The word is clean, and the groups still to be loaded are in the buffer.
MapFits(pm, p) ==
  /\ p \in MapsInUse
  /\ p.seg = p.buf
  /\ p.extPos <= p.extLen /\ p.extLen <= Len(pm[p.buf])
  /\ p.bits % 2 ^ (W - p.n) = 0

\* What is left of a buffer, and what is left when one group is taken.
LEMMA PartOfBuffer ==
  ASSUME NEW b \in Seq(Groups(Mg)), NEW k \in Nat, NEW l \in Nat, l <= Len(b)
  PROVE  /\ SubSeq(b, k + 1, l) \in Seq(Groups(Mg))
         /\ l <= k => SubSeq(b, k + 1, l) = <<>>
         /\ k < l => /\ SubSeq(b, k + 1, l) = <<b[k + 1]>> \o SubSeq(b, k + 2, l)
                     /\ b[k + 1] \in Groups(Mg)
<1>1. SubSeq(b, k + 1, l) \in Seq(Groups(Mg)) /\ (l <= k => SubSeq(b, k + 1, l) = <<>>)
  <2>1. \A i \in k + 1 .. l : i \in 1 .. Len(b)
    OBVIOUS
  <2>. QED
    BY <2>1, SubSeqProperties
<1>2. ASSUME k < l
      PROVE  SubSeq(b, k + 1, l) = <<b[k + 1]>> \o SubSeq(b, k + 2, l) /\ b[k + 1] \in Groups(Mg)
  <2>. DEFINE S == Groups(Mg)
              i == k + 1
  <2>1. i \in 1 .. Len(b) /\ l \in 1 .. Len(b) /\ i <= l /\ i + 1 = k + 2
    BY <1>2
  <2>. HIDE DEF S, i
  <2>2. b[i] \in S
    BY <2>1 DEF S
  <2>3. SubSeq(b, i, l) = <<b[i]>> \o SubSeq(b, i + 1, l)
    <3>1. b \in Seq(S)
      BY DEF S
    <3>. QED
      BY <2>1, <3>1, SubSeqRecursiveFirst
  <2>. QED
    BY <2>1, <2>2, <2>3 DEF i, S
<1>. QED
  BY <1>1, <1>2

\* What a map has still to return are bits.
LEMMA ViewIsBits ==
  ASSUME NEW pm \in Buffers, NEW p, MapFits(pm, p)
  PROVE  /\ View(pm, p) \in Seq(BOOLEAN)
         /\ SubSeq(pm[p.buf], p.extPos + 1, p.extLen) \in Seq(Groups(Mg))
         /\ pm[p.buf] \in Seq(Groups(Mg))
<1>1. /\ p \in MapsInUse /\ p.extLen <= Len(pm[p.buf])
      /\ pm[p.buf] \in Seq(Groups(Mg)) /\ p.bits \in Word /\ p.n \in 0 .. Packed * Mg
      /\ p.extPos \in Nat /\ p.extLen \in Nat
  BY DEF MapFits, MapsInUse, Buffers
<1>. DEFINE b == pm[p.buf]
            k == p.extPos
            l == p.extLen
            gs == SubSeq(b, k + 1, l)
<1>. HIDE DEF b, k, l
<1>2. gs \in Seq(Groups(Mg))
  <2>1. b \in Seq(Groups(Mg)) /\ k \in Nat /\ l \in Nat /\ l <= Len(b)
    BY <1>1 DEF b, k, l
  <2>. QED
    BY <2>1, PartOfBuffer
<1>. DEFINE s == Sent(gs)
            x == p.bits
            n == p.n
<1>3. x \in Word /\ n \in Nat
  <2>1. Packed * Mg \in Nat
    BY MapSizes
  <2>. QED
    BY <1>1, <2>1
<1>. HIDE DEF x, n, gs
<1>4. s \in Seq(BOOLEAN)
  BY <1>2, SentIsBits
<1>5. InW(x, n) \in Seq(BOOLEAN)
  BY <1>3, WordIsBits
<1>. DEFINE u == InW(x, n)
<1>. HIDE DEF s, u
<1>6. u \o s \in Seq(BOOLEAN)
  BY <1>4, <1>5, BitsJoined DEF u
<1>. QED
  BY <1>1, <1>2, <1>6 DEF View, u, s, gs, x, n, b, k, l

\* An exhausted map has nothing to return.
LEMMA ExhaustedView ==
  ASSUME NEW pm \in Buffers, NEW p, MapFits(pm, p), p.n = 0, p.extPos >= p.extLen
  PROVE  View(pm, p) = <<>>
<1>1. /\ p.extLen <= Len(pm[p.buf]) /\ pm[p.buf] \in Seq(Groups(Mg))
      /\ p.extPos \in Nat /\ p.extLen \in Nat /\ p.extLen <= p.extPos
  BY DEF MapFits, MapsInUse, Buffers
<1>2. SubSeq(pm[p.buf], p.extPos + 1, p.extLen) = <<>>
  BY <1>1, PartOfBuffer
<1>3. InW(p.bits, p.n) = <<>> /\ Sent(<<>>) = <<>>
  BY NothingSent
<1>4. <<>> \o <<>> = <<>>
  OBVIOUS
<1>. QED
  BY <1>2, <1>3, <1>4 DEF View

\* What Next makes of a drained word that has groups left.
Refilled(pm, p) ==
  [p EXCEPT !.bits = pm[p.buf][p.extPos + 1] * 2 ^ (W - Mg), !.extPos = @ + 1, !.n = Mg]

\* That does not change what the map has still to return.
LEMMA RefilledView ==
  ASSUME NEW pm \in Buffers, NEW p, MapFits(pm, p), p.n = 0, p.extPos < p.extLen
  PROVE  /\ MapFits(pm, Refilled(pm, p))
         /\ Refilled(pm, p).n > 0
         /\ View(pm, Refilled(pm, p)) = View(pm, p)
<1>1. /\ p \in MapsInUse /\ p.seg = p.buf /\ p.extLen <= Len(pm[p.buf]) /\ pm[p.buf] \in Seq(Groups(Mg))
      /\ p.extPos \in Nat /\ p.extLen \in Nat /\ p.extPos < p.extLen
  BY DEF MapFits, MapsInUse, Buffers
<1>. DEFINE b == pm[p.buf]
            k == p.extPos
            l == p.extLen
            d == b[k + 1]
            rest == SubSeq(b, k + 2, l)
            x == d * 2 ^ (W - Mg)
            q == Refilled(pm, p)
<1>2. SubSeq(b, k + 1, l) = <<d>> \o rest /\ d \in Groups(Mg)
  <2>. HIDE DEF b, k, l
  <2>1. b \in Seq(Groups(Mg)) /\ k \in Nat /\ l \in Nat /\ l <= Len(b) /\ k < l
    BY <1>1 DEF b, k, l
  <2>. QED
    BY <2>1, PartOfBuffer
<1>3. rest \in Seq(Groups(Mg))
  <2>. DEFINE j == k + 1
  <2>. HIDE DEF b, k, l
  <2>1. b \in Seq(Groups(Mg)) /\ j \in Nat /\ l \in Nat /\ l <= Len(b) /\ j + 1 = k + 2
    BY <1>1 DEF b, k, l
  <2>. HIDE DEF j
  <2>2. SubSeq(b, j + 1, l) \in Seq(Groups(Mg))
    BY <2>1, PartOfBuffer
  <2>. QED
    BY <2>1, <2>2
<1>4. x \in Word /\ x % 2 ^ (W - Mg) = 0 /\ InW(x, Mg) = Sent(<<d>>) /\ Mg \in 1 .. Packed * Mg
  <2>. HIDE DEF d
  <2>. QED
    BY <1>2, LoadedGroup
<1>. HIDE DEF d, x
<1>5. q = [p EXCEPT !.bits = x, !.extPos = k + 1, !.n = Mg]
  BY DEF Refilled, x, d
<1>. HIDE DEF q
<1>6. Mg \in 0 .. Packed * Mg /\ Mg > 0 /\ Packed * Mg \in Nat
  <2>1. Mg \in Nat \ {0} /\ Packed * Mg \in Nat
    BY MapSizes
  <2>. QED
    BY <1>4, <2>1
<1>7. q \in MapsInUse /\ q.bits = x /\ q.n = Mg /\ q.buf = p.buf /\ q.seg = p.seg
      /\ q.extPos = k + 1 /\ q.extLen = l
  <2>. DEFINE j == k + 1
  <2>1. j \in Nat /\ q = [p EXCEPT !.bits = x, !.extPos = j, !.n = Mg]
    BY <1>1, <1>5
  <2>. HIDE DEF j
  <2>2. /\ q \in MapsInUse /\ q.bits = x /\ q.n = Mg /\ q.buf = p.buf /\ q.seg = p.seg
        /\ q.extPos = j /\ q.extLen = p.extLen
    BY <1>1, <1>4, <1>6, <2>1 DEF MapsInUse
  <2>. QED
    BY <2>2 DEF j
<1>8. MapFits(pm, q)
  BY <1>1, <1>4, <1>7 DEF MapFits
<1>9. View(pm, q) = Sent(<<d>>) \o Sent(rest)
  <2>1. SubSeq(b, (k + 1) + 1, l) = rest
    <3>1. (k + 1) + 1 = k + 2
      BY <1>1
    <3>. HIDE DEF b, k, l
    <3>. QED
      BY <3>1
  <2>. QED
    BY <1>4, <1>7, <2>1 DEF View
<1>10. View(pm, p) = Sent(<<d>> \o rest)
  <2>. DEFINE s == Sent(<<d>> \o rest)
  <2>1. <<d>> \o rest \in Seq(Groups(Mg))
    <3>1. <<d>> \in Seq(Groups(Mg))
      BY <1>2
    <3>. HIDE DEF rest
    <3>. QED
      BY <1>3, <3>1
  <2>2. s \in Seq(BOOLEAN)
    <3>. DEFINE gs == <<d>> \o rest
    <3>. HIDE DEF gs
    <3>. QED
      BY <2>1, SentIsBits DEF gs
  <2>3. InW(p.bits, p.n) = <<>>
    BY NothingSent
  <2>4. View(pm, p) = <<>> \o s
    BY <1>2, <2>3 DEF View
  <2>. HIDE DEF s
  <2>5. <<>> \o s = s
    BY <2>2, NoBitsJoined
  <2>. QED
    BY <2>4, <2>5 DEF s
<1>11. Sent(<<d>> \o rest) = Sent(<<d>>) \o Sent(rest)
  <2>. DEFINE c == <<d>>
  <2>1. c \in Seq(Groups(Mg))
    BY <1>2
  <2>. HIDE DEF c, rest
  <2>2. Sent(c \o rest) = Sent(c) \o Sent(rest)
    BY <1>3, <2>1, SentConcat
  <2>. QED
    BY <2>2 DEF c
<1>. QED
  BY <1>6, <1>7, <1>8, <1>9, <1>10, <1>11 DEF q

\* What Next makes of a word with bits in it.
Advanced(p) == [p EXCEPT !.bits = (@ * 2) % 2 ^ W, !.n = @ - 1]

\* That takes the first of what the map has still to return.
LEMMA ShiftedView ==
  ASSUME NEW pm \in Buffers, NEW p, MapFits(pm, p), p.n > 0
  PROVE  /\ MapFits(pm, Advanced(p))
         /\ View(pm, p) # <<>>
         /\ Head(View(pm, p)) = (p.bits \div 2 ^ (W - 1) = 1)
         /\ Tail(View(pm, p)) = View(pm, Advanced(p))
<1>. DEFINE x == p.bits
            n == p.n
            y == (x * 2) % 2 ^ W
            q == [p EXCEPT !.bits = y, !.n = n - 1]
            gs == SubSeq(pm[p.buf], p.extPos + 1, p.extLen)
            s == Sent(gs)
<1>1. p \in MapsInUse /\ p.seg = p.buf /\ p.extPos <= p.extLen /\ p.extLen <= Len(pm[p.buf])
      /\ x % 2 ^ (W - n) = 0
  BY DEF MapFits
<1>2. x \in Word /\ n \in 1 .. W - 1 /\ n - 1 \in 0 .. Packed * Mg
  <2>1. p.n \in 0 .. Packed * Mg /\ p.bits \in Word
    BY <1>1 DEF MapsInUse
  <2>2. W = Packed * Mg + 1 /\ Packed * Mg \in Nat
    BY MapSizes
  <2>. QED
    BY <2>1, <2>2
<1>3. s \in Seq(BOOLEAN)
  <2>1. gs \in Seq(Groups(Mg))
    BY ViewIsBits
  <2>. HIDE DEF gs
  <2>. QED
    BY <2>1, SentIsBits
<1>. HIDE DEF x, n
<1>4. y \in Word /\ y % 2 ^ (W - (n - 1)) = 0
  BY <1>1, <1>2, ShiftedWord
<1>. HIDE DEF s
<1>5. /\ InW(x, n) \o s # <<>>
      /\ Head(InW(x, n) \o s) = (x \div 2 ^ (W - 1) = 1)
      /\ Tail(InW(x, n) \o s) = InW(y, n - 1) \o s
  BY <1>1, <1>2, <1>3, ShiftTakesHead
<1>. HIDE DEF y
<1>6. q \in MapsInUse /\ q.bits = y /\ q.n = n - 1 /\ q.buf = p.buf /\ q.seg = p.seg
      /\ q.extPos = p.extPos /\ q.extLen = p.extLen
  BY <1>1, <1>2, <1>4 DEF MapsInUse
<1>7. q = Advanced(p)
  BY DEF Advanced, x, y, n
<1>. HIDE DEF q
<1>8. MapFits(pm, q)
  BY <1>1, <1>4, <1>6 DEF MapFits
<1>9. View(pm, p) = InW(x, n) \o s
  BY DEF View, x, n, s
<1>10. View(pm, q) = InW(y, n - 1) \o s
  BY <1>6 DEF View, s
<1>. QED
  BY <1>5, <1>7, <1>8, <1>9, <1>10 DEF x

\* The groups of a map that the word takes.
FirstGroups(gs) == SubSeq(gs, 1, Map!Least(Len(gs), Packed))

\* A map is what the word takes and what is spilled.
LEMMA FirstAndSpilled ==
  ASSUME NEW gs \in Seq(Groups(Mg))
  PROVE  /\ FirstGroups(gs) \in Seq(Groups(Mg)) /\ Len(FirstGroups(gs)) <= Packed
         /\ Map!Spilled(gs) \in Seq(Groups(Mg))
         /\ gs = FirstGroups(gs) \o Map!Spilled(gs)
<1>. DEFINE n == Len(gs)
            k == Map!Least(n, Packed)
            S == Groups(Mg)
<1>1. n \in Nat /\ Packed \in Nat \ {0}
  BY MapSizes
<1>2. k \in 0 .. n /\ k <= Packed /\ (k = Packed \/ (k = n /\ n <= Packed))
  <2>. HIDE DEF n
  <2>. QED
    BY <1>1 DEF Map!Least
<1>. HIDE DEF k, S
<1>3. \A i \in 1 .. n : gs[i] \in S
  BY DEF S
<1>4. FirstGroups(gs) \in Seq(S) /\ Len(FirstGroups(gs)) = k
  <2>1. \A i \in 1 .. k : gs[i] \in S
    BY <1>1, <1>2, <1>3
  <2>2. SubSeq(gs, 1, k) \in Seq(S) /\ Len(SubSeq(gs, 1, k)) = IF 1 <= k THEN k - 1 + 1 ELSE 0
    <3>. HIDE DEF n
    <3>. DEFINE one == 1
    <3>1. one \in Int /\ k \in Int /\ \A i \in one .. k : gs[i] \in S
      BY <1>1, <1>2, <2>1
    <3>. HIDE DEF one
    <3>2. SubSeq(gs, one, k) \in Seq(S) /\ Len(SubSeq(gs, one, k)) = IF one <= k THEN k - one + 1 ELSE 0
      BY <3>1, SubSeqProperties
    <3>. QED
      BY <3>2 DEF one
  <2>3. FirstGroups(gs) = SubSeq(gs, 1, k)
    BY DEF FirstGroups, k
  <2>. HIDE DEF n
  <2>. QED
    BY <1>1, <1>2, <2>2, <2>3
<1>5. Map!Spilled(gs) = SubSeq(gs, k + 1, n) /\ Map!Spilled(gs) \in Seq(S)
  <2>1. \A i \in k + 1 .. n : gs[i] \in S
    BY <1>1, <1>2, <1>3
  <2>2. SubSeq(gs, k + 1, n) \in Seq(S)
    <3>. HIDE DEF n
    <3>. DEFINE j == k + 1
    <3>1. j \in Int /\ n \in Int /\ \A i \in j .. n : gs[i] \in S
      BY <1>1, <1>2, <2>1
    <3>. HIDE DEF j
    <3>2. SubSeq(gs, j, n) \in Seq(S)
      BY <3>1, SubSeqProperties
    <3>. QED
      BY <3>2 DEF j
  <2>3. CASE k = Packed
    BY <2>2, <2>3 DEF Map!Spilled
  <2>4. CASE k = n /\ n <= Packed
    <3>1. SubSeq(gs, k + 1, n) = <<>>
      BY <1>1, <2>4
    <3>2. SubSeq(gs, Packed + 1, n) = <<>>
      BY <1>1, <2>4
    <3>. QED
      BY <2>2, <3>1, <3>2 DEF Map!Spilled
  <2>. QED
    BY <1>2, <2>3, <2>4
<1>6. gs = FirstGroups(gs) \o Map!Spilled(gs)
  <2>1. FirstGroups(gs) = SubSeq(gs, 1, k)
    BY DEF FirstGroups, k
  <2>2. SubSeq(gs, 1, k) \o SubSeq(gs, k + 1, n) = SubSeq(gs, 1, n)
    <3>. DEFINE m == 1
    <3>1. m \in 1 .. n + 1 /\ k \in m - 1 .. n /\ n \in k .. n
      BY <1>1, <1>2
    <3>2. gs \in Seq(S)
      BY DEF S
    <3>. HIDE DEF m
    <3>3. SubSeq(gs, m, k) \o SubSeq(gs, k + 1, n) = SubSeq(gs, m, n)
      BY <3>1, <3>2, ConcatAdjacentSubSeq
    <3>. QED
      BY <3>3 DEF m
  <2>3. SubSeq(gs, 1, n) = gs
    BY SubSeqFull
  <2>. QED
    BY <1>5, <2>1, <2>2, <2>3
<1>. QED
  BY <1>1, <1>2, <1>4, <1>5, <1>6 DEF S

\* What is written over the start of a buffer is what it then starts with.
LEMMA OverwrittenBuffer ==
  ASSUME NEW b \in Seq(Groups(Mg)), NEW gs \in Seq(Groups(Mg))
  PROVE  /\ Map!Overwritten(b, gs) \in Seq(Groups(Mg))
         /\ Len(Map!Spilled(gs)) <= Len(Map!Overwritten(b, gs))
         /\ SubSeq(Map!Overwritten(b, gs), 1, Len(Map!Spilled(gs))) = Map!Spilled(gs)
<1>. DEFINE S == Groups(Mg)
            s == Map!Spilled(gs)
            r == SubSeq(b, Len(s) + 1, Len(b))
            o == s \o r
<1>1. s \in Seq(S)
  BY FirstAndSpilled
<1>. HIDE DEF s
<1>2. r \in Seq(S)
  BY <1>1
<1>3. o = Map!Overwritten(b, gs)
  BY DEF Map!Overwritten, s
<1>. HIDE DEF S, r
<1>4. o \in Seq(S) /\ Len(o) = Len(s) + Len(r) /\ \A i \in 1 .. Len(s) : o[i] = s[i]
  BY <1>1, <1>2, ConcatParts
<1>. HIDE DEF o
<1>5. Len(s) \in Nat /\ Len(r) \in Nat /\ Len(s) <= Len(o)
  BY <1>1, <1>2, <1>4
<1>6. SubSeq(o, 1, Len(s)) = s
  BY <1>1, <1>4, <1>5
<1>. QED
  BY <1>3, <1>4, <1>5, <1>6 DEF S, s

\* A map that is opened has the bits that were sent to return.
LEMMA OpenedView ==
  ASSUME NEW pm \in Buffers, NEW seg \in Segments, NEW gs \in Maps
  PROVE  LET pn == [pm EXCEPT ![seg] = Map!Overwritten(@, gs)]
             p  == Map!PMAP(seg, gs)
         IN  /\ pn \in Buffers
             /\ MapFits(pn, p) /\ p.seg = seg
             /\ View(pn, p) = Sent(gs)
<1>. DEFINE o == Map!Overwritten(pm[seg], gs)
            pn == [pm EXCEPT ![seg] = o]
            p == Map!PMAP(seg, gs)
            f == FirstGroups(gs)
            s == Map!Spilled(gs)
            n == Mg * Len(f)
            x == NumberOf(Mg, f) * 2 ^ (W - n)
<1>1. gs \in Seq(Groups(Mg)) /\ pm[seg] \in Seq(Groups(Mg))
  BY MapSizes DEF Buffers
<1>2. f \in Seq(Groups(Mg)) /\ Len(f) <= Packed /\ s \in Seq(Groups(Mg)) /\ gs = f \o s
  BY <1>1, FirstAndSpilled
<1>3. o \in Seq(Groups(Mg)) /\ Len(s) <= Len(o) /\ SubSeq(o, 1, Len(s)) = s
  <2>. DEFINE b == pm[seg]
  <2>. HIDE DEF b
  <2>. QED
    BY <1>1, OverwrittenBuffer DEF b
<1>. HIDE DEF o
<1>4. pn \in Buffers /\ pn[seg] = o
  BY <1>3 DEF Buffers
<1>5. Map!Word(gs) = [bits |-> x, n |-> n]
  <2>1. Map!Word(gs) = PackFold(f)
    BY DEF Map!Word, PackFold, FirstGroups
  <2>. HIDE DEF f
  <2>. QED
    BY <1>2, <2>1, PackIsNumber
<1>6. n \in 0 .. Packed * Mg /\ x \in Word /\ x % 2 ^ (W - n) = 0 /\ InW(x, n) = Sent(f)
  <2>. HIDE DEF f
  <2>. QED
    BY <1>2, WordOfGroups
<1>. HIDE DEF f, s, n, x
<1>7. p = [bits |-> x, n |-> n, buf |-> seg, extLen |-> Len(s), extPos |-> 0, seg |-> seg]
  BY <1>5 DEF Map!PMAP, Map!Buf, s
<1>. HIDE DEF p, pn
<1>8. Len(s) \in Nat /\ 0 <= Len(s) /\ 0 \in Nat
  BY <1>2
<1>9. MapFits(pn, p)
  BY <1>3, <1>4, <1>6, <1>7, <1>8 DEF MapFits, MapsInUse
<1>10. View(pn, p) = InW(x, n) \o Sent(SubSeq(o, 0 + 1, Len(s)))
  BY <1>4, <1>7 DEF View
<1>11. SubSeq(o, 0 + 1, Len(s)) = s
  <2>1. 0 + 1 = 1
    OBVIOUS
  <2>. QED
    BY <1>3, <2>1
<1>12. Sent(f \o s) = Sent(f) \o Sent(s)
  BY <1>2, SentConcat
<1>. QED
  <2>1. View(pn, p) = Sent(gs)
    BY <1>2, <1>6, <1>10, <1>11, <1>12
  <2>2. p.seg = seg
    BY <1>7
  <2>3. pn = [pm EXCEPT ![seg] = Map!Overwritten(@, gs)]
    BY DEF pn, o
  <2>4. p = Map!PMAP(seg, gs)
    BY DEF p
  <2>. QED
    BY <1>4, <1>9, <2>1, <2>2, <2>3, <2>4

-----------------------------------------------------------------------------
(* All the maps in use.                                                    *)

\* The maps in use, with the buffers that they load from.
Fit(pm, o) ==
  /\ o \in Seq(MapsInUse)
  /\ \A i \in 1 .. Len(o) : MapFits(pm, o[i])
  /\ \A i, j \in 1 .. Len(o) : o[i].seg = o[j].seg => i = j

\* What each of the maps has still to return.
Views(pm, o) == [i \in 1 .. Len(o) |-> View(pm, o[i])]

\* These are sequences of bits.
LEMMA ViewsAreBits ==
  ASSUME NEW pm \in Buffers, NEW o, Fit(pm, o)
  PROVE  /\ Views(pm, o) \in Seq(Seq(BOOLEAN)) /\ Len(Views(pm, o)) = Len(o) /\ Len(o) \in Nat
         /\ \A i \in 1 .. Len(o) : Views(pm, o)[i] = View(pm, o[i])
<1>1. o \in Seq(MapsInUse) /\ Len(o) \in Nat
  BY DEF Fit
<1>2. \A i \in 1 .. Len(o) : View(pm, o[i]) \in Seq(BOOLEAN)
  BY ViewIsBits DEF Fit
<1>. DEFINE n == Len(o)
            V == Views(pm, o)
            S == Seq(BOOLEAN)
<1>3. V = [i \in 1 .. n |-> View(pm, o[i])]
  BY DEF Views
<1>. HIDE DEF V, n, S
<1>4. V \in [1 .. n -> S]
  BY <1>2, <1>3, Zenon DEF n, S
<1>5. V \in Seq(S) /\ Len(V) = n
  BY <1>1, <1>4 DEF n
<1>. QED
  BY <1>1, <1>3, <1>5 DEF V, n, S

\* A map more, in a buffer that none of the others uses.
LEMMA ViewsOfMore ==
  ASSUME NEW pm \in Buffers, NEW o, Fit(pm, o), NEW pn \in Buffers, NEW p, MapFits(pn, p),
         \A i \in 1 .. Len(o) : o[i].seg # p.seg,
         \A s \in Segments : s # p.seg => pn[s] = pm[s]
  PROVE  /\ Fit(pn, Append(o, p))
         /\ Views(pn, Append(o, p)) = Append(Views(pm, o), View(pn, p))
<1>. DEFINE a == Append(o, p)
            n == Len(o)
<1>1. o \in Seq(MapsInUse) /\ p \in MapsInUse /\ n \in Nat
  BY DEF Fit, MapFits
<1>2. a \in Seq(MapsInUse) /\ Len(a) = n + 1 /\ a[n + 1] = p /\ \A i \in 1 .. n : a[i] = o[i]
  BY <1>1
<1>. HIDE DEF a
<1>3. ASSUME NEW i \in 1 .. n
      PROVE  pn[o[i].buf] = pm[o[i].buf] /\ MapFits(pm, o[i]) /\ o[i].seg # p.seg
  <2>1. MapFits(pm, o[i]) /\ o[i].seg # p.seg
    BY DEF Fit
  <2>2. o[i].seg = o[i].buf /\ o[i].buf \in Segments
    BY <2>1 DEF MapFits, MapsInUse
  <2>. QED
    BY <2>1, <2>2
<1>4. ASSUME NEW i \in 1 .. n PROVE MapFits(pn, o[i]) /\ View(pn, o[i]) = View(pm, o[i])
  BY <1>3 DEF MapFits, View
<1>5. \A i \in 1 .. n + 1 : i \in 1 .. n \/ i = n + 1
  BY <1>1
<1>6. \A i \in 1 .. Len(a) : MapFits(pn, a[i])
  BY <1>2, <1>4, <1>5
<1>7. ASSUME NEW i \in 1 .. n + 1, NEW j \in 1 .. n + 1, a[i].seg = a[j].seg PROVE i = j
  <2>1. CASE i \in 1 .. n /\ j \in 1 .. n
    BY <1>2, <1>7, <2>1 DEF Fit
  <2>2. CASE i = n + 1 \/ j = n + 1
    BY <1>2, <1>3, <1>5, <1>7, <2>2
  <2>. QED
    BY <1>5, <2>1, <2>2
<1>8. Fit(pn, a)
  BY <1>2, <1>6, <1>7 DEF Fit
<1>. DEFINE V == Views(pm, o)
            v == View(pn, p)
            b == Append(V, v)
<1>9. V \in Seq(Seq(BOOLEAN)) /\ Len(V) = n /\ \A i \in 1 .. n : V[i] = View(pm, o[i])
  BY ViewsAreBits
<1>10. v \in Seq(BOOLEAN)
  BY ViewIsBits
<1>. HIDE DEF V, v
<1>11. b \in Seq(Seq(BOOLEAN)) /\ Len(b) = n + 1 /\ b[n + 1] = v /\ \A i \in 1 .. n : b[i] = V[i]
  BY <1>9, <1>10
<1>. HIDE DEF b
<1>12. \A i \in 1 .. n + 1 : b[i] = View(pn, a[i])
  BY <1>2, <1>4, <1>5, <1>9, <1>11 DEF v
<1>13. b = [i \in 1 .. n + 1 |-> b[i]]
  BY <1>1, <1>11
<1>14. b = [i \in 1 .. n + 1 |-> View(pn, a[i])]
  <2>. HIDE DEF n
  <2>. QED
    BY <1>12, <1>13, Zenon
<1>. QED
  BY <1>2, <1>8, <1>14 DEF Views, a, b, V, v

\* The innermost map goes on.
LEMMA ViewsOfInnermost ==
  ASSUME NEW pm \in Buffers, NEW o, Fit(pm, o), o # <<>>, NEW q, MapFits(pm, q),
         q.seg = o[Len(o)].seg
  PROVE  /\ Fit(pm, [o EXCEPT ![Len(o)] = q])
         /\ Views(pm, [o EXCEPT ![Len(o)] = q]) = [Views(pm, o) EXCEPT ![Len(o)] = View(pm, q)]
<1>. DEFINE n == Len(o)
            a == [o EXCEPT ![n] = q]
<1>1. o \in Seq(MapsInUse) /\ q \in MapsInUse /\ n \in Nat /\ n \in 1 .. n
  BY DEF Fit, MapFits
<1>2. a \in Seq(MapsInUse) /\ Len(a) = n /\ a[n] = q /\ \A i \in 1 .. n : i # n => a[i] = o[i]
  BY <1>1
<1>. HIDE DEF a
<1>3. \A i \in 1 .. n : MapFits(pm, a[i]) /\ a[i].seg = o[i].seg
  BY <1>1, <1>2 DEF Fit
<1>4. Fit(pm, a)
  BY <1>2, <1>3 DEF Fit
<1>5. Views(pm, o) = [i \in 1 .. n |-> View(pm, o[i])]
  BY DEF Views
<1>6. Views(pm, a) = [i \in 1 .. n |-> View(pm, a[i])]
  BY <1>2 DEF Views
<1>. HIDE DEF n
<1>7. Views(pm, a) = [Views(pm, o) EXCEPT ![n] = View(pm, q)]
  <2>. DEFINE V == Views(pm, o)
              r == [V EXCEPT ![n] = View(pm, q)]
  <2>1. V = [i \in 1 .. n |-> V[i]] /\ \A i \in 1 .. n : V[i] = View(pm, o[i])
    BY <1>5
  <2>. HIDE DEF V
  <2>2. r = [i \in 1 .. n |-> r[i]] /\ r[n] = View(pm, q)
        /\ \A i \in 1 .. n : i # n => r[i] = View(pm, o[i])
    BY <1>1, <2>1
  <2>. HIDE DEF r
  <2>3. \A i \in 1 .. n : r[i] = View(pm, a[i])
    BY <1>2, <2>2
  <2>4. r = [i \in 1 .. n |-> View(pm, a[i])]
    BY <2>2, <2>3, Zenon
  <2>. QED
    BY <1>6, <2>4 DEF r, V
<1>. QED
  BY <1>4, <1>7 DEF a, n

\* The innermost map is left.
LEMMA ViewsOfOuter ==
  ASSUME NEW pm \in Buffers, NEW o, Fit(pm, o), o # <<>>
  PROVE  /\ Fit(pm, SubSeq(o, 1, Len(o) - 1))
         /\ Views(pm, SubSeq(o, 1, Len(o) - 1)) = SubSeq(Views(pm, o), 1, Len(o) - 1)
<1>. DEFINE n == Len(o)
            m == n - 1
            a == SubSeq(o, 1, m)
            V == Views(pm, o)
            b == SubSeq(V, 1, m)
<1>1. o \in Seq(MapsInUse) /\ n \in Nat /\ n \in 1 .. n /\ m \in Nat /\ m < n
  BY DEF Fit
<1>2. V \in Seq(Seq(BOOLEAN)) /\ Len(V) = n /\ \A i \in 1 .. n : V[i] = View(pm, o[i])
  BY ViewsAreBits
<1>. HIDE DEF V, m
<1>3. a \in Seq(MapsInUse) /\ Len(a) = m /\ \A i \in 1 .. m : a[i] = o[i]
  BY <1>1
<1>4. b \in Seq(Seq(BOOLEAN)) /\ Len(b) = m /\ \A i \in 1 .. m : b[i] = V[i]
  BY <1>1, <1>2
<1>. HIDE DEF a, b
<1>5. \A i \in 1 .. m : i \in 1 .. n
  BY <1>1
<1>6. Fit(pm, a)
  BY <1>3, <1>5 DEF Fit
<1>7. b = [i \in 1 .. m |-> b[i]]
  BY <1>1, <1>4
<1>8. \A i \in 1 .. m : b[i] = View(pm, a[i])
  BY <1>2, <1>3, <1>4, <1>5
<1>9. b = [i \in 1 .. m |-> View(pm, a[i])]
  BY <1>7, <1>8, Zenon
<1>. QED
  BY <1>3, <1>6, <1>9 DEF Views, a, b, V, m

-----------------------------------------------------------------------------
(* The steps of PresenceMap are steps of BitSequence.                      *)

\* The buffers and the maps in use fit each other.
MapSoFar == pmap \in Buffers /\ bit \in BOOLEAN /\ Fit(pmap, open)

\* That is what PresenceMap takes for the state of BitSequence.
LEMMA UnreadIsViews ==
  ASSUME MapSoFar
  PROVE  Map!Unread = Views(pmap, open)
<1>1. open \in Seq(MapsInUse) /\ DOMAIN open = 1 .. Len(open)
  BY DEF MapSoFar, Fit
<1>2. ASSUME NEW i \in 1 .. Len(open)
      PROVE  Map!InWord(open[i]) \o Map!Sequence!BitsSent(Map!InBuffer(open[i])) = View(pmap, open[i])
  <2>. DEFINE p == open[i]
              gs == SubSeq(pmap[p.buf], p.extPos + 1, p.extLen)
  <2>1. gs \in Seq(Groups(Mg))
    <3>1. MapFits(pmap, p) /\ pmap \in Buffers
      BY DEF MapSoFar, Fit
    <3>. HIDE DEF p
    <3>. QED
      BY <3>1, ViewIsBits
  <2>2. Map!InBuffer(p) = gs
    BY DEF Map!InBuffer
  <2>3. Map!InWord(p) = InW(p.bits, p.n)
    BY DEF Map!InWord, InW, WordBit, W
  <2>. HIDE DEF gs, p
  <2>4. Map!Sequence!BitsSent(gs) = Sent(gs)
    BY <2>1, SentIsSent
  <2>. QED
    BY <2>2, <2>3, <2>4 DEF View, gs, p
<1>. QED
  BY <1>1, <1>2 DEF Map!Unread, Views

\* Both start with no map in use.
LEMMA MapStarts ==
  ASSUME Map!Init
  PROVE  MapSoFar /\ Views(pmap, open) = <<>> /\ bit = FALSE
<1>1. pmap \in Buffers /\ open = <<>> /\ bit = FALSE
  BY DEF Map!Init, Buffers
<1>2. open \in Seq(MapsInUse) /\ Len(open) = 0
  BY <1>1
<1>3. Fit(pmap, open)
  BY <1>2 DEF Fit
<1>4. Views(pmap, open) = <<>>
  BY <1>2 DEF Views
<1>. QED
  BY <1>1, <1>3, <1>4 DEF MapSoFar

\* What a step of the sequence of bits does, on given sequences.
ReadsBit(u, b, v, c) ==
  /\ u # <<>>
  /\ c = (u[Len(u)] # <<>> /\ Head(u[Len(u)]))
  /\ v = [u EXCEPT ![Len(u)] = IF @ = <<>> THEN <<>> ELSE Tail(@)]

\* A map with nothing left is read without a change.
LEMMA NothingRead ==
  ASSUME NEW u \in Seq(Seq(BOOLEAN)), u # <<>>, u[Len(u)] = <<>>, NEW b
  PROVE  ReadsBit(u, b, u, FALSE)
<1>1. Len(u) \in 1 .. Len(u)
  OBVIOUS
<1>. DEFINE n == Len(u)
            v == [u EXCEPT ![n] = <<>>]
<1>2. DOMAIN v = DOMAIN u /\ \A i \in DOMAIN u : v[i] = u[i]
  BY <1>1
<1>3. v = u
  <2>1. u = [i \in DOMAIN u |-> u[i]]
    <3>1. u \in [1 .. n -> Seq(BOOLEAN)]
      OBVIOUS
    <3>. HIDE DEF n
    <3>. QED
      BY <3>1
  <2>2. v = [i \in DOMAIN v |-> v[i]]
    <3>1. v = [i \in DOMAIN u |-> IF i = n THEN <<>> ELSE u[i]]
      BY <2>1
    <3>. HIDE DEF v
    <3>. QED
      BY <3>1
  <2>. HIDE DEF v
  <2>. QED
    BY <1>2, <2>1, <2>2, Zenon
<1>4. [u EXCEPT ![n] = IF @ = <<>> THEN <<>> ELSE Tail(@)] = v
  OBVIOUS
<1>. HIDE DEF v
<1>. QED
  BY <1>3, <1>4 DEF ReadsBit

\* NextBit reads a bit: one of the word, after filling it if it is drained.
LEMMA NextBitIsRead ==
  ASSUME MapSoFar, Map!NextBit
  PROVE  MapSoFar' /\ ReadsBit(Views(pmap, open), bit, Views(pmap', open'), bit')
<1>. DEFINE n == Len(open)
            p == open[n]
            before == Views(pmap, open)
            u == View(pmap, p)
<1>1. pmap \in Buffers /\ bit \in BOOLEAN /\ Fit(pmap, open) /\ open # <<>> /\ pmap' = pmap
  BY DEF MapSoFar, Map!NextBit
<1>2. open \in Seq(MapsInUse) /\ n \in Nat /\ n \in 1 .. n
  BY <1>1 DEF Fit
<1>3. MapFits(pmap, p)
  BY <1>1, <1>2 DEF Fit
<1>4. p \in MapsInUse /\ p.n \in Nat /\ p.extPos \in Nat /\ p.extLen \in Nat
  <2>1. Packed * Mg \in Nat
    BY MapSizes
  <2>2. p \in MapsInUse
    BY <1>3 DEF MapFits
  <2>. QED
    BY <2>1, <2>2 DEF MapsInUse
<1>5. before \in Seq(Seq(BOOLEAN)) /\ Len(before) = n /\ before[n] = u /\ before # <<>>
  <2>1. before \in Seq(Seq(BOOLEAN)) /\ Len(before) = n /\ \A i \in 1 .. n : before[i] = View(pmap, open[i])
    BY <1>1, ViewsAreBits
  <2>. HIDE DEF before
  <2>. QED
    BY <1>2, <2>1
<1>6. CASE Map!Exhausted(p)
  <2>1. bit' = FALSE /\ open' = open
    BY <1>6 DEF Map!NextBit
  <2>2. p.n = 0 /\ p.extPos >= p.extLen
    BY <1>6 DEF Map!Exhausted
  <2>3. u = <<>>
    <3>. HIDE DEF p
    <3>. QED
      BY <1>1, <1>3, <2>2, ExhaustedView
  <2>. HIDE DEF before, u
  <2>4. ReadsBit(before, bit, before, FALSE)
    BY <1>5, <2>3, NothingRead
  <2>5. Views(pmap', open') = before
    BY <1>1, <2>1 DEF before
  <2>. QED
    BY <1>1, <2>1, <2>4, <2>5 DEF MapSoFar, before
<1>7. CASE ~Map!Exhausted(p)
  <2>. DEFINE f == Map!Loaded(p)
              q == Map!Shifted(f)
              v == View(pmap, q)
  <2>1. bit' = Map!TopBit(f) /\ open' = [open EXCEPT ![n] = q]
    BY <1>7 DEF Map!NextBit
  <2>2. MapFits(pmap, f) /\ f.n > 0 /\ View(pmap, f) = u
    <3>1. CASE p.n > 0
      BY <1>3, <3>1 DEF Map!Loaded
    <3>2. CASE ~(p.n > 0)
      <4>1. p.n = 0 /\ p.extPos < p.extLen
        BY <1>4, <1>7, <3>2 DEF Map!Exhausted
      <4>2. f = Refilled(pmap, p)
        BY <3>2 DEF Map!Loaded, Refilled, Mg, W
      <4>. HIDE DEF p, f
      <4>3. MapFits(pmap, Refilled(pmap, p)) /\ Refilled(pmap, p).n > 0
            /\ View(pmap, Refilled(pmap, p)) = View(pmap, p)
        BY <1>1, <1>3, <4>1, RefilledView
      <4>. QED
        BY <4>2, <4>3
    <3>. QED
      BY <3>1, <3>2
  <2>3. f.seg = p.seg
    BY <1>4 DEF Map!Loaded, MapsInUse
  <2>. HIDE DEF f, u
  <2>4. q = Advanced(f)
    BY DEF Map!Shifted, Advanced, W
  <2>. HIDE DEF q
  <2>5. MapFits(pmap, q) /\ u # <<>> /\ Head(u) = (f.bits \div 2 ^ (W - 1) = 1) /\ Tail(u) = v
    <3>1. /\ MapFits(pmap, Advanced(f)) /\ View(pmap, f) # <<>>
          /\ Head(View(pmap, f)) = (f.bits \div 2 ^ (W - 1) = 1)
          /\ Tail(View(pmap, f)) = View(pmap, Advanced(f))
      BY <1>1, <2>2, ShiftedView
    <3>. QED
      BY <2>2, <2>4, <3>1
  <2>6. Map!TopBit(f) = (f.bits \div 2 ^ (W - 1) = 1)
    BY DEF Map!TopBit, W
  <2>7. q.seg = p.seg
    <3>1. f \in MapsInUse
      BY <2>2 DEF MapFits
    <3>. QED
        BY <2>3, <2>4, <3>1 DEF MapsInUse, Advanced
  <2>8. Fit(pmap, [open EXCEPT ![n] = q]) /\ Views(pmap, [open EXCEPT ![n] = q]) = [before EXCEPT ![n] = v]
    BY <1>1, <2>5, <2>7, ViewsOfInnermost
  <2>. HIDE DEF before, v
  <2>9. Views(pmap', open') = [before EXCEPT ![n] = Tail(before[n])]
    BY <1>1, <1>5, <2>1, <2>5, <2>8
  <2>10. bit' = Head(before[n]) /\ before[n] # <<>> /\ bit' \in BOOLEAN
    BY <1>5, <2>1, <2>5, <2>6
  <2>11. ReadsBit(before, bit, Views(pmap', open'), bit')
    <3>1. (before[n] # <<>> /\ Head(before[n])) = bit'
      BY <2>10
    <3>2. [before EXCEPT ![n] = IF @ = <<>> THEN <<>> ELSE Tail(@)] = [before EXCEPT ![n] = Tail(before[n])]
      BY <2>10
    <3>. QED
      BY <1>5, <2>9, <3>1, <3>2 DEF ReadsBit
  <2>12. MapSoFar'
    BY <1>1, <2>1, <2>8, <2>10 DEF MapSoFar
  <2>. QED
    BY <2>11, <2>12 DEF before
<1>. QED
  BY <1>6, <1>7

\* Leave closes the innermost map.
LEMMA LeaveIsClose ==
  ASSUME MapSoFar, Map!Leave
  PROVE  /\ MapSoFar'
         /\ Views(pmap, open) # <<>>
         /\ Views(pmap', open') = SubSeq(Views(pmap, open), 1, Len(Views(pmap, open)) - 1)
         /\ bit' = bit
<1>1. pmap \in Buffers /\ bit \in BOOLEAN /\ Fit(pmap, open) /\ open # <<>> /\ pmap' = pmap /\ bit' = bit
      /\ open' = SubSeq(open, 1, Len(open) - 1)
  BY DEF MapSoFar, Map!Leave
<1>2. Len(Views(pmap, open)) = Len(open) /\ Views(pmap, open) \in Seq(Seq(BOOLEAN)) /\ Len(open) # 0
  <2>1. Len(open) # 0
    BY <1>1 DEF Fit
  <2>. QED
    BY <1>1, <2>1, ViewsAreBits
<1>3. /\ Fit(pmap, SubSeq(open, 1, Len(open) - 1))
      /\ Views(pmap, SubSeq(open, 1, Len(open) - 1)) = SubSeq(Views(pmap, open), 1, Len(open) - 1)
  BY <1>1, ViewsOfOuter
<1>4. Views(pmap, open) # <<>>
  <2>. DEFINE V == Views(pmap, open)
  <2>. HIDE DEF V
  <2>. QED
    BY <1>2 DEF V
<1>. QED
  BY <1>1, <1>2, <1>3, <1>4 DEF MapSoFar

\* Open opens a map, in a buffer that no map in use has.
LEMMA OpenIsOpened ==
  ASSUME MapSoFar, NEW seg \in Segments, NEW gs \in Maps, Map!Open(seg, gs)
  PROVE  /\ MapSoFar'
         /\ Len(Views(pmap, open)) < MaxDepth
         /\ Views(pmap', open') = Append(Views(pmap, open), Sent(gs))
         /\ bit' = bit
<1>. DEFINE pn == [pmap EXCEPT ![seg] = Map!Overwritten(@, gs)]
            p == Map!PMAP(seg, gs)
<1>1. pmap \in Buffers /\ bit \in BOOLEAN /\ Fit(pmap, open) /\ bit' = bit
      /\ open' = Append(open, p) /\ pmap' = pn /\ Len(open) < MaxDepth
      /\ \A i \in DOMAIN open : open[i].seg # seg
  BY DEF MapSoFar, Map!Open, Map!Buf
<1>2. pn \in Buffers /\ MapFits(pn, p) /\ p.seg = seg /\ View(pn, p) = Sent(gs)
  BY <1>1, OpenedView
<1>3. \A s \in Segments : s # p.seg => pn[s] = pmap[s]
  BY <1>1, <1>2 DEF Buffers
<1>4. \A i \in 1 .. Len(open) : open[i].seg # p.seg
  BY <1>1, <1>2 DEF Fit
<1>5. Len(Views(pmap, open)) = Len(open)
  BY <1>1, ViewsAreBits
<1>. HIDE DEF pn, p
<1>6. Fit(pn, Append(open, p)) /\ Views(pn, Append(open, p)) = Append(Views(pmap, open), View(pn, p))
  BY <1>1, <1>2, <1>3, <1>4, ViewsOfMore
<1>. QED
  BY <1>1, <1>2, <1>5, <1>6 DEF MapSoFar

\* CutShort abandons all.
LEMMA CutShortIsAbandoned ==
  ASSUME MapSoFar, NEW seg \in Segments, NEW gs \in Maps, Map!CutShort(seg, gs)
  PROVE  MapSoFar' /\ Views(pmap', open') = <<>> /\ bit' = bit
<1>. DEFINE pn == [pmap EXCEPT ![seg] = Map!Overwritten(@, gs)]
<1>1. pmap \in Buffers /\ bit \in BOOLEAN /\ bit' = bit /\ open' = <<>> /\ pmap' = pn
  BY DEF MapSoFar, Map!CutShort, Map!Buf
<1>2. pn \in Buffers
  BY <1>1, OpenedView
<1>. HIDE DEF pn
<1>3. open' \in Seq(MapsInUse) /\ Len(open') = 0
  BY <1>1
<1>4. Fit(pmap', open') /\ Views(pmap', open') = <<>>
  BY <1>3 DEF Fit, Views
<1>. QED
  BY <1>1, <1>2, <1>4 DEF MapSoFar

\* So every step keeps the invariant and is a step of BitSequence.
LEMMA MapGoesOn ==
  ASSUME MapSoFar, Map!Next
  PROVE  MapSoFar' /\ Map!Promise!Next
<1>1. Map!Unread = Views(pmap, open)
  BY UnreadIsViews
<1>2. ASSUME MapSoFar' PROVE Map!Unread' = Views(pmap', open')
  <2>1. (MapSoFar => Map!Unread = Views(pmap, open))'
    BY UnreadIsViews, PTL
  <2>. QED
    BY <1>2, <2>1
<1>3. CASE Map!NextBit
  <2>1. MapSoFar' /\ ReadsBit(Views(pmap, open), bit, Views(pmap', open'), bit')
    BY <1>3, NextBitIsRead
  <2>2. Map!Promise!ReadBit
    BY <1>1, <1>2, <2>1 DEF ReadsBit, Map!Promise!ReadBit, Map!Promise!AfterBit
  <2>. QED
    BY <2>1, <2>2 DEF Map!Promise!Next
<1>4. CASE Map!Leave
  <2>1. MapSoFar' /\ Map!Promise!Close
    BY <1>1, <1>2, <1>4, LeaveIsClose DEF Map!Promise!Close
  <2>. QED
    BY <2>1 DEF Map!Promise!Next
<1>5. ASSUME NEW seg \in Segments, NEW gs \in Maps, Map!Open(seg, gs)
      PROVE  MapSoFar' /\ Map!Promise!Next
  <2>1. /\ MapSoFar' /\ Len(Views(pmap, open)) < MaxDepth
        /\ Views(pmap', open') = Append(Views(pmap, open), Sent(gs)) /\ bit' = bit
    BY <1>5, OpenIsOpened
  <2>2. Map!Promise!BitsSent(gs) = Sent(gs)
    <3>1. gs \in Seq(Groups(Mg))
      BY MapSizes
    <3>2. Map!Sequence!BitsSent(gs) = Sent(gs)
      BY <3>1, SentIsSent
    <3>3. Map!Promise!BitsSent(gs) = Map!Sequence!BitsSent(gs)
      BY DEF Map!Promise!BitsSent, Map!Sequence!BitsSent, Map!Promise!BitOf, Map!Sequence!BitOf
    <3>. QED
      BY <3>2, <3>3
  <2>3. Map!Promise!Open(gs)
    BY <1>1, <1>2, <2>1, <2>2 DEF Map!Promise!Open
  <2>. QED
    BY <2>1, <2>3 DEF Map!Promise!Next
<1>6. ASSUME NEW seg \in Segments, NEW gs \in Maps, Map!CutShort(seg, gs)
      PROVE  MapSoFar' /\ Map!Promise!Next
  <2>1. MapSoFar' /\ Views(pmap', open') = <<>> /\ bit' = bit
    BY <1>6, CutShortIsAbandoned
  <2>2. Map!Promise!Abandon
    BY <1>2, <2>1 DEF Map!Promise!Abandon
  <2>. QED
    BY <2>1, <2>2 DEF Map!Promise!Next
<1>. QED
  BY <1>3, <1>4, <1>5, <1>6 DEF Map!Next

\* The invariant is what the other properties of PresenceMap need.
LEMMA MapIsRight ==
  ASSUME MapSoFar
  PROVE  Map!TypeOK /\ Map!WordIsClean
<1>1. pmap \in Buffers /\ bit \in BOOLEAN /\ open \in Seq(MapsInUse)
      /\ DOMAIN open = 1 .. Len(open) /\ \A i \in 1 .. Len(open) : MapFits(pmap, open[i])
  BY DEF MapSoFar, Fit
<1>2. pmap \in [Segments -> Seq(0 .. 2 ^ MapGroupBits - 1)]
  BY <1>1 DEF Buffers, Groups, Radix, Mg
<1>3. ASSUME NEW i \in DOMAIN open
      PROVE  LET p == open[i] IN
               /\ p.seg \in Segments
               /\ p.bits \in 0 .. 2 ^ Map!MapWordBits - 1
               /\ p.n \in 0 .. Packed * MapGroupBits
               /\ p.extPos \in 0 .. p.extLen /\ p.extLen <= Len(pmap[p.buf])
               /\ p.bits % 2 ^ (Map!MapWordBits - p.n) = 0
  <2>. DEFINE p == open[i]
  <2>1. MapFits(pmap, p)
    BY <1>1
  <2>. HIDE DEF p
  <2>2. /\ p.seg \in Segments
        /\ p.bits \in Word
        /\ p.n \in 0 .. Packed * Mg
        /\ p.extPos \in Nat /\ p.extLen \in Nat /\ p.extPos <= p.extLen /\ p.extLen <= Len(pmap[p.buf])
        /\ p.bits % 2 ^ (W - p.n) = 0
    BY <2>1 DEF MapFits, MapsInUse
  <2>3. p.extPos \in 0 .. p.extLen
    BY <2>2
  <2>. QED
    BY <2>2, <2>3 DEF Word, W, Mg, p
<1>. QED
  BY <1>1, <1>2, <1>3 DEF Map!TypeOK, Map!WordIsClean

-----------------------------------------------------------------------------
(* All the parts.                                                          *)

\* The invariant of all parts together.
EntitiesSoFar == ReadSoFar /\ TimesSoFar /\ BitsSoFar /\ MapSoFar

\* It holds initially.
LEMMA PartsStart == Init => EntitiesSoFar
BY ReadStarts, TimesStart, BitsStart, MapStarts DEF Init, EntitiesSoFar

\* A step of another part leaves the maps alone.
LEMMA MapStays ==
  ASSUME MapSoFar, UNCHANGED mapVars
  PROVE  MapSoFar' /\ UNCHANGED Map!Promise!vars
<1>1. pmap' = pmap /\ open' = open /\ bit' = bit
  BY DEF mapVars
<1>2. MapSoFar'
  BY <1>1 DEF MapSoFar
<1>3. Map!Unread' = Map!Unread
  BY <1>1 DEF Map!Unread, Map!InBuffer
<1>. QED
  BY <1>1, <1>2, <1>3 DEF Map!Promise!vars

\* Every step keeps it, and is a step of BitSequence or none.
LEMMA PartsGoOn == EntitiesSoFar /\ [Next]_vars => EntitiesSoFar' /\ [Map!Promise!Next]_(Map!Promise!vars)
<1>. SUFFICES ASSUME EntitiesSoFar, [Next]_vars
              PROVE  EntitiesSoFar' /\ [Map!Promise!Next]_(Map!Promise!vars)
  OBVIOUS
<1>1. /\ [Entity!Next]_entityVars /\ [Map!Next]_mapVars
      /\ [Bits!Next]_groupVars /\ [Time!Next]_timeVars
  BY DEF Next, vars
<1>2. ReadSoFar' /\ TimesSoFar' /\ BitsSoFar'
  BY <1>1, ReadGoesOn, TimesGoOn, BitsGoOn DEF EntitiesSoFar
<1>3. MapSoFar' /\ [Map!Promise!Next]_(Map!Promise!vars)
  BY <1>1, MapStays, MapGoesOn DEF EntitiesSoFar
<1>. QED
  BY <1>2, <1>3 DEF EntitiesSoFar

\* So it holds for ever.
LEMMA PartsHold == Spec => []EntitiesSoFar
BY PartsStart, PartsGoOn, PTL DEF Spec

\* The state of reader.go, pmap.go and ext12.go keeps the types it has in the code:
\* accumulators and results stay words of their signedness, cursors stay inside
\* their entity, and the buffer of every nested map holds what is still to be loaded.
THEOREM TypesHold == Spec => []TypeOK
<1>1. EntitiesSoFar => TypeOK
  BY ReadIsRight, MapIsRight, BitsAreRight DEF EntitiesSoFar, TypeOK
<1>. QED
  BY <1>1, PartsHold, PTL

\* What readEntityUnsigned and readEntitySigned deliver is the number that the bytes
\* encode, at whatever length; and they refuse only what no word holds, or what is
\* longer than any number needs: for every size of groups and words.
THEOREM EntitiesAreExact == Spec => []ExactOrRefused
<1>1. EntitiesSoFar => ExactOrRefused
  BY ReadIsRight DEF EntitiesSoFar, ExactOrRefused
<1>. QED
  BY <1>1, PartsHold, PTL

\* The word that PMAP.Next shifts has nothing set below its unread bits.
THEOREM WordStaysClean == Spec => []WordIsClean
<1>1. EntitiesSoFar => WordIsClean
  BY MapIsRight DEF EntitiesSoFar, WordIsClean
<1>. QED
  BY <1>1, PartsHold, PTL

\* ReadPMAP and PMAP.Next, with a word, a buffer for each segment that is used again
\* for ever, maps that nest and maps that are cut short, implement BitSequence: each
\* map returns the bits that were sent, in order, and FALSE past its end.
THEOREM MapsAreSequences == Spec => BitsAreKept
<1>1. Init => Map!Promise!Init
  <2>1. Init => MapSoFar /\ Views(pmap, open) = <<>> /\ bit = FALSE
    BY MapStarts DEF Init
  <2>. QED
    BY <2>1, UnreadIsViews DEF Map!Promise!Init
<1>2. Init /\ [][Next]_vars => Map!Promise!Init /\ [][Map!Promise!Next]_(Map!Promise!vars)
  BY <1>1, PartsStart, PartsGoOn, PTL
<1>. QED
  BY <1>2, PTL DEF Spec, BitsAreKept, Map!BitsAreKept, Map!Promise!Spec

\* ReadBits and ReadBitsSigned return the next bits of the entity as the number they
\* are, wherever its bytes end, and move past them.
THEOREM GroupBitsComeInOrder == Spec => []BitsComeInOrder
<1>1. EntitiesSoFar => BitsComeInOrder
  BY BitsAreRight DEF EntitiesSoFar, BitsComeInOrder
<1>. QED
  BY <1>1, PartsHold, PTL

\* ReadBits and ReadBitsSigned refuse exactly what is too wide for the word or for what
\* is left, and then the fields after it are still where they were.
THEOREM RefusalsKeepPlace == Spec => []RefusalKeepsPlace
<1>1. EntitiesSoFar => RefusalKeepsPlace
  BY BitsAreRight DEF EntitiesSoFar, RefusalKeepsPlace
<1>. QED
  BY <1>1, PartsHold, PTL

\* TimestampUTC and Duration are exact, or off by whole turns of their word.
THEOREM TimesHold == Spec => []TimesAreExactOrTurned
<1>1. EntitiesSoFar => TimesAreExactOrTurned
  BY TimesAreRight DEF EntitiesSoFar, TimesAreExactOrTurned
<1>. QED
  BY <1>1, PartsHold, PTL
=============================================================================
