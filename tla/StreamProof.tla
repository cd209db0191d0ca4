---------------------------- MODULE StreamProof -----------------------------
(***************************************************************************)
(* The event buffers and their consumers, for any number of turns, clients *)
(* and events: no stream skips an event, and the accounts are exact.       *)
(***************************************************************************)
EXTENDS StreamBuffer, FiniteSetsExt, SequencesExt, TLAPS,
        FiniteSetTheorems, SequenceTheorems, WellFoundedInduction

-----------------------------------------------------------------------------
(* Sums of the community modules (SumFunctionOnSet, SumFunction) over finite *)
(* sets and sequences of any size.  The fold that defines a sum is a         *)
(* recursive function over subsets; that it exists, and that it does not     *)
(* depend on the order in which elements are taken, is shown by induction on *)
(* their number, for a set of numbers: a theorem with an operator parameter  *)
(* could not be instantiated by the provers at hand.                         *)

\* A set of naturals that is not empty has a least element.
LEMMA LeastNumber ==
  ASSUME NEW S, S \subseteq Nat, S # {}
  PROVE  \E x \in S : \A y \in S : x <= y
<1> DEFINE R == {p \in Nat \X Nat : p[1] < p[2]}
<1>1. IsWellFoundedOn(R, Nat)
  BY NatLessThanWellFounded DEF OpToRel
<1> HIDE DEF R
<1>2. PICK x \in S : \A y \in S : ~(<<y, x>> \in R)
  BY <1>1, WFMin
<1>3. ASSUME NEW y \in S, y < x
      PROVE  FALSE
  <2>1. <<y, x>> \in R
    BY <1>3 DEF R
  <2> QED
    BY <1>2, <2>1
<1> QED
  BY <1>3

\* Induction over the naturals, for a set of numbers.
LEMMA SetInduction ==
  ASSUME NEW G, 0 \in G, \A n \in Nat : n \in G => n + 1 \in G
  PROVE  \A n \in Nat : n \in G
<1> SUFFICES ASSUME Nat \ G # {} PROVE FALSE
  OBVIOUS
<1>1. PICK n \in Nat \ G : \A m \in Nat \ G : n <= m
  BY LeastNumber
<1>2. n # 0 /\ n - 1 \in Nat /\ n = (n - 1) + 1
  BY <1>1
<1>3. n - 1 \notin Nat \ G
  BY <1>1
<1> QED
  BY <1>1, <1>2, <1>3

\* The community modules' Min of such a set is that element.
LEMMA MinOfNaturals ==
  ASSUME NEW S, S \subseteq Nat, S # {}
  PROVE  Min(S) \in S /\ \A y \in S : Min(S) <= y
BY LeastNumber, Zenon DEF Min

\* f gives the sum of the weights w over each subset of S.
IsSum(f, S, w) ==
  /\ f \in [SUBSET S -> Int]
  /\ f[{}] = 0
  /\ \A s \in SUBSET S : \A x \in s : f[s] = w[x] + f[s \ {x}]

\* One step of the recursion of a fold that takes the element ch[s] of s first.
Unfold(f, w, ch, s) == IF s = {} THEN 0 ELSE w[ch[s]] + f[s \ {ch[s]}]

\* f satisfies the recursive equation of that fold on every subset of S.
IsFold(f, S, w, ch) == f = [s \in SUBSET S |-> Unfold(f, w, ch, s)]

\* A subset has no more elements, and taking one away leaves one fewer.
LEMMA SmallerSubset ==
  ASSUME NEW S, IsFiniteSet(S), NEW s \in SUBSET S
  PROVE  /\ Cardinality(s) \in Nat /\ Cardinality(s) <= Cardinality(S)
         /\ Cardinality(s) = 0 <=> s = {}
         /\ \A x \in s : s \ {x} \in SUBSET S /\ Cardinality(s \ {x}) = Cardinality(s) - 1
<1>1. IsFiniteSet(s) /\ Cardinality(s) <= Cardinality(S)
  BY FS_Subset
<1>2. Cardinality(s) \in Nat
  BY <1>1, FS_CardinalityType
<1>3. Cardinality(s) = 0 <=> s = {}
  BY <1>1, FS_EmptySet
<1>4. \A x \in s : s \ {x} \in SUBSET S /\ Cardinality(s \ {x}) = Cardinality(s) - 1
  BY <1>1, FS_RemoveElement
<1> QED
  BY <1>1, <1>2, <1>3, <1>4

\* The recursive equation of a fold over a finite set has a solution: one on
\* the subsets of n elements extends to those of n + 1.
LEMMA FoldExists ==
  ASSUME NEW S, IsFiniteSet(S), NEW w, NEW ch,
         \A s \in SUBSET S : s # {} => ch[s] \in s
  PROVE  \E f : IsFold(f, S, w, ch)
<1> DEFINE Small(n) == {s \in SUBSET S : Cardinality(s) <= n}
           Has(n) == \E f : f = [s \in Small(n) |-> Unfold(f, w, ch, s)]
           Good == {n \in Nat : Has(n)}
<1>1. 0 \in Good
  <2> DEFINE f == [s \in Small(0) |-> 0]
  <2>1. \A s \in Small(0) : s = {}
    <3> TAKE s \in Small(0)
    <3> QED
      BY SmallerSubset
  <2>2. f = [s \in Small(0) |-> Unfold(f, w, ch, s)]
    BY <2>1 DEF Unfold
  <2> HIDE DEF f
  <2> QED
    BY <2>2
<1>2. ASSUME NEW n \in Nat, n \in Good
      PROVE  n + 1 \in Good
  <2>1. PICK f : f = [s \in Small(n) |-> Unfold(f, w, ch, s)]
    BY <1>2
  <2> DEFINE g == [s \in Small(n + 1) |->
                     IF Cardinality(s) <= n THEN f[s] ELSE Unfold(f, w, ch, s)]
  <2>2. ASSUME NEW s \in Small(n + 1)
        PROVE  g[s] = Unfold(g, w, ch, s)
    <3>1. g[s] = Unfold(f, w, ch, s)
      <4>1. ASSUME Cardinality(s) <= n
            PROVE  f[s] = Unfold(f, w, ch, s)
        <5>1. s \in Small(n)
          BY <4>1
        <5> QED
          BY <2>1, <5>1
      <4> QED
        BY <4>1
    <3>2. CASE s = {}
      BY <3>1, <3>2 DEF Unfold
    <3>3. CASE s # {}
      <4>1. ch[s] \in s
        BY <3>3
      <4>2. s \ {ch[s]} \in Small(n + 1) /\ Cardinality(s \ {ch[s]}) <= n
        BY <4>1, SmallerSubset
      <4>3. g[s \ {ch[s]}] = f[s \ {ch[s]}]
        BY <4>2
      <4> HIDE DEF g
      <4> QED
        BY <3>1, <4>3 DEF Unfold
    <3> QED
      BY <3>2, <3>3
  <2>3. g = [s \in Small(n + 1) |-> Unfold(g, w, ch, s)]
    BY <2>2
  <2> HIDE DEF g
  <2>4. Has(n + 1)
    BY <2>3
  <2> HIDE DEF Has
  <2> QED
    BY <2>4
<1>3. Cardinality(S) \in Nat
  BY FS_CardinalityType
<1>4. Cardinality(S) \in Good
  <2> HIDE DEF Good
  <2> QED
    BY <1>1, <1>2, <1>3, SetInduction
<1>5. Small(Cardinality(S)) = SUBSET S
  BY SmallerSubset
<1> QED
  BY <1>4, <1>5 DEF IsFold

\* What such a fold computes does not depend on the order it takes.
LEMMA FoldIsSum ==
  ASSUME NEW S, IsFiniteSet(S), NEW w, \A x \in S : w[x] \in Int, NEW ch,
         \A s \in SUBSET S : s # {} => ch[s] \in s,
         NEW f, IsFold(f, S, w, ch)
  PROVE  IsSum(f, S, w)
<1> DEFINE Sums(s) == f[s] \in Int /\ \A x \in s : f[s] = w[x] + f[s \ {x}]
           Good == {n \in Nat : \A s \in SUBSET S : Cardinality(s) <= n => Sums(s)}
<1>0. \A s \in SUBSET S : f[s] = Unfold(f, w, ch, s)
  BY DEF IsFold
<1>1. 0 \in Good
  <2>1. ASSUME NEW s \in SUBSET S, Cardinality(s) <= 0
        PROVE  s = {}
    BY <2>1, SmallerSubset
  <2>2. f[{}] = 0
    BY <1>0 DEF Unfold
  <2>3. ASSUME NEW s \in SUBSET S, Cardinality(s) <= 0
        PROVE  Sums(s)
    <3>1. s = {}
      BY <2>1, <2>3
    <3> QED
      BY <2>2, <3>1
  <2> HIDE DEF Sums
  <2> QED
    BY <2>3
<1>2. ASSUME NEW n \in Nat, n \in Good
      PROVE  n + 1 \in Good
  <2>1. ASSUME NEW s \in SUBSET S, Cardinality(s) = n + 1
        PROVE  Sums(s)
    <3> DEFINE c == ch[s]
    <3>1. s # {} /\ c \in s
      BY <2>1, SmallerSubset
    <3>2. f[s] = w[c] + f[s \ {c}]
      BY <1>0, <3>1 DEF Unfold
    <3>3. \A x \in s : s \ {x} \in SUBSET S /\ Cardinality(s \ {x}) <= n
      BY <2>1, SmallerSubset
    <3>4. \A x \in s : f[s \ {x}] \in Int
      BY <1>2, <3>3
    <3>5. ASSUME NEW x \in s, x # c
          PROVE  f[s] = w[x] + f[s \ {x}]
      <4>1. f[s \ {c}] = w[x] + f[(s \ {c}) \ {x}]
        BY <1>2, <3>1, <3>3, <3>5
      <4>2. f[s \ {x}] = w[c] + f[(s \ {c}) \ {x}]
        <5>1. (s \ {c}) \ {x} = (s \ {x}) \ {c}
          OBVIOUS
        <5>2. f[s \ {x}] = w[c] + f[(s \ {x}) \ {c}]
          BY <1>2, <3>1, <3>3, <3>5
        <5> QED
          BY <5>1, <5>2
      <4>3. s \ {c} \in SUBSET S /\ Cardinality(s \ {c}) <= n /\ x \in s \ {c}
        BY <3>1, <3>3, <3>5
      <4>4. /\ (s \ {c}) \ {x} \in SUBSET S
            /\ Cardinality((s \ {c}) \ {x}) <= n
        <5> DEFINE r == s \ {c}
        <5>1. r \in SUBSET S /\ Cardinality(r) <= n /\ x \in r
          BY <4>3
        <5> HIDE DEF r
        <5>2. /\ r \ {x} \in SUBSET S
              /\ Cardinality(r \ {x}) = Cardinality(r) - 1
              /\ Cardinality(r) \in Nat
          BY <5>1, SmallerSubset
        <5>3. Cardinality(r \ {x}) <= n
          BY <5>1, <5>2
        <5> QED
          BY <5>2, <5>3 DEF r
      <4>5. f[(s \ {c}) \ {x}] \in Int
        BY <1>2, <4>4
      <4>6. w[x] \in Int /\ w[c] \in Int
        BY <3>1
      <4> HIDE DEF c
      <4> QED
        BY <3>2, <4>1, <4>2, <4>5, <4>6
    <3>6. f[s] \in Int
      <4>1. w[c] \in Int /\ f[s \ {c}] \in Int
        BY <3>1, <3>4
      <4> QED
        BY <3>2, <4>1
    <3> QED
      BY <3>1, <3>2, <3>5, <3>6
  <2> HIDE DEF Sums
  <2>2. ASSUME NEW s \in SUBSET S, Cardinality(s) <= n + 1
        PROVE  Cardinality(s) <= n \/ Cardinality(s) = n + 1
    BY <2>2, SmallerSubset
  <2> QED
    BY <1>2, <2>1, <2>2
<1>3. \A n \in Nat : n \in Good
  <2> HIDE DEF Good
  <2> QED
    BY <1>1, <1>2, SetInduction
<1>4. \A s \in SUBSET S : Cardinality(s) \in Nat
  BY SmallerSubset
<1>5. \A s \in SUBSET S : Sums(s)
  <2> HIDE DEF Sums
  <2> QED
    BY <1>3, <1>4
<1>6. f[{}] = 0
  BY <1>0 DEF Unfold
<1>7. f \in [SUBSET S -> Int]
  BY <1>5 DEF IsFold
<1> QED
  BY <1>5, <1>6, <1>7 DEF IsSum

\* SumFunctionOnSet is such a fold, and so a sum.
LEMMA SumIsFold ==
  ASSUME NEW S, IsFiniteSet(S), NEW w, \A x \in S : w[x] \in Int
  PROVE  \E f : IsSum(f, S, w) /\ SumFunctionOnSet(w, S) = f[S]
<1> DEFINE ch == [s \in SUBSET S |-> CHOOSE x \in s : TRUE]
           body(f) == [s \in SUBSET S |-> IF s = {} THEN 0
                         ELSE w[CHOOSE x \in s : TRUE] + f[s \ {CHOOSE x \in s : TRUE}]]
           iter == CHOOSE f : f = body(f)
<1>1. \A s \in SUBSET S : s # {} => ch[s] \in s
  OBVIOUS
<1>2. SumFunctionOnSet(w, S) = iter[S]
  BY DEF SumFunctionOnSet, FoldFunctionOnSet, MapThenFoldSet
<1>3. ASSUME NEW f
      PROVE  body(f) = [s \in SUBSET S |-> Unfold(f, w, ch, s)]
  <2>1. \A s \in SUBSET S : ch[s] = CHOOSE x \in s : TRUE
    OBVIOUS
  <2> HIDE DEF ch
  <2>2. \A s \in SUBSET S : body(f)[s] = Unfold(f, w, ch, s)
    BY <2>1 DEF Unfold
  <2> QED
    BY <2>2
<1> HIDE DEF body, ch
<1>4. \E f : f = body(f)
  <2>1. PICK f : IsFold(f, S, w, ch)
    BY <1>1, FoldExists
  <2> QED
    BY <1>3, <2>1 DEF IsFold
<1>5. iter = body(iter)
  BY <1>4
<1> HIDE DEF iter
<1>6. IsFold(iter, S, w, ch)
  BY <1>3, <1>5 DEF IsFold
<1>7. IsSum(iter, S, w)
  BY <1>1, <1>6, FoldIsSum
<1> QED
  BY <1>2, <1>7

\* Of two sums the one with the smaller weights is the smaller.
LEMMA SumsCompare ==
  ASSUME NEW S, NEW T, NEW A \in SUBSET (S \cap T), IsFiniteSet(A),
         NEW f, NEW g, NEW w, NEW v, IsSum(f, S, w), IsSum(g, T, v),
         \A x \in A : w[x] \in Int /\ v[x] \in Int /\ w[x] <= v[x]
  PROVE  f[A] <= g[A]
<1> DEFINE Good == {n \in Nat : \A s \in SUBSET A : Cardinality(s) = n => f[s] <= g[s]}
<1>1. 0 \in Good
  <2>1. f[{}] = 0 /\ g[{}] = 0
    BY DEF IsSum
  <2> QED
    BY <2>1, SmallerSubset
<1>2. ASSUME NEW n \in Nat, n \in Good
      PROVE  n + 1 \in Good
  <2>1. ASSUME NEW s \in SUBSET A, Cardinality(s) = n + 1
        PROVE  f[s] <= g[s]
    <3>1. s # {} /\ \A x \in s : s \ {x} \in SUBSET A /\ Cardinality(s \ {x}) = n
      BY <2>1, SmallerSubset
    <3>2. PICK x : x \in s
      BY <3>1
    <3>3. f[s \ {x}] <= g[s \ {x}] /\ w[x] <= v[x]
      BY <1>2, <3>1, <3>2
    <3>4. f[s] = w[x] + f[s \ {x}] /\ g[s] = v[x] + g[s \ {x}]
      BY <3>2 DEF IsSum
    <3>5. f[s \ {x}] \in Int /\ g[s \ {x}] \in Int /\ w[x] \in Int /\ v[x] \in Int
      BY <3>1, <3>2 DEF IsSum
    <3> QED
      BY <3>3, <3>4, <3>5
  <2> QED
    BY <2>1
<1>3. \A n \in Nat : n \in Good
  <2> HIDE DEF Good
  <2> QED
    BY <1>1, <1>2, SetInduction
<1>4. Cardinality(A) \in Nat
  BY FS_CardinalityType
<1> QED
  BY <1>3, <1>4

\* A sum of integers is an integer.
LEMMA SumType ==
  ASSUME NEW S, IsFiniteSet(S), NEW w, \A x \in S : w[x] \in Int
  PROVE  SumFunctionOnSet(w, S) \in Int
<1>1. PICK f : IsSum(f, S, w) /\ SumFunctionOnSet(w, S) = f[S]
  BY SumIsFold
<1> QED
  BY <1>1 DEF IsSum

\* The empty sum is zero.
LEMMA SumEmpty ==
  ASSUME NEW w
  PROVE  SumFunctionOnSet(w, {}) = 0
<1>1. PICK f : IsSum(f, {}, w) /\ SumFunctionOnSet(w, {}) = f[{}]
  BY SumIsFold, FS_EmptySet
<1> QED
  BY <1>1 DEF IsSum

\* A sum grows with its weights.
LEMMA SumMonotone ==
  ASSUME NEW S, IsFiniteSet(S), NEW w, NEW v,
         \A x \in S : w[x] \in Int /\ v[x] \in Int /\ w[x] <= v[x]
  PROVE  SumFunctionOnSet(w, S) <= SumFunctionOnSet(v, S)
<1>1. PICK f : IsSum(f, S, w) /\ SumFunctionOnSet(w, S) = f[S]
  BY SumIsFold
<1>2. PICK g : IsSum(g, S, v) /\ SumFunctionOnSet(v, S) = g[S]
  BY SumIsFold
<1>3. f[S] <= g[S]
  BY <1>1, <1>2, SumsCompare
<1> QED
  BY <1>1, <1>2, <1>3

\* Equal weights have equal sums.
LEMMA SumSame ==
  ASSUME NEW S, IsFiniteSet(S), NEW w, NEW v,
         \A x \in S : w[x] \in Int /\ v[x] = w[x]
  PROVE  SumFunctionOnSet(w, S) = SumFunctionOnSet(v, S)
<1>1. /\ SumFunctionOnSet(w, S) <= SumFunctionOnSet(v, S)
      /\ SumFunctionOnSet(v, S) <= SumFunctionOnSet(w, S)
  BY SumMonotone
<1> QED
  BY <1>1, SumType

\* Any one element can be taken out of a sum.
LEMMA SumSplit ==
  ASSUME NEW S, IsFiniteSet(S), NEW w, \A x \in S : w[x] \in Int, NEW x \in S
  PROVE  SumFunctionOnSet(w, S) = w[x] + SumFunctionOnSet(w, S \ {x})
<1> DEFINE R == S \ {x}
<1>1. IsFiniteSet(R) /\ R \in SUBSET (S \cap R) /\ R \in SUBSET (R \cap S)
  BY FS_RemoveElement
<1>2. PICK f : IsSum(f, S, w) /\ SumFunctionOnSet(w, S) = f[S]
  BY SumIsFold
<1>3. PICK g : IsSum(g, R, w) /\ SumFunctionOnSet(w, R) = g[R]
  BY <1>1, SumIsFold
<1>4. f[R] <= g[R] /\ g[R] <= f[R]
  <2>1. \A y \in R : w[y] \in Int /\ w[y] <= w[y]
    OBVIOUS
  <2> QED
    BY <1>1, <1>2, <1>3, <2>1, SumsCompare
<1>5. f[R] \in Int /\ g[R] \in Int
  BY <1>2, <1>3 DEF IsSum
<1>6. f[S] = w[x] + f[R]
  BY <1>2 DEF IsSum
<1> QED
  BY <1>2, <1>3, <1>4, <1>5, <1>6

\* A sum of naturals is a natural.
LEMMA SumOfNaturals ==
  ASSUME NEW S, IsFiniteSet(S), NEW w, \A x \in S : w[x] \in Nat
  PROVE  SumFunctionOnSet(w, S) \in Nat
<1> DEFINE z == [s \in SUBSET S |-> 0]
           v == [x \in S |-> 0]
<1>1. IsSum(z, S, v)
  BY DEF IsSum
<1>2. PICK f : IsSum(f, S, w) /\ SumFunctionOnSet(w, S) = f[S]
  BY SumIsFold
<1>3. /\ z[S] = 0 /\ S \in SUBSET (S \cap S)
      /\ \A x \in S : v[x] \in Int /\ w[x] \in Int /\ v[x] <= w[x]
  OBVIOUS
<1> HIDE DEF z, v
<1>4. z[S] <= f[S]
  BY <1>1, <1>2, <1>3, SumsCompare
<1>5. f[S] \in Int
  BY <1>2 DEF IsSum
<1> QED
  BY <1>2, <1>3, <1>4, <1>5

\* The sum of a sequence of naturals is a natural.
LEMMA SeqSumType ==
  ASSUME NEW s \in Seq(Nat)
  PROVE  SumFunction(s) \in Nat
<1>1. IsFiniteSet(DOMAIN s) /\ \A i \in DOMAIN s : s[i] \in Nat
  BY FS_Interval
<1> QED
  BY <1>1, SumOfNaturals DEF SumFunction

\* The empty sequence sums to zero.
LEMMA SeqSumEmpty ==
  SumFunction(<<>>) = 0
<1>1. DOMAIN <<>> = {}
  OBVIOUS
<1> QED
  BY <1>1, SumEmpty DEF SumFunction

\* Appending adds.
LEMMA SeqSumAppend ==
  ASSUME NEW s \in Seq(Nat), NEW n \in Nat
  PROVE  SumFunction(Append(s, n)) = SumFunction(s) + n
<1> DEFINE a == Append(s, n)
           m == Len(s)
<1>1. /\ m \in Nat /\ DOMAIN s = 1 .. m /\ DOMAIN a = 1 .. m + 1
      /\ a[m + 1] = n /\ \A i \in 1 .. m : a[i] = s[i] /\ s[i] \in Nat
  OBVIOUS
<1> HIDE DEF a, m
<1>2. IsFiniteSet(1 .. m) /\ IsFiniteSet(1 .. m + 1)
  BY <1>1, FS_Interval
<1>3. (1 .. m + 1) \ {m + 1} = 1 .. m /\ m + 1 \in 1 .. m + 1
  BY <1>1
<1>4. \A i \in 1 .. m + 1 : a[i] \in Int
  BY <1>1
<1>5. SumFunctionOnSet(a, 1 .. m + 1) = n + SumFunctionOnSet(a, 1 .. m)
  BY <1>1, <1>2, <1>3, <1>4, SumSplit
<1>6. SumFunctionOnSet(s, 1 .. m) = SumFunctionOnSet(a, 1 .. m)
  <2>1. \A i \in 1 .. m : s[i] \in Int /\ a[i] = s[i]
    BY <1>1
  <2> QED
    BY <1>2, <2>1, SumSame
<1>7. SumFunctionOnSet(s, 1 .. m) \in Int
  BY <1>1, <1>2, SumType
<1> QED
  BY <1>1, <1>5, <1>6, <1>7 DEF SumFunction, a

\* A prefix and the rest make the whole.
LEMMA SeqSumSplit ==
  ASSUME NEW s \in Seq(Nat), NEW k \in 0 .. Len(s)
  PROVE  SumFunction(s) = SumFunction(SubSeq(s, 1, k))
                            + SumFunction(SubSeq(s, k + 1, Len(s)))
<1> DEFINE P(n) == SumFunction(SubSeq(s, 1, k + n))
                     = SumFunction(SubSeq(s, 1, k)) + SumFunction(SubSeq(s, k + 1, k + n))
           Good == {n \in Nat : k + n <= Len(s) => P(n)}
<1>1. 0 \in Good
  <2>1. SubSeq(s, k + 1, k + 0) = <<>> /\ k + 0 = k
    OBVIOUS
  <2>2. SumFunction(SubSeq(s, 1, k)) \in Nat
    <3>1. SubSeq(s, 1, k) \in Seq(Nat)
      OBVIOUS
    <3> QED
      BY <3>1, SeqSumType
  <2> DEFINE q == SumFunction(SubSeq(s, 1, k))
  <2>3. q = q + SumFunction(<<>>)
    BY <2>2, SeqSumEmpty
  <2>4. P(0)
    BY <2>1, <2>3
  <2> HIDE DEF P
  <2> QED
    BY <2>4
<1>2. ASSUME NEW n \in Nat, n \in Good
      PROVE  n + 1 \in Good
  <2> SUFFICES ASSUME k + (n + 1) <= Len(s)
               PROVE  P(n + 1)
    OBVIOUS
  <2> DEFINE x == s[k + n + 1]
             u == SubSeq(s, 1, k + n)
             v == SubSeq(s, k + 1, k + n)
             q == SubSeq(s, 1, k)
  <2>1. x \in Nat /\ u \in Seq(Nat) /\ v \in Seq(Nat) /\ q \in Seq(Nat)
    OBVIOUS
  <2>2. SubSeq(s, 1, k + (n + 1)) = Append(u, x)
    OBVIOUS
  <2>3. SubSeq(s, k + 1, k + (n + 1)) = Append(v, x)
    OBVIOUS
  <2>4. SumFunction(u) = SumFunction(q) + SumFunction(v)
    BY <1>2
  <2> HIDE DEF u, v, x, q
  <2>5. /\ SumFunction(u) \in Nat /\ SumFunction(v) \in Nat /\ SumFunction(q) \in Nat
        /\ SumFunction(Append(u, x)) = SumFunction(u) + x
        /\ SumFunction(Append(v, x)) = SumFunction(v) + x
    BY <2>1, SeqSumType, SeqSumAppend
  <2>6. SumFunction(Append(u, x)) = SumFunction(q) + SumFunction(Append(v, x))
    BY <2>1, <2>4, <2>5
  <2> QED
    BY <2>2, <2>3, <2>6 DEF q
<1>3. \A n \in Nat : n \in Good
  <2> HIDE DEF Good
  <2> QED
    BY <1>1, <1>2, SetInduction
<1>4. Len(s) - k \in Nat /\ k + (Len(s) - k) = Len(s) /\ SubSeq(s, 1, Len(s)) = s
  OBVIOUS
<1>5. P(Len(s) - k)
  <2> HIDE DEF P
  <2> QED
    BY <1>3, <1>4
<1> QED
  BY <1>4, <1>5

-----------------------------------------------------------------------------
(* The buffers.                                                            *)

\* Every buffer holds a run of consecutive events, each under the number at
\* which it was produced, and while its turn is live their sizes beside them.
BufferInv ==
  /\ turnState \in [Turns -> {"new", "live", "final"}]
  /\ base \in [Turns -> Nat]
  /\ events \in [Turns -> Seq(Nat)]
  /\ sizes \in [Turns -> Seq(Nat)]
  /\ closed \in [Turns -> BOOLEAN]
  /\ \A t \in Turns :
       /\ closed[t] <=> turnState[t] = "final"
       /\ Live(t) => Len(sizes[t]) = Len(events[t])
       /\ turnState[t] = "new" => events[t] = <<>> /\ sizes[t] = <<>>
       /\ \A i \in 1 .. Len(events[t]) : events[t][i] = base[t] + i - 1

\* append evicts none, some or all but the last of the events it finds.
LEMMA EvictionsRange ==
  ASSUME NEW szs, Len(szs) \in Nat \ {0}, NEW total
  PROVE  Evictions(szs, total) \in 0 .. Len(szs) - 1
<1> DEFINE ok == {k \in 0 .. Len(szs) - 1 :
                    /\ Len(szs) - k <= MaxSize
                    /\ total - SumSeq(SubSeq(szs, 1, k)) <= Budget}
<1>1. Evictions(szs, total) = IF ok = {} THEN Len(szs) - 1 ELSE Min(ok)
  BY DEF Evictions
<1>2. ok \subseteq 0 .. Len(szs) - 1
  OBVIOUS
<1> HIDE DEF ok
<1>3. ok \subseteq Nat
  BY <1>2
<1>4. CASE ok = {}
  BY <1>1, <1>4
<1>5. CASE ok # {}
  BY <1>1, <1>2, <1>3, <1>5, MinOfNaturals
<1> QED
  BY <1>4, <1>5

\* The rest of a sequence after its first k elements.
LEMMA Suffix ==
  ASSUME NEW s \in Seq(Nat), NEW k \in Nat, k <= Len(s)
  PROVE  /\ Kept(s, k) \in Seq(Nat)
         /\ Len(Kept(s, k)) = Len(s) - k
         /\ \A i \in 1 .. Len(s) - k : Kept(s, k)[i] = s[k + i]
<1>1. k + 1 \in 1 .. Len(s) + 1 /\ Len(s) \in k .. Len(s)
  OBVIOUS
<1>2. Kept(s, k) = [i \in 1 .. Len(s) - k |-> s[k + i]]
  BY DEF Kept
<1> QED
  BY <1>1, <1>2

\* The number of events that appending one of size n to t's buffer evicts.
Evicted(t, n) == Evictions(Append(sizes[t], n), used + n)

\* What the buffer holds afterwards (_RingBuffer.append).
LEMMA Appended ==
  ASSUME BufferInv, NEW t \in Turns, Live(t), NEW n \in Sizes
  PROVE  LET k   == Evicted(t, n)
             szs == Append(sizes[t], n)
             evs == Append(events[t], NextSeq(t))
             kept == Kept(evs, k)
         IN  /\ k \in 0 .. Len(events[t])
             /\ kept \in Seq(Nat)
             /\ Len(kept) = Len(events[t]) + 1 - k
             /\ \A i \in 1 .. Len(kept) : kept[i] = base[t] + k + i - 1
             /\ Kept(szs, k) \in Seq(Nat)
             /\ Len(Kept(szs, k)) = Len(kept)
<1> USE StreamAssumption
<1> DEFINE k   == Evicted(t, n)
           szs == Append(sizes[t], n)
           evs == Append(events[t], NextSeq(t))
           m   == Len(events[t])
<1>1. /\ m \in Nat /\ Len(sizes[t]) = m
      /\ events[t] \in Seq(Nat) /\ sizes[t] \in Seq(Nat)
      /\ base[t] \in Nat /\ n \in Nat /\ NextSeq(t) = base[t] + m
  BY DEF BufferInv, NextSeq
<1>2. /\ szs \in Seq(Nat) /\ Len(szs) = m + 1
      /\ evs \in Seq(Nat) /\ Len(evs) = m + 1
  BY <1>1
<1>3. \A i \in 1 .. m + 1 : evs[i] = base[t] + i - 1
  BY <1>1 DEF BufferInv
<1> HIDE DEF szs, evs
<1>4. k \in 0 .. m
  <2>1. k = Evictions(szs, used + n)
    BY DEF Evicted, szs
  <2> HIDE DEF k, m
  <2>2. Len(szs) \in Nat \ {0} /\ Len(szs) - 1 = m
    BY <1>1, <1>2
  <2> QED
    BY <2>1, <2>2, EvictionsRange
<1> HIDE DEF k, m
<1>5. /\ Kept(evs, k) \in Seq(Nat)
      /\ Len(Kept(evs, k)) = m + 1 - k
      /\ \A i \in 1 .. m + 1 - k : Kept(evs, k)[i] = evs[k + i]
  <2>1. k \in Nat /\ k <= Len(evs)
    BY <1>1, <1>2, <1>4
  <2>2. /\ Kept(evs, k) \in Seq(Nat)
        /\ Len(Kept(evs, k)) = Len(evs) - k
        /\ \A i \in 1 .. Len(evs) - k : Kept(evs, k)[i] = evs[k + i]
    BY <1>2, <2>1, Suffix
  <2> QED
    BY <1>1, <1>2, <1>4, <2>2
<1>6. /\ Kept(szs, k) \in Seq(Nat)
      /\ Len(Kept(szs, k)) = m + 1 - k
  <2>1. k \in Nat /\ k <= Len(szs)
    BY <1>1, <1>2, <1>4
  <2>2. /\ Kept(szs, k) \in Seq(Nat)
        /\ Len(Kept(szs, k)) = Len(szs) - k
        /\ \A i \in 1 .. Len(szs) - k : Kept(szs, k)[i] = szs[k + i]
    BY <1>2, <2>1, Suffix
  <2> QED
    BY <1>1, <1>2, <1>4, <2>2
<1>7. \A i \in 1 .. m + 1 - k : evs[k + i] = base[t] + k + i - 1
  BY <1>1, <1>3, <1>4
<1> QED
  BY <1>4, <1>5, <1>6, <1>7 DEF k, m, szs, evs

\* The effect of a step on the buffers: one live turn's buffer takes an event
\* and, if it is the terminal one, is closed.
Appends(t, last) ==
  /\ Live(t)
  /\ turnState' = IF last THEN [turnState EXCEPT ![t] = "final"] ELSE turnState
  /\ closed' = IF last THEN [closed EXCEPT ![t] = TRUE] ELSE closed
  /\ \A u \in Turns : u # t => UNCHANGED <<base[u], events[u], sizes[u]>>
  /\ base' \in [Turns -> Nat] /\ events' \in [Turns -> Seq(Nat)]
  /\ sizes' \in [Turns -> Seq(Nat)]
  /\ base'[t] >= base[t]
  /\ base'[t] + Len(events'[t]) = NextSeq(t) + 1
  /\ \A i \in 1 .. Len(events'[t]) : events'[t][i] = base'[t] + i - 1
  /\ last \/ Len(sizes'[t]) = Len(events'[t])

\* A produced event is appended (TurnRegistry's emit).
LEMMA ProduceAppends ==
  ASSUME BufferInv, NEW t \in Turns, NEW n \in Sizes, Produce(t, n)
  PROVE  Appends(t, FALSE)
<1>1. Live(t)
  BY DEF Produce
<1> DEFINE k   == Evicted(t, n)
           szs == Append(sizes[t], n)
           evs == Append(events[t], NextSeq(t))
<1>2. /\ events' = [events EXCEPT ![t] = Kept(evs, k)]
      /\ sizes' = [sizes EXCEPT ![t] = Kept(szs, k)]
      /\ base' = [base EXCEPT ![t] = @ + k]
      /\ UNCHANGED <<turnState, closed>>
  BY DEF Produce, Push, Evicted
<1>3. /\ k \in 0 .. Len(events[t])
      /\ Kept(evs, k) \in Seq(Nat)
      /\ Len(Kept(evs, k)) = Len(events[t]) + 1 - k
      /\ \A i \in 1 .. Len(Kept(evs, k)) :
           Kept(evs, k)[i] = base[t] + k + i - 1
      /\ Kept(szs, k) \in Seq(Nat)
      /\ Len(Kept(szs, k)) = Len(Kept(evs, k))
  BY <1>1, Appended
<1> HIDE DEF k, szs, evs
<1>4. /\ events \in [Turns -> Seq(Nat)] /\ sizes \in [Turns -> Seq(Nat)]
      /\ base \in [Turns -> Nat] /\ NextSeq(t) = base[t] + Len(events[t])
  BY DEF BufferInv, NextSeq
<1>5. /\ events'[t] = Kept(evs, k)
      /\ sizes'[t] = Kept(szs, k)
      /\ base'[t] = base[t] + k
      /\ \A u \in Turns : u # t => UNCHANGED <<base[u], events[u], sizes[u]>>
  BY <1>2, <1>4
<1>6. /\ events' \in [Turns -> Seq(Nat)] /\ sizes' \in [Turns -> Seq(Nat)]
      /\ base' \in [Turns -> Nat]
  BY <1>2, <1>3, <1>4
<1>7. /\ base'[t] >= base[t]
      /\ base'[t] + Len(events'[t]) = NextSeq(t) + 1
      /\ \A i \in 1 .. Len(events'[t]) : events'[t][i] = base'[t] + i - 1
  <2> DEFINE kept == Kept(evs, k)
  <2>1. /\ Len(kept) = Len(events[t]) + 1 - k /\ Len(events[t]) \in Nat
        /\ \A i \in 1 .. Len(kept) : kept[i] = base[t] + k + i - 1
        /\ events'[t] = kept /\ base'[t] = base[t] + k
        /\ base[t] \in Nat /\ k \in 0 .. Len(events[t])
    BY <1>3, <1>4, <1>5
  <2> HIDE DEF kept
  <2> QED
    BY <1>4, <2>1
<1>8. Len(sizes'[t]) = Len(events'[t])
  BY <1>3, <1>5
<1> QED
  BY <1>1, <1>2, <1>5, <1>6, <1>7, <1>8 DEF Appends

\* So is the terminal one, and the sizes are dropped (_finalize, drop_all).
LEMMA FinishAppends ==
  ASSUME BufferInv, NEW t \in Turns, NEW n \in Sizes, Finish(t, n)
  PROVE  Appends(t, TRUE)
<1>1. Live(t)
  BY DEF Finish
<1> DEFINE k   == Evicted(t, n)
           evs == Append(events[t], NextSeq(t))
<1>2. /\ events' = [events EXCEPT ![t] = Kept(evs, k)]
      /\ sizes' = [sizes EXCEPT ![t] = <<>>]
      /\ base' = [base EXCEPT ![t] = @ + k]
      /\ turnState' = [turnState EXCEPT ![t] = "final"]
      /\ closed' = [closed EXCEPT ![t] = TRUE]
  BY DEF Finish, Evicted
<1>3. /\ k \in 0 .. Len(events[t])
      /\ Kept(evs, k) \in Seq(Nat)
      /\ Len(Kept(evs, k)) = Len(events[t]) + 1 - k
      /\ \A i \in 1 .. Len(Kept(evs, k)) :
           Kept(evs, k)[i] = base[t] + k + i - 1
  BY <1>1, Appended
<1> HIDE DEF k, evs
<1>4. /\ events \in [Turns -> Seq(Nat)] /\ sizes \in [Turns -> Seq(Nat)]
      /\ base \in [Turns -> Nat] /\ NextSeq(t) = base[t] + Len(events[t])
  BY DEF BufferInv, NextSeq
<1>5. /\ events'[t] = Kept(evs, k)
      /\ base'[t] = base[t] + k
      /\ \A u \in Turns : u # t => UNCHANGED <<base[u], events[u], sizes[u]>>
  BY <1>2, <1>4
<1>6. /\ events' \in [Turns -> Seq(Nat)] /\ sizes' \in [Turns -> Seq(Nat)]
      /\ base' \in [Turns -> Nat]
  BY <1>2, <1>3, <1>4
<1>7. /\ base'[t] >= base[t]
      /\ base'[t] + Len(events'[t]) = NextSeq(t) + 1
      /\ \A i \in 1 .. Len(events'[t]) : events'[t][i] = base'[t] + i - 1
  <2> DEFINE kept == Kept(evs, k)
  <2>1. /\ Len(kept) = Len(events[t]) + 1 - k /\ Len(events[t]) \in Nat
        /\ \A i \in 1 .. Len(kept) : kept[i] = base[t] + k + i - 1
        /\ events'[t] = kept /\ base'[t] = base[t] + k
        /\ base[t] \in Nat /\ k \in 0 .. Len(events[t])
    BY <1>3, <1>4, <1>5
  <2> HIDE DEF kept
  <2> QED
    BY <1>4, <2>1
<1> QED
  BY <1>1, <1>2, <1>5, <1>6, <1>7 DEF Appends

\* Numbers only grow, and not at all once a buffer is closed.
NumbersGrow ==
  \A u \in Turns :
    /\ base'[u] >= base[u]
    /\ NextSeq(u)' \in Nat
    /\ NextSeq(u)' >= NextSeq(u)
    /\ closed[u] => closed'[u] /\ NextSeq(u)' = NextSeq(u)

\* An append keeps the buffers in shape.
LEMMA AppendKeepsShape ==
  ASSUME BufferInv, NEW t \in Turns, NEW last \in BOOLEAN, Appends(t, last)
  PROVE  BufferInv' /\ NumbersGrow
<1>1. /\ turnState' \in [Turns -> {"new", "live", "final"}]
      /\ closed' \in [Turns -> BOOLEAN]
      /\ turnState'[t] = IF last THEN "final" ELSE "live"
      /\ closed'[t] <=> last
      /\ ~closed[t] /\ base[t] \in Nat /\ Len(events[t]) \in Nat
      /\ \A u \in Turns : u # t => turnState'[u] = turnState[u] /\ closed'[u] = closed[u]
  BY DEF Appends, BufferInv, Live
<1>2. ASSUME NEW u \in Turns
      PROVE  /\ closed'[u] <=> turnState'[u] = "final"
             /\ turnState'[u] = "live" => Len(sizes'[u]) = Len(events'[u])
             /\ turnState'[u] = "new" => events'[u] = <<>> /\ sizes'[u] = <<>>
             /\ \A i \in 1 .. Len(events'[u]) : events'[u][i] = base'[u] + i - 1
  <2>1. CASE u = t
    BY <1>1, <2>1 DEF Appends
  <2>2. CASE u # t
    BY <1>1, <2>2 DEF Appends, BufferInv, Live
  <2> QED
    BY <2>1, <2>2
<1>3. BufferInv'
  BY <1>1, <1>2 DEF BufferInv, Appends, Live
<1>4. ASSUME NEW u \in Turns
      PROVE  /\ base'[u] >= base[u]
             /\ base'[u] + Len(events'[u]) >= base[u] + Len(events[u])
             /\ closed[u] => /\ closed'[u]
                             /\ base'[u] + Len(events'[u]) = base[u] + Len(events[u])
  <2>1. base[u] \in Nat /\ Len(events[u]) \in Nat
    BY DEF BufferInv
  <2>2. CASE u = t
    BY <1>1, <2>1, <2>2 DEF Appends, NextSeq
  <2>3. CASE u # t
    BY <1>1, <2>1, <2>3 DEF Appends
  <2> QED
    BY <2>2, <2>3
<1>5. ASSUME NEW u \in Turns
      PROVE  base'[u] + Len(events'[u]) \in Nat
  BY <1>3 DEF BufferInv
<1> QED
  BY <1>3, <1>4, <1>5 DEF NumbersGrow, NextSeq

\* Every step is an append, the start of a turn, or leaves the buffers alone.
LEMMA BufferSteps ==
  ASSUME BufferInv, [Next]_vars
  PROVE  BufferInv' /\ NumbersGrow
<1>1. CASE \E t \in Turns, n \in Sizes : Produce(t, n) \/ Finish(t, n)
  BY <1>1, ProduceAppends, FinishAppends, AppendKeepsShape
<1>2. CASE \E r \in Readers, t \in Turns : Start(r, t)
  <2>1. PICK t \in Turns : /\ turnState[t] = "new"
                           /\ turnState' = [turnState EXCEPT ![t] = "live"]
                           /\ UNCHANGED <<base, events, sizes, closed>>
    BY <1>2 DEF Start
  <2>2. BufferInv'
    BY <2>1 DEF BufferInv, Live
  <2>3. ASSUME NEW u \in Turns
        PROVE  base[u] \in Nat /\ Len(events[u]) \in Nat
    BY DEF BufferInv
  <2> QED
    BY <2>1, <2>2, <2>3 DEF NumbersGrow, NextSeq
<1>3. CASE UNCHANGED bufferVars
  <2>1. BufferInv'
    BY <1>3 DEF BufferInv, Live, bufferVars
  <2>2. ASSUME NEW u \in Turns
        PROVE  base[u] \in Nat /\ Len(events[u]) \in Nat
    BY DEF BufferInv
  <2> QED
    BY <1>3, <2>1, <2>2 DEF NumbersGrow, NextSeq, bufferVars
<1>4. CASE \E r \in Readers : Follow(r) \/ Disconnect(r)
  BY <1>3, <1>4 DEF Follow, Drive, Deliver, FallBehind, EndStream, Wait, Disconnect
<1>5. CASE \E r \in Readers, t \in Turns : Attach(r, t)
  BY <1>3, <1>5 DEF Attach
<1>6. CASE UNCHANGED vars
  BY <1>3, <1>6 DEF vars
<1> QED
  BY <1>1, <1>2, <1>4, <1>5, <1>6 DEF Next

\* The initial buffers are in shape.
LEMMA BufferInit ==
  Init => BufferInv
BY DEF Init, BufferInv, Live

-----------------------------------------------------------------------------
(* The consumers.                                                          *)

\* Where client r's stream is: behind what its turn has produced, having
\* delivered without a hole, and through with it when it ended.
ReaderOK(r) ==
  /\ rpc[r] # "off" => rturn[r] \in Turns
  /\ after[r].id >= -1 /\ cursor[r].id >= -1
  /\ rpc[r] = "handle" => got[r] = <<>>
  /\ rpc[r] \notin {"off", "handle"} =>
       /\ seq[r] <= NextSeq(rturn[r])
       /\ \A i \in 1 .. Len(got[r]) : got[r][i] = FirstGot(r) + i - 1
  /\ rpc[r] = "ended" => closed[rturn[r]] /\ seq[r] = NextSeq(rturn[r])

\* The types of the consumers' variables.
ReaderTypes ==
  /\ rpc \in [Readers -> ReaderStates]
  /\ rturn \in [Readers -> Turns \cup {NoTurn}]
  /\ after \in [Readers -> [turn : Turns \cup {NoTurn}, id : Int]]
  /\ seq \in [Readers -> Nat]
  /\ got \in [Readers -> Seq(Nat)]
  /\ cursor \in [Readers -> [turn : Turns \cup {NoTurn}, id : Int]]

ReaderInv == ReaderTypes /\ \A r \in Readers : ReaderOK(r)

\* The stream of a client that does not move stays where it is, whatever its
\* buffer does meanwhile (_notify only makes it runnable).
LEMMA OthersStay ==
  ASSUME BufferInv, NumbersGrow, ReaderInv, NEW q \in Readers,
         UNCHANGED <<rturn[q], after[q], seq[q], got[q], cursor[q]>>,
         rpc'[q] = rpc[q] \/ (rpc[q] = "wait" /\ rpc'[q] = "follow")
  PROVE  ReaderOK(q)'
<1>1. /\ ReaderOK(q) /\ seq[q] \in Nat
  BY DEF ReaderInv, ReaderTypes
<1>2. ASSUME rpc[q] # "off"
      PROVE  \E u \in Turns :
               /\ rturn[q] = u /\ rturn'[q] = u
               /\ NextSeq(u) \in Nat /\ NextSeq(u)' \in Nat
               /\ NextSeq(u)' >= NextSeq(u)
               /\ closed[u] => closed'[u] /\ NextSeq(u)' = NextSeq(u)
  <2>1. rturn[q] \in Turns
    BY <1>1, <1>2 DEF ReaderOK
  <2>2. \A u \in Turns : NextSeq(u) \in Nat
    BY DEF BufferInv, NextSeq
  <2> QED
    BY <2>1, <2>2 DEF NumbersGrow
<1>3. CASE rpc[q] = "off"
  BY <1>1, <1>3 DEF ReaderOK
<1>4. CASE rpc[q] # "off"
  <2>1. PICK u \in Turns :
               /\ rturn[q] = u /\ rturn'[q] = u
               /\ NextSeq(u) \in Nat /\ NextSeq(u)' \in Nat
               /\ NextSeq(u)' >= NextSeq(u)
               /\ closed[u] => closed'[u] /\ NextSeq(u)' = NextSeq(u)
    BY <1>2, <1>4
  <2>2. /\ rpc'[q] # "off"
        /\ rpc'[q] = "handle" <=> rpc[q] = "handle"
        /\ rpc'[q] = "ended" <=> rpc[q] = "ended"
    BY <1>4
  <2>3. NextSeq(rturn[q]) = NextSeq(u) /\ NextSeq(rturn[q])' = NextSeq(u)'
    BY <2>1 DEF NextSeq
  <2> QED
    BY <1>1, <2>1, <2>2, <2>3 DEF ReaderOK, FirstGot
<1> QED
  BY <1>3, <1>4

\* What a client's own step may change: nothing of another's stream.
Alone(r) ==
  /\ ReaderTypes'
  /\ \A q \in Readers : q # r =>
       UNCHANGED <<rpc[q], rturn[q], after[q], seq[q], got[q], cursor[q]>>

\* A step of one client is right if it is right for that client.
LEMMA OneMoves ==
  ASSUME BufferInv, NumbersGrow, ReaderInv, NEW r \in Readers, Alone(r), ReaderOK(r)'
  PROVE  ReaderInv'
<1>1. ASSUME NEW q \in Readers, q # r
      PROVE  ReaderOK(q)'
  BY <1>1, OthersStay DEF Alone
<1> QED
  BY <1>1 DEF ReaderInv, Alone

\* A new handle starts with nothing delivered (start, attach).
LEMMA HandleOK ==
  ASSUME BufferInv, NumbersGrow, ReaderInv, NEW r \in Readers, NEW t \in Turns,
         NEW c \in {NoCursor, cursor[r]}, Handle(r, t, c)
  PROVE  ReaderInv'
<1>1. c \in [turn : Turns \cup {NoTurn}, id : Int] /\ c.id >= -1
  BY DEF NoCursor, ReaderInv, ReaderTypes, ReaderOK
<1>2. Alone(r)
  BY <1>1 DEF Handle, Alone, ReaderInv, ReaderTypes, ReaderStates
<1>3. ReaderOK(r)'
  BY <1>1 DEF Handle, ReaderOK, ReaderInv, ReaderTypes
<1> QED
  BY <1>2, <1>3, OneMoves

\* The generator starts after the cursor, or at the head when the cursor is
\* ahead of this turn (_follow's first lines).
LEMMA DriveOK ==
  ASSUME BufferInv, NumbersGrow, ReaderInv, NEW r \in Readers, Drive(r)
  PROVE  ReaderInv'
<1>1. PICK t \in Turns : rturn[r] = t
  BY DEF Drive, ReaderInv, ReaderOK
<1>2. base[t] \in Nat /\ Len(events[t]) \in Nat /\ UNCHANGED <<base, events, closed, rturn>>
  BY DEF Drive, BufferInv, bufferVars
<1>3. /\ FirstSeq(r) \in Nat /\ FirstSeq(r) <= base[t] + Len(events[t])
  BY <1>1, <1>2 DEF FirstSeq, NextSeq, ReaderInv, ReaderTypes, ReaderOK
<1>4. /\ rpc[r] = "handle" /\ got[r] = <<>>
      /\ rpc' = [rpc EXCEPT ![r] = "follow"]
      /\ seq' = [seq EXCEPT ![r] = FirstSeq(r)]
      /\ UNCHANGED <<rturn, after, got, cursor>>
  BY DEF Drive, ReaderInv, ReaderOK
<1>5. Alone(r)
  BY <1>3, <1>4 DEF Alone, ReaderInv, ReaderTypes, ReaderStates
<1>6. ReaderOK(r)'
  BY <1>1, <1>2, <1>3, <1>4 DEF ReaderOK, ReaderInv, ReaderTypes, NextSeq
<1> QED
  BY <1>5, <1>6, OneMoves

\* The event delivered is the one the cursor stands at (_RingBuffer.get).
LEMMA DeliverOK ==
  ASSUME BufferInv, NumbersGrow, ReaderInv, NEW r \in Readers, Deliver(r)
  PROVE  ReaderInv'
<1>1. PICK t \in Turns : rturn[r] = t
  BY DEF Deliver, ReaderInv, ReaderOK
<1>2. /\ base[t] \in Nat /\ Len(events[t]) \in Nat
      /\ seq[r] \in Nat /\ got[r] \in Seq(Nat) /\ Len(got[r]) \in Nat
      /\ UNCHANGED <<base, events, closed, rturn, rpc, after>>
      /\ rpc[r] = "follow" /\ seq[r] >= base[t] /\ seq[r] < base[t] + Len(events[t])
  BY <1>1 DEF Deliver, BufferInv, bufferVars, NextSeq, ReaderInv, ReaderTypes
<1>3. EventAt(t, seq[r]) = seq[r]
  <2> DEFINE i == (seq[r] - base[t]) + 1
  <2>1. i \in 1 .. Len(events[t])
    BY <1>2
  <2>2. events[t][i] = base[t] + i - 1
    BY <2>1 DEF BufferInv
  <2> QED
    BY <1>2, <2>2 DEF EventAt
<1>4. /\ got' = [got EXCEPT ![r] = Append(got[r], seq[r])]
      /\ cursor' = [cursor EXCEPT ![r] = [turn |-> t, id |-> seq[r]]]
      /\ seq' = [seq EXCEPT ![r] = seq[r] + 1]
  BY <1>1, <1>3 DEF Deliver, ReaderInv, ReaderTypes
<1>5. Alone(r)
  BY <1>1, <1>2, <1>4 DEF Alone, ReaderInv, ReaderTypes
<1>6. ASSUME NEW i \in 1 .. Len(got'[r])
      PROVE  got'[r][i] = seq'[r] - Len(got'[r]) + i - 1
  <2>1. got'[r] = Append(got[r], seq[r]) /\ seq'[r] = seq[r] + 1
    BY <1>4 DEF ReaderInv, ReaderTypes
  <2>2. \A j \in 1 .. Len(got[r]) : got[r][j] = seq[r] - Len(got[r]) + j - 1
    BY <1>2 DEF ReaderInv, ReaderOK, FirstGot
  <2> DEFINE g == got[r]
             n == Len(got[r])
             v == seq[r]
  <2>3. /\ g \in Seq(Nat) /\ n \in Nat /\ v \in Nat /\ n = Len(g)
        /\ Len(got'[r]) = n + 1
        /\ \A j \in 1 .. n : got'[r][j] = g[j]
        /\ got'[r][n + 1] = v
    BY <1>2, <2>1
  <2>4. CASE i = n + 1
    <3> HIDE DEF g, n, v
    <3>1. seq'[r] = v + 1
      BY <2>1 DEF v
    <3> QED
      BY <2>3, <2>4, <3>1
  <2>5. CASE i \in 1 .. n
    <3>1. got'[r][i] = v - n + i - 1
      BY <2>2, <2>3, <2>5
    <3> HIDE DEF g, n, v
    <3>2. seq'[r] = v + 1
      BY <2>1 DEF v
    <3> QED
      BY <2>3, <2>5, <3>1, <3>2
  <2> QED
    BY <2>3, <2>4, <2>5
<1>7. ReaderOK(r)'
  BY <1>1, <1>2, <1>4, <1>6 DEF ReaderOK, ReaderInv, ReaderTypes, NextSeq, FirstGot
<1> QED
  BY <1>5, <1>7, OneMoves

\* The steps that only end a stream or suspend it.
LEMMA StopOK ==
  ASSUME BufferInv, NumbersGrow, ReaderInv, NEW r \in Readers,
         FallBehind(r) \/ EndStream(r) \/ Wait(r) \/ Disconnect(r)
  PROVE  ReaderInv'
<1>1. PICK t \in Turns : rturn[r] = t
  BY DEF FallBehind, EndStream, Wait, Disconnect, ReaderInv, ReaderOK
<1>2. /\ base[t] \in Nat /\ Len(events[t]) \in Nat
      /\ seq[r] \in Nat /\ got[r] \in Seq(Nat)
      /\ UNCHANGED <<base, events, closed, rturn, after, seq, got>>
  BY DEF FallBehind, EndStream, Wait, Disconnect, BufferInv, bufferVars,
         ReaderInv, ReaderTypes
<1>3. /\ cursor' \in [Readers -> [turn : Turns \cup {NoTurn}, id : Int]]
      /\ cursor'[r].id >= -1
      /\ \A q \in Readers : q # r => cursor'[q] = cursor[q]
  <2>1. /\ cursor \in [Readers -> [turn : Turns \cup {NoTurn}, id : Int]]
        /\ cursor[r].id >= -1
    BY DEF ReaderInv, ReaderTypes, ReaderOK
  <2>2. CASE UNCHANGED cursor
    BY <2>1, <2>2
  <2>3. CASE FallBehind(r)
    <3>1. cursor' = [cursor EXCEPT ![r] = [turn |-> t, id |-> base[t] - 1]]
      BY <1>1, <2>3 DEF FallBehind
    <3> QED
      BY <1>2, <2>1, <3>1
  <2> QED
    BY <2>2, <2>3 DEF EndStream, Wait, Disconnect
<1>4. /\ rpc[r] \in {"handle", "follow", "wait"}
      /\ \E pc \in {"off", "wait", "behind", "ended"} :
           /\ rpc' = [rpc EXCEPT ![r] = pc]
           /\ pc # "off" => rpc[r] = "follow"
           /\ pc = "ended" => closed[t] /\ seq[r] >= base[t] + Len(events[t])
  BY <1>1 DEF FallBehind, EndStream, Wait, Disconnect, CaughtUp, NextSeq
<1>5. Alone(r)
  BY <1>2, <1>3, <1>4 DEF Alone, ReaderInv, ReaderTypes, ReaderStates
<1>6. ReaderOK(r)'
  <2>1. ReaderOK(r) /\ after[r].id >= -1
    BY DEF ReaderInv, ReaderOK
  <2>2. PICK pc \in {"off", "wait", "behind", "ended"} :
           /\ rpc'[r] = pc
           /\ pc # "off" => rpc[r] = "follow"
           /\ pc = "ended" => closed[t] /\ seq[r] >= base[t] + Len(events[t])
    BY <1>4 DEF ReaderInv, ReaderTypes
  <2>3. NextSeq(rturn[r])' = NextSeq(t) /\ NextSeq(t) = base[t] + Len(events[t])
    BY <1>1, <1>2 DEF NextSeq
  <2>4. FirstGot(r)' = FirstGot(r) /\ NextSeq(rturn[r]) = NextSeq(t)
    BY <1>1, <1>2 DEF FirstGot
  <2>5. CASE pc = "off"
    BY <1>2, <1>3, <2>1, <2>2, <2>5 DEF ReaderOK
  <2>6. CASE pc # "off"
    <3>1. /\ seq[r] <= NextSeq(t)
          /\ \A i \in 1 .. Len(got[r]) : got[r][i] = FirstGot(r) + i - 1
      BY <2>1, <2>2, <2>4, <2>6 DEF ReaderOK
    <3>2. pc = "ended" => closed[t] /\ seq[r] = NextSeq(t)
      <4>1. seq[r] >= base[t] + Len(events[t]) => seq[r] = NextSeq(t)
        BY <1>2, <2>3, <3>1
      <4> QED
        BY <2>2, <4>1, Zenon
    <3> QED
      BY <1>1, <1>2, <1>3, <2>1, <2>2, <2>3, <2>4, <2>6, <3>1, <3>2 DEF ReaderOK
  <2> QED
    BY <2>5, <2>6
<1> QED
  BY <1>5, <1>6, OneMoves

\* A notification makes the waiting consumers of one buffer runnable.
LEMMA NotifyOK ==
  ASSUME BufferInv, NumbersGrow, ReaderInv, NEW t \in Turns, Notify(t),
         UNCHANGED <<rturn, after, seq, got, cursor>>
  PROVE  ReaderInv'
<1>1. ReaderTypes'
  BY DEF Notify, ReaderInv, ReaderTypes, ReaderStates
<1>2. ASSUME NEW q \in Readers
      PROVE  ReaderOK(q)'
  <2>1. rpc'[q] = rpc[q] \/ (rpc[q] = "wait" /\ rpc'[q] = "follow")
    BY DEF Notify
  <2> QED
    BY <2>1, OthersStay
<1> QED
  BY <1>1, <1>2 DEF ReaderInv

\* Every step keeps every stream right.
LEMMA ReaderSteps ==
  ASSUME BufferInv, ReaderInv, [Next]_vars
  PROVE  ReaderInv'
<1>1. NumbersGrow
  BY BufferSteps
<1>2. CASE \E r \in Readers, t \in Turns : Start(r, t) \/ Attach(r, t)
  BY <1>1, <1>2, HandleOK DEF Start, Attach
<1>3. CASE \E t \in Turns, n \in Sizes : Produce(t, n) \/ Finish(t, n)
  BY <1>1, <1>3, NotifyOK DEF Produce, Finish
<1>4. CASE \E r \in Readers : Follow(r) \/ Disconnect(r)
  BY <1>1, <1>4, DriveOK, DeliverOK, StopOK DEF Follow
<1>5. CASE UNCHANGED vars
  BY <1>5 DEF vars, bufferVars, readerVars, ReaderInv, ReaderTypes, ReaderOK, NextSeq, FirstGot
<1> QED
  BY <1>2, <1>3, <1>4, <1>5 DEF Next

\* No stream is there at the start.
LEMMA ReaderInit == Init => ReaderInv
BY DEF Init, ReaderInv, ReaderTypes, ReaderStates, ReaderOK, NoCursor

-----------------------------------------------------------------------------
(* The consumer slots.                                                     *)

\* The streams of turn t that are being iterated.
Iterated(t) == {r \in Readers : Driven(r) /\ rturn[r] = t}

\* The consumer count of a turn is exact, and finite.
SlotInv ==
  /\ consumers \in [Turns -> Int]
  /\ \A t \in Turns : /\ IsFiniteSet(Iterated(t))
                       /\ consumers[t] = Cardinality(Iterated(t))

\* The generator's first iteration takes one slot (_follow).
LEMMA DriveTakesSlot ==
  ASSUME ReaderInv, SlotInv, NEW r \in Readers, Drive(r)
  PROVE  SlotInv'
<1>1. PICK t \in Turns : rturn[r] = t
  BY DEF Drive, ReaderInv, ReaderOK
<1>2. consumers' = [consumers EXCEPT ![t] = @ + 1] /\ UNCHANGED rturn
  BY <1>1 DEF Drive
<1>3. /\ ~Driven(r) /\ Driven(r)'
      /\ \A q \in Readers : q # r => Driven(q)' = Driven(q)
  BY DEF Drive, Driven, ReaderInv, ReaderTypes
<1>4. Iterated(t)' = Iterated(t) \cup {r} /\ r \notin Iterated(t)
  BY <1>1, <1>2, <1>3 DEF Iterated
<1>5. \A u \in Turns : u # t => Iterated(u)' = Iterated(u)
  BY <1>1, <1>2, <1>3 DEF Iterated
<1>6. IsFiniteSet(Iterated(t)') /\ Cardinality(Iterated(t)') = consumers[t] + 1
  BY <1>4, FS_AddElement DEF SlotInv
<1> QED
  BY <1>2, <1>5, <1>6 DEF SlotInv

\* The generator's finally gives it back.
LEMMA StopGivesSlot ==
  ASSUME ReaderInv, SlotInv, NEW r \in Readers,
         FallBehind(r) \/ EndStream(r) \/ (Disconnect(r) /\ rpc[r] # "handle")
  PROVE  SlotInv'
<1>1. PICK t \in Turns : rturn[r] = t
  BY DEF FallBehind, EndStream, Disconnect, ReaderInv, ReaderOK
<1>2. consumers' = [consumers EXCEPT ![t] = @ - 1] /\ UNCHANGED rturn
  BY <1>1 DEF FallBehind, EndStream, Disconnect, Release
<1>3. /\ Driven(r) /\ ~Driven(r)'
      /\ \A q \in Readers : q # r => Driven(q)' = Driven(q)
  BY DEF FallBehind, EndStream, Disconnect, Driven, ReaderInv, ReaderTypes
<1>4. Iterated(t)' = Iterated(t) \ {r} /\ r \in Iterated(t)
  BY <1>1, <1>2, <1>3 DEF Iterated
<1>5. \A u \in Turns : u # t => Iterated(u)' = Iterated(u)
  BY <1>1, <1>2, <1>3 DEF Iterated
<1>6. IsFiniteSet(Iterated(t)') /\ Cardinality(Iterated(t)') = consumers[t] - 1
  BY <1>4, FS_RemoveElement DEF SlotInv
<1> QED
  BY <1>2, <1>5, <1>6 DEF SlotInv

\* Nothing else does: an undriven handle holds no slot, and a consumer that
\* waits keeps its own.
LEMMA OthersKeepSlots ==
  ASSUME SlotInv, UNCHANGED consumers,
         \A q \in Readers : Driven(q)' = Driven(q) /\ (Driven(q) => rturn'[q] = rturn[q])
  PROVE  SlotInv'
<1>1. \A t \in Turns : Iterated(t)' = Iterated(t)
  BY DEF Iterated
<1> QED
  BY <1>1 DEF SlotInv

\* Every step keeps the consumer counts exact.
LEMMA SlotSteps ==
  ASSUME ReaderInv, SlotInv, [Next]_vars
  PROVE  SlotInv'
<1>1. CASE \E r \in Readers, t \in Turns : Start(r, t) \/ Attach(r, t)
  <2>1. PICK r \in Readers, t \in Turns : \E c : Detached(r) /\ Handle(r, t, c) /\ UNCHANGED consumers
    BY <1>1 DEF Start, Attach
  <2> QED
    BY <2>1, OthersKeepSlots DEF Detached, Handle, Driven, ReaderInv, ReaderTypes
<1>2. CASE \E t \in Turns, n \in Sizes : Produce(t, n) \/ Finish(t, n)
  <2>1. PICK t \in Turns : Notify(t) /\ UNCHANGED <<rturn, consumers>>
    BY <1>2 DEF Produce, Finish
  <2> QED
    BY <2>1, OthersKeepSlots DEF Notify, Driven
<1>3. CASE \E r \in Readers : Drive(r)
  BY <1>3, DriveTakesSlot
<1>4. CASE \E r \in Readers : Deliver(r) \/ Wait(r) \/ (Disconnect(r) /\ rpc[r] = "handle")
  BY <1>4, OthersKeepSlots DEF Deliver, Wait, Disconnect, Driven, ReaderInv, ReaderTypes
<1>5. CASE \E r \in Readers : FallBehind(r) \/ EndStream(r)
                               \/ (Disconnect(r) /\ rpc[r] # "handle")
  BY <1>5, StopGivesSlot
<1>6. CASE UNCHANGED vars
  BY <1>6, OthersKeepSlots DEF vars, readerVars, Driven
<1> QED
  BY <1>1, <1>2, <1>3, <1>4, <1>5, <1>6 DEF Next, Follow

-----------------------------------------------------------------------------
(* The byte budget.                                                        *)

\* The bytes each turn's buffer holds, and those of its newest event.
Held == [t \in Turns |-> SumSeq(sizes[t])]
Heads == [t \in Turns |-> Newest(sizes[t])]

\* The total is what the live buffers hold, and bounded.
BudgetInv ==
  /\ IsFiniteSet(LiveTurns)
  /\ used \in Nat
  /\ BudgetExact
  /\ OvershootBounded

\* The newest event is part of what a buffer holds.
LEMMA NewestIsHeld ==
  ASSUME NEW szs \in Seq(Nat)
  PROVE  Newest(szs) \in Nat /\ SumSeq(szs) \in Nat /\ Newest(szs) <= SumSeq(szs)
<1>1. SumSeq(szs) \in Nat
  BY SeqSumType DEF SumSeq
<1>2. CASE szs = <<>>
  BY <1>1, <1>2 DEF Newest
<1>3. CASE szs # <<>>
  <2> DEFINE m == Len(szs)
             D == 1 .. m
  <2>1. m \in Nat /\ m # 0 /\ DOMAIN szs = D /\ m \in D /\ \A i \in D : szs[i] \in Nat
    BY <1>3
  <2>2. Newest(szs) = szs[m]
    BY <1>3 DEF Newest, Last
  <2> HIDE DEF m
  <2>3. IsFiniteSet(D) /\ IsFiniteSet(D \ {m})
    <3>1. IsFiniteSet(D)
      BY <2>1, FS_Interval
    <3> QED
      BY <3>1, FS_RemoveElement
  <2>4. SumFunctionOnSet(szs, D) = szs[m] + SumFunctionOnSet(szs, D \ {m})
    BY <2>1, <2>3, SumSplit
  <2>5. SumFunctionOnSet(szs, D \ {m}) \in Nat
    BY <2>1, <2>3, SumOfNaturals
  <2>6. SumSeq(szs) = SumFunctionOnSet(szs, D)
    BY <2>1 DEF SumSeq, SumFunction
  <2>7. szs[m] \in Nat
    BY <2>1
  <2> QED
    BY <1>1, <2>2, <2>4, <2>5, <2>6, <2>7
<1> QED
  BY <1>2, <1>3

\* What each turn's buffer holds, and its newest event, are naturals.
LEMMA Weights ==
  ASSUME BufferInv, NEW t \in Turns
  PROVE  Held[t] \in Nat /\ Heads[t] \in Nat /\ Heads[t] <= Held[t]
BY NewestIsHeld DEF Held, Heads, BufferInv

\* The bytes of the other buffers are within the budget but for their newest
\* events.
LEMMA OtherBuffers ==
  ASSUME BufferInv, BudgetInv, NEW t \in LiveTurns
  PROVE  LET R == LiveTurns \ {t}
         IN  /\ IsFiniteSet(R)
             /\ SumFunctionOnSet(Held, R) \in Nat
             /\ SumFunctionOnSet(Heads, R) \in Nat
             /\ used = Held[t] + SumFunctionOnSet(Held, R)
             /\ SumFunctionOnSet(Held, R) <= Budget + SumFunctionOnSet(Heads, R)
<1> DEFINE R == LiveTurns \ {t}
           rest == SumFunctionOnSet(Held, R)
           tops == SumFunctionOnSet(Heads, R)
<1>1. /\ IsFiniteSet(LiveTurns) /\ t \in Turns
      /\ \A u \in LiveTurns : Held[u] \in Nat /\ Heads[u] \in Nat
  BY Weights DEF BudgetInv, LiveTurns
<1>2. IsFiniteSet(R) /\ \A u \in R : Held[u] \in Nat /\ Heads[u] \in Nat
  BY <1>1, FS_RemoveElement
<1>3. rest \in Nat /\ tops \in Nat
  BY <1>2, SumOfNaturals
<1>4. SumFunctionOnSet(Held, LiveTurns) = Held[t] + rest
  BY <1>1, SumSplit
<1>5. SumFunctionOnSet(Heads, LiveTurns) = Heads[t] + tops
  BY <1>1, SumSplit
<1>6. used = Held[t] + rest
  BY <1>4 DEF BudgetInv, BudgetExact, Held
<1>7. used <= Budget + (Heads[t] + tops)
  BY <1>5 DEF BudgetInv, OvershootBounded, Heads
<1>8. Held[t] \in Nat /\ Heads[t] \in Nat /\ Heads[t] <= Held[t] /\ Budget \in Nat
  BY <1>1, Weights, StreamAssumption
<1> HIDE DEF rest, tops, R
<1>9. rest <= Budget + tops
  BY <1>3, <1>6, <1>7, <1>8
<1> QED
  BY <1>2, <1>3, <1>6, <1>9 DEF rest, tops, R

\* A step that leaves the other buffers alone leaves their sums alone.
LEMMA OtherSums ==
  ASSUME BufferInv, NEW R \in SUBSET Turns, IsFiniteSet(R),
         \A u \in R : sizes'[u] = sizes[u]
  PROVE  /\ SumFunctionOnSet(Held', R) = SumFunctionOnSet(Held, R)
         /\ SumFunctionOnSet(Heads', R) = SumFunctionOnSet(Heads, R)
<1>1. \A u \in R : /\ Held[u] \in Int /\ Held'[u] = Held[u]
                   /\ Heads[u] \in Int /\ Heads'[u] = Heads[u]
  <2> TAKE u \in R
  <2>1. Held[u] \in Int /\ Heads[u] \in Int
    BY Weights
  <2>2. Held'[u] = Held[u] /\ Heads'[u] = Heads[u]
    BY DEF Held, Heads
  <2> QED
    BY <2>1, <2>2
<1> HIDE DEF Held, Heads
<1> QED
  BY <1>1, SumSame

\* A turn starts with nothing charged (start).
LEMMA StartCharges ==
  ASSUME BufferInv, BudgetInv, NEW r \in Readers, NEW t \in Turns, Start(r, t)
  PROVE  BudgetInv'
<1>1. /\ turnState[t] = "new" /\ turnState' = [turnState EXCEPT ![t] = "live"]
      /\ UNCHANGED <<sizes, used>> /\ sizes[t] = <<>>
  BY DEF Start, BufferInv
<1>2. LiveTurns' = LiveTurns \cup {t} /\ t \notin LiveTurns
  BY <1>1 DEF LiveTurns, Live, BufferInv
<1>3. /\ IsFiniteSet(LiveTurns \cup {t}) /\ (LiveTurns \cup {t}) \ {t} = LiveTurns
      /\ t \in LiveTurns \cup {t}
  BY <1>2, FS_AddElement DEF BudgetInv
<1>4. \A u \in LiveTurns \cup {t} : Held[u] \in Int /\ Heads[u] \in Int
  BY Weights DEF LiveTurns
<1>5. Held[t] = 0 /\ Heads[t] = 0
  BY <1>1, SeqSumEmpty DEF Held, Heads, SumSeq, Newest
<1>6. /\ SumFunctionOnSet(Held, LiveTurns \cup {t}) = 0 + SumFunctionOnSet(Held, LiveTurns)
      /\ SumFunctionOnSet(Heads, LiveTurns \cup {t}) = 0 + SumFunctionOnSet(Heads, LiveTurns)
  BY <1>3, <1>4, <1>5, SumSplit
<1>7. SumFunctionOnSet(Held, LiveTurns) \in Int /\ SumFunctionOnSet(Heads, LiveTurns) \in Int
  BY <1>4, SumType DEF BudgetInv
<1>8. Held' = Held /\ Heads' = Heads
  BY <1>1 DEF Held, Heads
<1>9. /\ used = SumFunctionOnSet(Held, LiveTurns)
      /\ used <= Budget + SumFunctionOnSet(Heads, LiveTurns) /\ used \in Nat
  BY DEF BudgetInv, BudgetExact, OvershootBounded, Held, Heads
<1>10. /\ used' = SumFunctionOnSet(Held', LiveTurns')
       /\ used' <= Budget + SumFunctionOnSet(Heads', LiveTurns')
  BY <1>1, <1>2, <1>6, <1>7, <1>8, <1>9
<1> QED
  BY <1>1, <1>2, <1>3, <1>9, <1>10
     DEF BudgetInv, BudgetExact, OvershootBounded, Held, Heads

\* append evicts until the total fits, or down to the event it appends.
LEMMA EvictionsFit ==
  ASSUME NEW szs, Len(szs) \in Nat \ {0}, NEW total,
         NEW k, k = Evictions(szs, total)
  PROVE  total - SumSeq(SubSeq(szs, 1, k)) <= Budget \/ k = Len(szs) - 1
<1> DEFINE ok == {i \in 0 .. Len(szs) - 1 :
                    /\ Len(szs) - i <= MaxSize
                    /\ total - SumSeq(SubSeq(szs, 1, i)) <= Budget}
<1>1. Evictions(szs, total) = IF ok = {} THEN Len(szs) - 1 ELSE Min(ok)
  BY DEF Evictions
<1>2. ok \subseteq Nat
  OBVIOUS
<1>3. \A i \in ok : total - SumSeq(SubSeq(szs, 1, i)) <= Budget
  OBVIOUS
<1> HIDE DEF ok
<1>4. CASE ok # {}
  <2>1. Min(ok) \in ok
    BY <1>2, <1>4, MinOfNaturals
  <2> QED
    BY <1>1, <1>3, <1>4, <2>1
<1> QED
  BY <1>1, <1>4

\* What append evicts and what it keeps are together what it found and the new
\* event, and the newest event is kept.
LEMMA PushedSums ==
  ASSUME NEW s \in Seq(Nat), NEW n \in Nat, NEW k \in 0 .. Len(s)
  PROVE  LET a == Append(s, n)
             dropped == SumSeq(SubSeq(a, 1, k))
             kept == SumSeq(Kept(a, k))
         IN  /\ dropped \in Nat /\ kept \in Nat
             /\ SumSeq(s) + n = dropped + kept
             /\ Newest(Kept(a, k)) = n
             /\ k = Len(s) => kept = n
<1> DEFINE a == Append(s, n)
           pre == SubSeq(a, 1, k)
           rem == Kept(a, k)
<1>1. a \in Seq(Nat) /\ Len(a) = Len(s) + 1 /\ a[Len(a)] = n
  OBVIOUS
<1>2. k \in 0 .. Len(a) /\ k \in Nat /\ k <= Len(a) /\ Len(s) \in Nat
  BY <1>1
<1>3. SumSeq(a) = SumSeq(s) + n
  BY SeqSumAppend DEF SumSeq
<1> HIDE DEF a
<1>4. SumSeq(a) = SumSeq(pre) + SumSeq(rem)
  BY <1>1, <1>2, SeqSumSplit DEF SumSeq, Kept
<1>5. pre \in Seq(Nat)
  BY <1>1, <1>2
<1>6. /\ rem \in Seq(Nat) /\ Len(rem) = Len(a) - k
      /\ \A i \in 1 .. Len(a) - k : rem[i] = a[k + i]
  BY <1>1, <1>2, Suffix
<1> HIDE DEF pre, rem
<1>7. SumSeq(pre) \in Nat /\ SumSeq(rem) \in Nat /\ SumSeq(s) \in Nat
  BY <1>5, <1>6, SeqSumType DEF SumSeq
<1>8. Len(rem) \in Nat \ {0} /\ rem[Len(rem)] = n
  <2>1. Len(rem) \in 1 .. Len(a) - k /\ k + Len(rem) = Len(a) /\ Len(rem) \in Nat \ {0}
    BY <1>1, <1>2, <1>6
  <2>2. rem[Len(rem)] = a[k + Len(rem)]
    BY <1>6, <2>1
  <2> QED
    BY <1>1, <2>1, <2>2
<1>9. Newest(rem) = n
  BY <1>6, <1>8 DEF Newest, Last
<1>10. ASSUME k = Len(s) PROVE SumSeq(rem) = n
  <2>1. pre = s
    BY <1>10 DEF pre, a
  <2> QED
    BY <1>3, <1>4, <1>7, <2>1
<1> QED
  BY <1>3, <1>4, <1>7, <1>9, <1>10 DEF pre, rem, a

\* No refund is clamped at zero when the total covers it (_refund_bytes).
LEMMA RefundedExactly ==
  ASSUME NEW total \in Int, NEW n \in Int, n <= total
  PROVE  Refunded(total, n) = total - n
BY DEF Refunded

\* An appended event is charged, what it evicts is refunded, and the total
\* fits unless this buffer has nothing but the new event left (append).
LEMMA ProduceCharges ==
  ASSUME BufferInv, BudgetInv, NEW t \in Turns, NEW n \in Sizes, Produce(t, n)
  PROVE  BudgetInv'
<1> DEFINE s == sizes[t]
           a == Append(s, n)
           k == Evictions(a, used + n)
           R == LiveTurns \ {t}
           rest == SumFunctionOnSet(Held, R)
           tops == SumFunctionOnSet(Heads, R)
           P == SumSeq(SubSeq(a, 1, k))
           K == SumSeq(Kept(a, k))
<1>1. /\ t \in LiveTurns /\ s \in Seq(Nat) /\ n \in Nat /\ Budget \in Nat
      /\ sizes \in [Turns -> Seq(Nat)] /\ UNCHANGED turnState
  BY StreamAssumption DEF Produce, LiveTurns, BufferInv
<1>2. sizes' = [sizes EXCEPT ![t] = Kept(a, k)] /\ used' = Refunded(used + n, P)
  BY DEF Produce, Push
<1>3. /\ IsFiniteSet(R) /\ rest \in Nat /\ tops \in Nat
      /\ used = Held[t] + rest /\ rest <= Budget + tops
  BY <1>1, OtherBuffers
<1>4. Len(a) \in Nat \ {0} /\ Len(a) - 1 = Len(s)
  BY <1>1
<1>5. k \in 0 .. Len(s) /\ ((used + n) - P <= Budget \/ k = Len(s))
  <2> HIDE DEF a, s
  <2>1. k \in 0 .. Len(a) - 1
    BY <1>4, EvictionsRange
  <2>2. (used + n) - P <= Budget \/ k = Len(a) - 1
    <3>1. k = Evictions(a, used + n)
      OBVIOUS
    <3> HIDE DEF k
    <3>2. \A total : k = Evictions(a, total) =>
            total - SumSeq(SubSeq(a, 1, k)) <= Budget \/ k = Len(a) - 1
      BY <1>4, EvictionsFit
    <3> QED
      BY <3>1, <3>2
  <2> QED
    BY <1>4, <2>1, <2>2
<1>6. /\ P \in Nat /\ K \in Nat /\ SumSeq(s) + n = P + K
      /\ Newest(Kept(a, k)) = n /\ (k = Len(s) => K = n)
  <2> HIDE DEF k
  <2> QED
    BY <1>1, <1>5, PushedSums
<1>7. Held[t] = SumSeq(s) /\ SumSeq(s) \in Nat
  BY <1>1, SeqSumType DEF Held, SumSeq
<1> HIDE DEF s, a, k, P
<1>8. Held'[t] = K /\ Heads'[t] = n
  BY <1>1, <1>2, <1>6 DEF Held, Heads
<1>9. LiveTurns' = LiveTurns
  BY <1>1 DEF LiveTurns, Live
<1>10. SumFunctionOnSet(Held', R) = rest /\ SumFunctionOnSet(Heads', R) = tops
  <2>1. \A u \in R : sizes'[u] = sizes[u]
    BY <1>1, <1>2
  <2>2. R \in SUBSET Turns
    BY DEF LiveTurns
  <2> QED
    BY <1>3, <2>1, <2>2, OtherSums
<1>11. \A u \in LiveTurns : Held'[u] \in Int /\ Heads'[u] \in Int
  <2> TAKE u \in LiveTurns
  <2>1. CASE u = t
    BY <1>1, <1>6, <1>8, <2>1
  <2>2. CASE u # t
    <3>1. u \in Turns /\ sizes'[u] = sizes[u]
      BY <1>1, <1>2, <2>2 DEF LiveTurns
    <3>2. Held'[u] = Held[u] /\ Heads'[u] = Heads[u]
      BY <3>1 DEF Held, Heads
    <3> QED
      BY <3>1, <3>2, Weights
  <2> QED
    BY <2>1, <2>2
<1>12. /\ SumFunctionOnSet(Held', LiveTurns) = Held'[t] + SumFunctionOnSet(Held', R)
       /\ SumFunctionOnSet(Heads', LiveTurns) = Heads'[t] + SumFunctionOnSet(Heads', R)
  <2>1. IsFiniteSet(LiveTurns)
    BY DEF BudgetInv
  <2> QED
    BY <1>1, <1>11, <2>1, SumSplit
<1> HIDE DEF rest, tops, R, K
<1>13. used \in Nat
  BY DEF BudgetInv
<1>14. used' = K + rest
  <2>1. (used + n) - P = K + rest /\ P <= used + n /\ used + n \in Int /\ P \in Int
    <3>1. /\ n \in Nat /\ P \in Nat /\ K \in Nat /\ rest \in Nat /\ Held[t] \in Nat
          /\ used = Held[t] + rest /\ Held[t] + n = P + K
      BY <1>1, <1>3, <1>6, <1>7
    <3>2. \A h, p, c, x, m \in Nat :
            h + m = p + c => ((h + x) + m) - p = c + x /\ p <= (h + x) + m
      OBVIOUS
    <3> QED
      BY <3>1, <3>2
  <2>2. Refunded(used + n, P) = (used + n) - P
    BY <2>1, RefundedExactly
  <2> QED
    BY <1>2, <2>1, <2>2
<1>15. used' <= Budget + (n + tops)
  <2>1. CASE (used + n) - P <= Budget
    BY <1>1, <1>3, <1>6, <1>7, <1>13, <1>14, <2>1
  <2>2. CASE k = Len(s)
    BY <1>1, <1>3, <1>6, <1>14, <2>2
  <2> QED
    BY <1>5, <2>1, <2>2
<1>16. used' \in Nat
  BY <1>3, <1>6, <1>14
<1>17. /\ used' = SumFunctionOnSet(Held', LiveTurns')
       /\ used' <= Budget + SumFunctionOnSet(Heads', LiveTurns')
  BY <1>8, <1>9, <1>10, <1>12, <1>14, <1>15
<1>18. IsFiniteSet(LiveTurns')
  BY <1>9 DEF BudgetInv
<1> QED
  BY <1>16, <1>17, <1>18 DEF BudgetInv, BudgetExact, OvershootBounded, Held, Heads

\* The terminal event's step refunds everything its buffer was charged
\* (_finalize, drop_all).
LEMMA FinishRefunds ==
  ASSUME BufferInv, BudgetInv, NEW t \in Turns, NEW n \in Sizes, Finish(t, n)
  PROVE  BudgetInv'
<1> DEFINE R == LiveTurns \ {t}
           rest == SumFunctionOnSet(Held, R)
           tops == SumFunctionOnSet(Heads, R)
<1>1. /\ t \in LiveTurns /\ sizes[t] \in Seq(Nat) /\ n \in Nat /\ Budget \in Nat
      /\ sizes \in [Turns -> Seq(Nat)] /\ used \in Nat
  BY StreamAssumption DEF Finish, LiveTurns, BufferInv, BudgetInv
<1>2. /\ sizes' = [sizes EXCEPT ![t] = <<>>]
      /\ used' = Refunded(used + n, SumSeq(Append(sizes[t], n)))
      /\ turnState' = [turnState EXCEPT ![t] = "final"]
  BY DEF Finish
<1>3. /\ IsFiniteSet(R) /\ rest \in Nat /\ tops \in Nat
      /\ used = Held[t] + rest /\ rest <= Budget + tops
  BY <1>1, OtherBuffers
<1>4. SumSeq(Append(sizes[t], n)) = Held[t] + n /\ Held[t] \in Nat
  <2>1. SumSeq(sizes[t]) \in Nat /\ Held[t] = SumSeq(sizes[t])
    BY <1>1, SeqSumType DEF Held, SumSeq
  <2>2. SumSeq(Append(sizes[t], n)) = SumSeq(sizes[t]) + n
    BY <1>1, SeqSumAppend DEF SumSeq
  <2> QED
    BY <2>1, <2>2
<1>5. LiveTurns' = R
  BY <1>2 DEF LiveTurns, Live, BufferInv
<1>6. SumFunctionOnSet(Held', R) = rest /\ SumFunctionOnSet(Heads', R) = tops
  <2>1. \A u \in R : sizes'[u] = sizes[u]
    BY <1>1, <1>2
  <2>2. R \in SUBSET Turns
    BY DEF LiveTurns
  <2> QED
    BY <1>3, <2>1, <2>2, OtherSums
<1> HIDE DEF rest, tops, R
<1>7. used' = rest
  <2> DEFINE whole == Held[t] + n
  <2>1. (used + n) - whole = rest /\ whole <= used + n /\ used + n \in Int /\ whole \in Int
    <3>1. /\ n \in Nat /\ rest \in Nat /\ Held[t] \in Nat /\ used = Held[t] + rest
      BY <1>1, <1>3, <1>4
    <3> QED
      BY <3>1
  <2>2. used' = Refunded(used + n, whole)
    BY <1>2, <1>4
  <2> HIDE DEF whole
  <2>3. Refunded(used + n, whole) = (used + n) - whole
    BY <2>1, RefundedExactly
  <2> QED
    BY <2>1, <2>2, <2>3
<1>8. /\ used' = SumFunctionOnSet(Held', LiveTurns')
      /\ used' <= Budget + SumFunctionOnSet(Heads', LiveTurns')
      /\ used' \in Nat /\ IsFiniteSet(LiveTurns')
  BY <1>3, <1>5, <1>6, <1>7
<1> QED
  BY <1>8 DEF BudgetInv, BudgetExact, OvershootBounded, Held, Heads

\* No step of a consumer touches the accounts of the bytes.
LEMMA BudgetSteps ==
  ASSUME BufferInv, BudgetInv, [Next]_vars
  PROVE  BudgetInv'
<1>1. CASE \E r \in Readers, t \in Turns : Start(r, t)
  BY <1>1, StartCharges
<1>2. CASE \E t \in Turns, n \in Sizes : Produce(t, n)
  BY <1>2, ProduceCharges
<1>3. CASE \E t \in Turns, n \in Sizes : Finish(t, n)
  BY <1>3, FinishRefunds
<1>4. CASE UNCHANGED <<turnState, sizes, used>>
  <2>1. LiveTurns' = LiveTurns
    BY <1>4 DEF LiveTurns, Live
  <2> QED
    BY <1>4, <2>1 DEF BudgetInv, BudgetExact, OvershootBounded
<1>5. ASSUME NEW r \in Readers, Follow(r) \/ Disconnect(r)
      PROVE  UNCHANGED <<turnState, sizes, used>>
  BY <1>5 DEF Follow, Drive, Deliver, FallBehind, EndStream, Wait, Disconnect, bufferVars
<1>6. ASSUME NEW r \in Readers, NEW t \in Turns, Attach(r, t)
      PROVE  UNCHANGED <<turnState, sizes, used>>
  BY <1>6 DEF Attach, bufferVars
<1>7. ASSUME UNCHANGED vars PROVE UNCHANGED <<turnState, sizes, used>>
  BY <1>7 DEF vars, bufferVars
<1> QED
  BY <1>1, <1>2, <1>3, <1>4, <1>5, <1>6, <1>7 DEF Next

-----------------------------------------------------------------------------
(* The theorems.                                                           *)

\* The inductive invariant: the shape of the buffers, where every stream stands
\* in its own, who holds a consumer slot and what the budget was charged.
IInv == BufferInv /\ ReaderInv /\ SlotInv /\ BudgetInv

\* At the start nothing is held, read or charged.
LEMMA InitHolds == Init => IInv
<1>1. Init => BufferInv /\ ReaderInv
  BY BufferInit, ReaderInit
<1>2. Init => SlotInv
  <2>1. ASSUME Init PROVE SlotInv
    <3>1. \A t \in Turns : Iterated(t) = {}
      BY <2>1 DEF Init, Iterated, Driven
    <3>2. IsFiniteSet({}) /\ Cardinality({}) = 0
      BY FS_EmptySet
    <3>3. consumers \in [Turns -> Int] /\ \A t \in Turns : consumers[t] = 0
      BY <2>1 DEF Init
    <3> QED
      BY <3>1, <3>2, <3>3 DEF SlotInv
  <2> QED
    BY <2>1
<1>3. Init => BudgetInv
  <2>1. ASSUME Init PROVE BudgetInv
    <3>1. LiveTurns = {}
      BY <2>1 DEF Init, LiveTurns, Live
    <3>2. IsFiniteSet({}) /\ Budget \in Nat /\ used = 0
      BY <2>1, FS_EmptySet, StreamAssumption DEF Init
    <3>3. \A w : SumFunctionOnSet(w, {}) = 0
      BY SumEmpty
    <3> QED
      BY <3>1, <3>2, <3>3 DEF BudgetInv, BudgetExact, OvershootBounded
  <2> QED
    BY <2>1
<1> QED
  BY <1>1, <1>2, <1>3 DEF IInv

\* Every reachable state satisfies it.
LEMMA Invariant == Spec => []IInv
<1>1. IInv /\ [Next]_vars => IInv'
  BY BufferSteps, ReaderSteps, SlotSteps, BudgetSteps DEF IInv
<1> QED
  BY <1>1, InitHolds, PTL DEF Spec

\* Every variable keeps its type: the bytes charged and the consumer counts, from
\* which the code subtracts, never go below zero.
THEOREM StreamTypes == Spec => []TypeOK
<1>1. IInv => TypeOK
  <2>1. ASSUME IInv PROVE consumers \in [Turns -> Nat]
    BY <2>1, FS_CardinalityType DEF IInv, SlotInv
  <2> QED
    BY <2>1 DEF IInv, BufferInv, ReaderInv, ReaderTypes, BudgetInv, TypeOK
<1> QED
  BY <1>1, Invariant, PTL

\* Nothing a turn produced is skipped by a stream: for any number of turns,
\* clients and events, wherever a stream attaches and however its buffer evicts
\* meanwhile (_follow, _RingBuffer.append, _RingBuffer.get).
THEOREM StreamsSkipNothing == Spec => []NothingSkipped
<1>1. IInv => NothingSkipped
  BY DEF IInv, ReaderInv, ReaderOK, NothingSkipped, DeliveryContiguous,
         EndedStreamIsComplete, NoFutureCursor, Driven
<1> QED
  BY <1>1, Invariant, PTL

\* The shared byte budget is exactly what the live buffers hold, it is overshot
\* by at most the newest event of each of them, and a turn's consumer count is
\* the number of streams iterated over it, for any number of turns, clients,
\* events and sizes (_charge_bytes, _refund_bytes, drop_all, _follow).
THEOREM AccountsAreExact == Spec => []AccountingExact
<1>1. IInv => AccountingExact
  BY DEF IInv, SlotInv, BudgetInv, AccountingExact, SlotsExact, Iterated
<1> QED
  BY <1>1, Invariant, PTL
=============================================================================
