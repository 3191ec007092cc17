----------------------------- MODULE DataLemmas -----------------------------
(***************************************************************************)
(* What the operators on sequences and sets return that several models are *)
(* built from.                                                             *)
(***************************************************************************)
EXTENDS Integers, Sequences, FiniteSets, SequencesExt, FiniteSetTheorems,
        SequenceTheorems, WellFoundedInduction, TLAPS

\* A set of numbers that is not empty has a least element.
LEMMA NatMin ==
  ASSUME NEW T, T \subseteq Nat, T # {}
  PROVE  \E n \in T : \A m \in T : n <= m
<1> DEFINE R == {ss \in Nat \X Nat : ss[1] < ss[2]}
<1>1. IsWellFoundedOn(R, Nat)
  BY NatLessThanWellFounded DEF OpToRel
<1>2. PICK n \in T : \A m \in T : <<m, n>> \notin R
  <2> HIDE DEF R
  <2> QED
    BY <1>1, WFMin
<1>3. ASSUME NEW m \in T
      PROVE  n <= m
  <2>1. ~(<<m, n>>[1] < <<m, n>>[2])
    BY <1>2
  <2> QED
    BY <2>1
<1> QED
  BY <1>3

\* A bounded set of numbers that is not empty has a greatest element.
LEMMA NatMax ==
  ASSUME NEW T, T \subseteq Nat, T # {}, NEW b \in Nat, \A m \in T : m <= b
  PROVE  Max(T) \in T /\ \A m \in T : m <= Max(T)
<1> DEFINE Below == {b - m : m \in T}
<1>1. Below \subseteq Nat /\ Below # {}
  <2>1. \A m \in T : m \in Nat /\ m <= b
    OBVIOUS
  <2>2. \A m \in T : b - m \in Nat
    BY <2>1
  <2> QED
    BY <2>2
<1>2. PICK least \in Below : \A m \in Below : least <= m
  <2> HIDE DEF Below
  <2> QED
    BY <1>1, NatMin
<1>3. PICK n \in T : least = b - n
  OBVIOUS
<1>4. ASSUME NEW m \in T
      PROVE  m <= n
  <2>1. least <= b - m
    BY <1>2
  <2> QED
    BY <1>3, <2>1
<1> QED
  BY <1>4 DEF Max

\* q lists the elements of T in ascending order.
Ascends(q, T) ==
  /\ q \in [1..Cardinality(T) -> T]
  /\ \A i, j \in 1..Cardinality(T) : i < j => q[i] < q[j]
  /\ \A x \in T : \E i \in 1..Cardinality(T) : q[i] = x

\* Every finite set of numbers can be listed in ascending order.
LEMMA AscendingExists ==
  ASSUME NEW T, T \subseteq Nat, IsFiniteSet(T)
  PROVE  \E q : Ascends(q, T)
<1> DEFINE Bad == {n \in Nat : \E S \in SUBSET Nat : IsFiniteSet(S) /\ Cardinality(S) = n /\ ~\E q : Ascends(q, S)}
<1>1. SUFFICES Bad = {}
  BY FS_CardinalityType
<1>2. SUFFICES ASSUME Bad # {}
               PROVE  FALSE
  OBVIOUS
<1>3. PICK n \in Bad : \A m \in Bad : n <= m
  BY <1>2, NatMin
<1>4. PICK S \in SUBSET Nat : IsFiniteSet(S) /\ Cardinality(S) = n /\ ~\E q : Ascends(q, S)
  BY <1>3
<1>5. CASE S = {}
  <2>1. Cardinality(S) = 0
    BY <1>5, FS_EmptySet
  <2>2. 1..0 = {}
    OBVIOUS
  <2>3. Ascends([i \in 1..0 |-> i], S)
    BY <1>5, <2>1, <2>2 DEF Ascends
  <2> QED
    BY <1>4, <2>3
<1>6. CASE S # {}
  <2>1. PICK least \in S : \A m \in S : least <= m
    BY <1>4, <1>6, NatMin
  <2> DEFINE Rest == S \ {least}
  <2>2. IsFiniteSet(Rest) /\ Cardinality(Rest) = n - 1 /\ n - 1 \in Nat
    <3>1. IsFiniteSet(Rest) /\ Cardinality(Rest) = n - 1
      BY <1>4, <2>1, FS_RemoveElement
    <3> HIDE DEF Rest
    <3>2. Cardinality(Rest) \in Nat
      BY <3>1, FS_CardinalityType
    <3> QED
      BY <3>1, <3>2
  <2>3. n - 1 \notin Bad
    BY <1>3, <2>2
  <2>4. PICK q : Ascends(q, Rest)
    BY <2>2, <2>3
  <2> DEFINE w == [i \in 1..n |-> IF i = 1 THEN least ELSE q[i - 1]]
  <2>5. q \in [1..(n - 1) -> Rest] /\ (\A i, j \in 1..(n - 1) : i < j => q[i] < q[j])
          /\ (\A x \in Rest : \E i \in 1..(n - 1) : q[i] = x)
    BY <2>2, <2>4 DEF Ascends
  <2>6. w \in [1..n -> S]
    BY <2>1, <2>2, <2>5
  <2>7. ASSUME NEW i \in 1..n, NEW j \in 1..n, i < j
        PROVE  w[i] < w[j]
    <3>1. j - 1 \in 1..(n - 1) /\ w[j] = q[j - 1] /\ q[j - 1] \in Rest
      BY <2>2, <2>5, <2>7
    <3>2. CASE i = 1
      <4>1. w[i] = least /\ least \in Nat /\ q[j - 1] \in Nat /\ least <= q[j - 1] /\ q[j - 1] # least
        BY <1>4, <2>1, <3>1, <3>2
      <4> QED
        BY <3>1, <4>1
    <3>3. CASE i # 1
      BY <2>2, <2>5, <2>7, <3>1, <3>3
    <3> QED
      BY <3>2, <3>3
  <2>8. ASSUME NEW x \in S
        PROVE  \E i \in 1..n : w[i] = x
    <3>1. CASE x = least
      BY <2>2, <3>1
    <3>2. CASE x # least
      <4>1. PICK i \in 1..(n - 1) : q[i] = x
        BY <2>5, <3>2
      <4>2. i + 1 \in 1..n /\ w[i + 1] = x
        BY <2>2, <4>1
      <4> QED
        BY <4>2
    <3> QED
      BY <3>1, <3>2
  <2>9. Ascends(w, S)
    BY <1>4, <2>6, <2>7, <2>8 DEF Ascends
  <2> QED
    BY <1>4, <2>9
<1> QED
  BY <1>5, <1>6

\* The sorting of a finite set of numbers, as the models define it, lists it
\* in ascending order.
LEMMA SortedListing ==
  ASSUME NEW T, T \subseteq Nat, IsFiniteSet(T),
         NEW s, s = CHOOSE q \in SetToSeqs(T) : \A i, j \in DOMAIN q : i < j => q[i] < q[j]
  PROVE  Ascends(s, T)
<1> DEFINE n == Cardinality(T)
<1>1. n \in Nat /\ IsFiniteSet(1..n) /\ Cardinality(1..n) = n
  BY FS_CardinalityType, FS_Interval
<1>2. PICK q : Ascends(q, T)
  BY AscendingExists
<1>3. q \in SetToSeqs(T) /\ \A i, j \in DOMAIN q : i < j => q[i] < q[j]
  <2>1. q \in [1..n -> T] /\ \A i, j \in 1..n : i < j => q[i] < q[j]
    BY <1>2 DEF Ascends
  <2>2. ASSUME NEW i \in 1..n, NEW j \in 1..n, i # j
        PROVE  q[i] # q[j]
    <3>1. q[i] \in Nat /\ q[j] \in Nat
      BY <2>1, <2>2
    <3>2. i < j \/ j < i
      BY <1>1, <2>2
    <3> QED
      BY <2>1, <3>1, <3>2
  <2> QED
    BY <2>1, <2>2 DEF SetToSeqs
<1>4. s \in SetToSeqs(T) /\ \A i, j \in DOMAIN s : i < j => s[i] < s[j]
  BY <1>3
<1>5. s \in [1..n -> T] /\ \A i, j \in 1..n : i # j => s[i] # s[j]
  BY <1>4 DEF SetToSeqs
<1>6. s \in Injection(1..n, T)
  BY <1>5 DEF Injection, IsInjective
<1>7. s \in Surjection(1..n, T)
  BY <1>1, <1>6, FS_Injection
<1> QED
  BY <1>4, <1>5, <1>7 DEF Ascends, Surjection

\* Counting up from 0 reaches every number up to n: induction over a set.
LEMMA CountingUp ==
  ASSUME NEW n \in Nat, NEW G, 0 \in G, \A k \in 0..(n - 1) : k \in G => k + 1 \in G
  PROVE  0..n \subseteq G
<1> DEFINE Missing == (0..n) \ G
<1>1. SUFFICES ASSUME Missing # {}
               PROVE  FALSE
  OBVIOUS
<1>2. PICK k \in Missing : \A m \in Missing : k <= m
  <2>1. Missing \subseteq Nat
    OBVIOUS
  <2> HIDE DEF Missing
  <2> QED
    BY <1>1, <2>1, NatMin
<1>3. k \in 1..n
  <2>1. k # 0 /\ k \in 0..n
    BY <1>2
  <2> QED
    BY <2>1
<1>4. k - 1 \in 0..(n - 1) /\ k - 1 \notin Missing
  <2>1. k - 1 \in 0..(n - 1) /\ ~(k <= k - 1)
    BY <1>3
  <2> QED
    BY <1>2, <2>1
<1>5. k - 1 \in G /\ k - 1 + 1 = k
  BY <1>3, <1>4
<1> QED
  BY <1>2, <1>4, <1>5

\* The numbers up to i are those up to i - 1 and i, their greatest.
LEMMA Initial ==
  ASSUME NEW n \in Nat, NEW i \in 1..n
  PROVE  /\ 1..i \in SUBSET (1..n) /\ 1..i # {} /\ (1..i) \ {i} = 1..(i - 1)
         /\ 1..(i - 1) \in SUBSET (1..n) /\ Max(1..i) = i
<1>1. /\ 1..i \in SUBSET (1..n) /\ 1..i # {} /\ (1..i) \ {i} = 1..(i - 1)
  OBVIOUS
<1>2. \A m \in 1..(i - 1) : m \in 1..n
  OBVIOUS
<1>3. Max(1..i) = i
  <2>1. \A m \in 1..i : m <= i
    OBVIOUS
  <2>2. i \in 1..i
    OBVIOUS
  <2>3. \A m \in 1..i : (\A j \in 1..i : j <= m) => m = i
    BY <2>2
  <2> QED
    BY <2>1, <2>2, <2>3 DEF Max
<1> QED
  BY <1>1, <1>2, <1>3

\* g folds the numbers of each set up to n, largest last, by step.
FoldsSets(g, n, X, base, step) ==
  /\ g \in [SUBSET (1..n) -> X]
  /\ \A s \in SUBSET (1..n) : g[s] = IF s = {} THEN base ELSE step[<<g[s \ {Max(s)}], Max(s)>>]

\* The recursion of a fold over the numbers up to n, largest last, has a
\* solution: FoldLeft is defined by it.
LEMMA FoldRecursion ==
  ASSUME NEW n \in Nat, NEW X, NEW base \in X, NEW step \in [X \X (1..n) -> X]
  PROVE  \E g : FoldsSets(g, n, X, base, step)
<1> DEFINE Solves(g, k) ==
             /\ g \in [SUBSET (1..k) -> X]
             /\ \A s \in SUBSET (1..k) : g[s] = IF s = {} THEN base ELSE step[<<g[s \ {Max(s)}], Max(s)>>]
           G == {k \in 0..n : \E g : Solves(g, k)}
<1>1. 0 \in G
  <2>1. \A s \in SUBSET (1..0) : s = {}
    OBVIOUS
  <2>2. Solves([s \in SUBSET (1..0) |-> base], 0)
    BY <2>1
  <2>3. 0 \in 0..n
    OBVIOUS
  <2> HIDE DEF Solves
  <2> QED
    BY <2>2, <2>3
<1>2. ASSUME NEW k \in 0..(n - 1), k \in G
      PROVE  k + 1 \in G
  <2>1. PICK g : Solves(g, k)
    BY <1>2
  <2> DEFINE h == [s \in SUBSET (1..(k + 1)) |->
                     IF s \in SUBSET (1..k) THEN g[s] ELSE step[<<g[s \ {k + 1}], k + 1>>]]
  <2>2. ASSUME NEW s \in SUBSET (1..(k + 1)), s \notin SUBSET (1..k)
        PROVE  Max(s) = k + 1 /\ s \ {k + 1} \in SUBSET (1..k) /\ s # {}
    <3>1. k + 1 \in s /\ \A m \in s : m <= k + 1
      BY <2>2
    <3>2. \A m \in s : (\A j \in s : j <= m) => m = k + 1
      BY <3>1
    <3>3. Max(s) = k + 1
      BY <3>1, <3>2 DEF Max
    <3> QED
      BY <2>2, <3>1, <3>3
  <2>3. ASSUME NEW s \in SUBSET (1..k), s # {}
        PROVE  Max(s) \in s /\ s \ {Max(s)} \in SUBSET (1..k) /\ Max(s) \in 1..n
    <3>1. s \subseteq Nat /\ k \in Nat /\ \A m \in s : m <= k
      OBVIOUS
    <3>2. Max(s) \in s
      BY <2>3, <3>1, NatMax
    <3>3. Max(s) \in 1..k
      BY <3>2
    <3>4. 1..k \subseteq 1..n
      OBVIOUS
    <3> QED
      BY <3>2, <3>3, <3>4
  <2>4. h \in [SUBSET (1..(k + 1)) -> X]
    <3>1. ASSUME NEW s \in SUBSET (1..(k + 1))
          PROVE  h[s] \in X
      <4>1. CASE s \in SUBSET (1..k)
        BY <2>1, <4>1
      <4>2. CASE s \notin SUBSET (1..k)
        <5>1. g[s \ {k + 1}] \in X /\ k + 1 \in 1..n
          BY <2>1, <2>2, <4>2
        <5> QED
          BY <4>2, <5>1
      <4> QED
        BY <4>1, <4>2
    <3> QED
      BY <3>1
  <2>5. ASSUME NEW s \in SUBSET (1..(k + 1))
        PROVE  h[s] = IF s = {} THEN base ELSE step[<<h[s \ {Max(s)}], Max(s)>>]
    <3>1. CASE s \in SUBSET (1..k)
      <4>1. CASE s = {}
        BY <2>1, <3>1, <4>1
      <4>2. CASE s # {}
        <5>1. s \ {Max(s)} \in SUBSET (1..k) /\ s \ {Max(s)} \in SUBSET (1..(k + 1))
          BY <2>3, <3>1, <4>2
        <5>2. h[s] = g[s] /\ h[s \ {Max(s)}] = g[s \ {Max(s)}]
          BY <3>1, <5>1
        <5> QED
          BY <2>1, <3>1, <4>2, <5>2
      <4> QED
        BY <4>1, <4>2
    <3>2. CASE s \notin SUBSET (1..k)
      <4>1. Max(s) = k + 1 /\ s \ {k + 1} \in SUBSET (1..k) /\ s # {}
        BY <2>2, <3>2
      <4>2. s \ {k + 1} \in SUBSET (1..(k + 1)) /\ h[s \ {k + 1}] = g[s \ {k + 1}]
        BY <4>1
      <4>3. h[s] = step[<<g[s \ {k + 1}], k + 1>>]
        BY <3>2
      <4> HIDE DEF h
      <4> QED
        BY <4>1, <4>2, <4>3
    <3> QED
      BY <3>1, <3>2
  <2> HIDE DEF h
  <2>6. Solves(h, k + 1)
    BY <2>4, <2>5
  <2>7. k + 1 \in 0..n
    OBVIOUS
  <2> HIDE DEF Solves
  <2> QED
    BY <2>6, <2>7
<1>3. n \in G
  <2> HIDE DEF G
  <2>1. 0..n \subseteq G
    BY <1>1, <1>2, CountingUp
  <2> QED
    BY <2>1
<1> QED
  BY <1>3 DEF FoldsSets

\* F is the course of a fold over the numbers up to n, which g has at its end.
FoldsUp(F, g, n, X, base, step) ==
  /\ F \in [0..n -> X] /\ F[0] = base /\ F[n] = g[1..n]
  /\ \A k \in 1..n : F[k - 1] \in X /\ F[k] \in X /\ F[k] = step[<<F[k - 1], k>>]

\* g solves the recursion of a fold as far as it stays in X.
SolvesFold(g, n, X, base, step) ==
  /\ g[{}] = base
  /\ \A s \in SUBSET (1..n) :
       s # {} /\ g[s \ {Max(s)}] \in X => g[s] = step[<<g[s \ {Max(s)}], Max(s)>>]

\* What solves the recursion of a fold has its course on 1..0, 1..1, 1..2, ...
LEMMA FoldCourse ==
  ASSUME NEW n \in Nat, NEW X, NEW base \in X, NEW step \in [X \X (1..n) -> X], NEW g,
         SolvesFold(g, n, X, base, step)
  PROVE  \E F : FoldsUp(F, g, n, X, base, step)
<1> DEFINE F == [k \in 0..n |-> g[1..k]]
           G == {k \in 0..n : F[k] \in X}
<1>1. F[0] = base /\ 0 \in 0..n
  <2>1. 1..0 = {} /\ 0 \in 0..n
    OBVIOUS
  <2> QED
    BY <2>1 DEF SolvesFold
<1>2. ASSUME NEW k \in 1..n, F[k - 1] \in X
      PROVE  F[k] = step[<<F[k - 1], k>>] /\ F[k] \in X
  <2>1. F[k] = g[1..k] /\ F[k - 1] = g[1..(k - 1)]
    <3>1. k \in 0..n /\ k - 1 \in 0..n
      OBVIOUS
    <3> QED
      BY <3>1
  <2>2. /\ 1..k \in SUBSET (1..n) /\ 1..k # {} /\ (1..k) \ {k} = 1..(k - 1) /\ Max(1..k) = k
    BY Initial
  <2> DEFINE s == 1..k
  <2>3. s # {} /\ s \ {Max(s)} = 1..(k - 1) /\ Max(s) = k /\ s \in SUBSET (1..n)
    BY <2>2
  <2> HIDE DEF s, F
  <2>4. g[s \ {Max(s)}] \in X
    BY <1>2, <2>1, <2>3
  <2>5. g[s] = step[<<g[s \ {Max(s)}], Max(s)>>]
    BY <2>3, <2>4 DEF SolvesFold
  <2>6. F[k] = step[<<F[k - 1], k>>]
    BY <2>1, <2>3, <2>5 DEF s
  <2> QED
    BY <1>2, <2>6
<1>3. 0 \in G
  BY <1>1
<1>4. ASSUME NEW k \in 0..(n - 1), k \in G
      PROVE  k + 1 \in G
  <2> DEFINE m == k + 1
  <2>1. m \in 1..n /\ m \in 0..n /\ m - 1 = k
    OBVIOUS
  <2>2. F[k] \in X
    BY <1>4
  <2> HIDE DEF F, m
  <2>3. F[m - 1] \in X
    BY <2>1, <2>2
  <2>4. F[m] \in X
    BY <1>2, <2>1, <2>3
  <2> QED
    BY <2>1, <2>4 DEF m
<1>5. \A k \in 0..n : F[k] \in X
  <2>1. 0..n \subseteq G
    <3> HIDE DEF G
    <3> QED
      BY <1>3, <1>4, CountingUp
  <2> QED
    BY <2>1
<1>6. \A k \in 1..n : k \in 0..n /\ k - 1 \in 0..n
  OBVIOUS
<1>7. F \in [0..n -> X] /\ F[n] = g[1..n]
  <2>1. n \in 0..n
    OBVIOUS
  <2> QED
    BY <1>5, <2>1
<1> HIDE DEF F
<1>8. FoldsUp(F, g, n, X, base, step)
  BY <1>1, <1>2, <1>5, <1>6, <1>7 DEF FoldsUp
<1> QED
  BY <1>8

\* An element of two sequences put together is one of the first or of the
\* second.
LEMMA ConcatPlaces ==
  ASSUME NEW S, NEW p \in Seq(S), NEW q \in Seq(S)
  PROVE  /\ p \o q \in Seq(S) /\ Len(p \o q) = Len(p) + Len(q)
         /\ Len(p) \in Nat /\ Len(q) \in Nat
         /\ \A i \in 1..Len(p) : i \in 1..Len(p \o q) /\ (p \o q)[i] = p[i]
         /\ \A i \in 1..Len(q) : Len(p) + i \in 1..Len(p \o q) /\ (p \o q)[Len(p) + i] = q[i]
         /\ \A i \in 1..Len(p \o q) :
              \/ i \in 1..Len(p) /\ (p \o q)[i] = p[i]
              \/ i - Len(p) \in 1..Len(q) /\ i > Len(p) /\ (p \o q)[i] = q[i - Len(p)]
<1>1. Len(p) \in Nat /\ Len(q) \in Nat
  BY LenProperties
<1>2. /\ p \o q \in Seq(S) /\ Len(p \o q) = Len(p) + Len(q)
      /\ \A i \in 1..Len(p) + Len(q) : (p \o q)[i] = IF i <= Len(p) THEN p[i] ELSE q[i - Len(p)]
  BY ConcatProperties
<1> DEFINE r == p \o q
<1>3. /\ r \in Seq(S) /\ Len(r) = Len(p) + Len(q)
      /\ \A i \in 1..Len(p) + Len(q) : r[i] = IF i <= Len(p) THEN p[i] ELSE q[i - Len(p)]
  BY <1>2
<1> HIDE DEF r
<1>4. \A i \in 1..Len(p) : i \in 1..Len(r) /\ r[i] = p[i]
  BY <1>1, <1>3
<1>5. ASSUME NEW i \in 1..Len(q)
      PROVE  Len(p) + i \in 1..Len(r) /\ r[Len(p) + i] = q[i]
  <2>1. Len(p) + i \in 1..Len(p) + Len(q) /\ ~(Len(p) + i <= Len(p)) /\ Len(p) + i - Len(p) = i
    BY <1>1
  <2> QED
    BY <1>3, <2>1
<1>6. ASSUME NEW i \in 1..Len(r)
      PROVE  \/ i \in 1..Len(p) /\ r[i] = p[i]
             \/ i - Len(p) \in 1..Len(q) /\ i > Len(p) /\ r[i] = q[i - Len(p)]
  BY <1>1, <1>3
<1> QED
  BY <1>1, <1>3, <1>4, <1>5, <1>6 DEF r

\* The elements of a sequence.
LEMMA ToSetOf ==
  ASSUME NEW S, NEW q \in Seq(S)
  PROVE  \A x : x \in ToSet(q) <=> \E i \in 1..Len(q) : q[i] = x
  BY LenProperties DEF ToSet

LEMMA ConcatSet ==
  ASSUME NEW S, NEW p \in Seq(S), NEW q \in Seq(S)
  PROVE  \A x : x \in ToSet(p \o q) <=> (x \in ToSet(p) \/ x \in ToSet(q))
<1> SUFFICES ASSUME NEW x
             PROVE  x \in ToSet(p \o q) <=> (x \in ToSet(p) \/ x \in ToSet(q))
  OBVIOUS
<1> DEFINE r == p \o q
<1>1. /\ r \in Seq(S)
      /\ \A i \in 1..Len(p) : i \in 1..Len(r) /\ r[i] = p[i]
      /\ \A i \in 1..Len(q) : Len(p) + i \in 1..Len(r) /\ r[Len(p) + i] = q[i]
      /\ \A i \in 1..Len(r) :
              \/ i \in 1..Len(p) /\ r[i] = p[i]
              \/ i - Len(p) \in 1..Len(q) /\ i > Len(p) /\ r[i] = q[i - Len(p)]
  BY ConcatPlaces
<1> HIDE DEF r
<1>2. /\ x \in ToSet(r) <=> \E i \in 1..Len(r) : r[i] = x
      /\ x \in ToSet(p) <=> \E i \in 1..Len(p) : p[i] = x
      /\ x \in ToSet(q) <=> \E i \in 1..Len(q) : q[i] = x
  BY <1>1, ToSetOf
<1>3. x \in ToSet(r) <=> (x \in ToSet(p) \/ x \in ToSet(q))
  BY <1>1, <1>2
<1> QED
  BY <1>3 DEF r

\* Each two elements of the sequence are related by R in their order.
Rising(q, R) == \A i, j \in 1..Len(q) : i < j => <<q[i], q[j]>> \in R

\* Two sequences in order, the one before the other, are in order together.
LEMMA ConcatRises ==
  ASSUME NEW S, NEW p \in Seq(S), NEW q \in Seq(S), NEW R, Rising(p, R), Rising(q, R),
         \A a \in ToSet(p), b \in ToSet(q) : <<a, b>> \in R
  PROVE  Rising(p \o q, R)
<1> DEFINE r == p \o q
<1>1. /\ r \in Seq(S) /\ Len(p) \in Nat /\ Len(q) \in Nat /\ Len(r) = Len(p) + Len(q)
      /\ \A i \in 1..Len(r) :
              \/ i \in 1..Len(p) /\ r[i] = p[i]
              \/ i - Len(p) \in 1..Len(q) /\ i > Len(p) /\ r[i] = q[i - Len(p)]
  BY ConcatPlaces
<1> HIDE DEF r
<1>2. ASSUME NEW i \in 1..Len(r), NEW j \in 1..Len(r), i < j
      PROVE  <<r[i], r[j]>> \in R
  <2>1. CASE j \in 1..Len(p) /\ r[j] = p[j]
    <3>1. i \in 1..Len(p) /\ r[i] = p[i]
      BY <1>1, <1>2, <2>1
    <3> QED
      BY <1>2, <2>1, <3>1 DEF Rising
  <2>2. CASE j - Len(p) \in 1..Len(q) /\ j > Len(p) /\ r[j] = q[j - Len(p)]
    <3>1. CASE i \in 1..Len(p) /\ r[i] = p[i]
      <4>1. r[i] \in ToSet(p) /\ r[j] \in ToSet(q)
        BY <2>2, <3>1, ToSetOf
      <4> QED
        BY <4>1
    <3>2. CASE i - Len(p) \in 1..Len(q) /\ i > Len(p) /\ r[i] = q[i - Len(p)]
      <4>1. i - Len(p) < j - Len(p)
        BY <1>1, <1>2
      <4> QED
        BY <2>2, <3>2, <4>1 DEF Rising
    <3> QED
      BY <1>1, <3>1, <3>2
  <2> QED
    BY <1>1, <2>1, <2>2
<1> QED
  BY <1>2 DEF Rising, r

\* f is the course of a flattening.
FlattensUp(f, seqs, S) ==
  /\ \A k \in 1..Len(seqs) : f[k] \in Seq(S)
  /\ f[1] = seqs[1]
  /\ \A k \in 1..(Len(seqs) - 1) : f[k + 1] = f[k] \o seqs[k + 1]

\* FlattenSeq goes through the sequences one by one.
LEMMA FlattenFolds ==
  ASSUME NEW S, NEW seqs \in Seq(Seq(S)), Len(seqs) > 0
  PROVE  \E f : FlattensUp(f, seqs, S) /\ FlattenSeq(seqs) = f[Len(seqs)]
<1> DEFINE n == Len(seqs)
           X == Seq(S)
           empty == <<>>
           step == [p \in X \X (1..n) |-> IF p[2] = 1 THEN seqs[1] ELSE p[1] \o seqs[p[2]]]
           Flattens(h) == h = [i \in 1..n |-> IF i = 1 THEN seqs[i] ELSE h[i - 1] \o seqs[i]]
           flatten == CHOOSE h : Flattens(h)
<1>1. n \in Nat /\ n >= 1 /\ empty \in X
  BY LenProperties
<1>2. \A i \in 1..n : seqs[i] \in X
  BY ElementOfSeq
<1>3. \A p, q \in X : p \o q \in X
  BY ConcatProperties
<1>4. FlattenSeq(seqs) = flatten[n]
  BY <1>1 DEF FlattenSeq
<1> HIDE DEF n, X
<1>5. step \in [X \X (1..n) -> X]
  <2>1. ASSUME NEW p \in X \X (1..n)
        PROVE  (IF p[2] = 1 THEN seqs[1] ELSE p[1] \o seqs[p[2]]) \in X
    <3>1. p[1] \in X /\ p[2] \in 1..n /\ seqs[p[2]] \in X /\ seqs[1] \in X
      BY <1>1, <1>2
    <3> QED
      BY <1>3, <3>1
  <2> QED
    BY <2>1
<1> HIDE DEF empty
<1>6. PICK g : FoldsSets(g, n, X, empty, step)
  <2> HIDE DEF step
  <2> QED
    BY <1>1, <1>5, FoldRecursion
<1>7. SolvesFold(g, n, X, empty, step)
  <2> HIDE DEF step
  <2> QED
    BY <1>6 DEF FoldsSets, SolvesFold
<1>8. PICK F : FoldsUp(F, g, n, X, empty, step)
  <2> HIDE DEF step
  <2> QED
    BY <1>1, <1>5, <1>7, FoldCourse
<1>9. ASSUME NEW i \in 1..n
      PROVE  F[i] \in X /\ F[i] = IF i = 1 THEN seqs[i] ELSE F[i - 1] \o seqs[i]
  <2>1. F[i] = step[<<F[i - 1], i>>] /\ F[i - 1] \in X /\ F[i] \in X
    <3> HIDE DEF step
    <3> QED
      BY <1>8 DEF FoldsUp
  <2>2. <<F[i - 1], i>> \in X \X (1..n)
    BY <2>1
  <2>3. step[<<F[i - 1], i>>] = IF i = 1 THEN seqs[1] ELSE F[i - 1] \o seqs[i]
    BY <2>2
  <2> HIDE DEF step
  <2> QED
    BY <2>1, <2>3
<1> HIDE DEF step
<1> DEFINE h == [i \in 1..n |-> F[i]]
<1>10. Flattens(h)
  <2>1. \A i \in 1..n : i # 1 => i - 1 \in 1..n
    BY <1>1
  <2>2. ASSUME NEW i \in 1..n
        PROVE  h[i] = IF i = 1 THEN seqs[i] ELSE h[i - 1] \o seqs[i]
    <3>1. CASE i = 1
      BY <1>9, <3>1
    <3>2. CASE i # 1
      <4>1. h[i] = F[i] /\ h[i - 1] = F[i - 1]
        BY <2>1, <3>2
      <4>2. F[i] = F[i - 1] \o seqs[i]
        BY <1>9, <3>2
      <4> HIDE DEF h
      <4> QED
        BY <3>2, <4>1, <4>2
    <3> QED
      BY <3>1, <3>2
  <2>3. h = [i \in 1..n |-> h[i]]
    OBVIOUS
  <2> HIDE DEF h
  <2> QED
    BY <2>2, <2>3
<1>11. Flattens(flatten)
  <2> HIDE DEF Flattens, h
  <2> QED
    BY <1>10
<1>12. \A i \in 1..n : flatten[i] = IF i = 1 THEN seqs[i] ELSE flatten[i - 1] \o seqs[i]
  <2> HIDE DEF flatten
  <2> QED
    BY <1>11
<1> HIDE DEF flatten, h, Flattens
<1>13. 1 \in 1..n
  BY <1>1
<1>14. flatten[1] = seqs[1]
  BY <1>12, <1>13
<1>15. ASSUME NEW k \in 1..(n - 1)
       PROVE  k \in 1..n /\ k + 1 \in 1..n /\ flatten[k + 1] = flatten[k] \o seqs[k + 1]
  <2> DEFINE m == k + 1
  <2>1. m \in 1..n /\ m # 1 /\ m - 1 = k /\ k \in 1..n
    BY <1>1
  <2> HIDE DEF m
  <2>2. flatten[m] = flatten[m - 1] \o seqs[m]
    BY <1>12, <2>1
  <2>3. flatten[m] = flatten[k] \o seqs[m]
    BY <2>1, <2>2
  <2> QED
    BY <2>1, <2>3 DEF m
<1> DEFINE G == {k \in 0..n : k > 0 => flatten[k] \in X}
<1>16. 0 \in G
  BY <1>1
<1>17. ASSUME NEW k \in 0..(n - 1), k \in G
       PROVE  k + 1 \in G
  <2>1. k + 1 \in 1..n /\ k + 1 \in 0..n
    BY <1>1
  <2>2. CASE k = 0
    <3>1. flatten[k + 1] \in X
      BY <1>2, <1>13, <1>14, <2>2
    <3> QED
      BY <2>1, <3>1
  <2>3. CASE k # 0
    <3>1. k \in 1..(n - 1) /\ flatten[k] \in X
      BY <1>1, <1>17, <2>3
    <3>2. flatten[k + 1] = flatten[k] \o seqs[k + 1]
      BY <1>15, <3>1
    <3>3. flatten[k + 1] \in X
      BY <1>2, <1>3, <2>1, <3>1, <3>2
    <3> QED
      BY <2>1, <3>3
  <2> QED
    BY <2>2, <2>3
<1>18. ASSUME NEW k \in 1..n
       PROVE  flatten[k] \in X
  <2>1. 0..n \subseteq G
    <3> HIDE DEF G
    <3> QED
      BY <1>1, <1>16, <1>17, CountingUp
  <2>2. k \in 0..n /\ k > 0
    BY <1>1
  <2> QED
    BY <2>1, <2>2
<1> QED
  BY <1>4, <1>14, <1>15, <1>18 DEF n, X, FlattensUp

\* Sequences in order, each before the next ones, are in order when they are
\* flattened, and nothing is added or lost.
LEMMA FlattenRises ==
  ASSUME NEW S, NEW seqs \in Seq(Seq(S)), NEW R,
         \A i \in 1..Len(seqs) : Rising(seqs[i], R),
         \A i, j \in 1..Len(seqs) : i < j => \A a \in ToSet(seqs[i]), b \in ToSet(seqs[j]) : <<a, b>> \in R
  PROVE  /\ FlattenSeq(seqs) \in Seq(S) /\ Rising(FlattenSeq(seqs), R)
         /\ \A x : x \in ToSet(FlattenSeq(seqs)) <=> \E i \in 1..Len(seqs) : x \in ToSet(seqs[i])
<1>1. Len(seqs) \in Nat /\ \A i \in 1..Len(seqs) : seqs[i] \in Seq(S)
  BY LenProperties, ElementOfSeq
<1>2. CASE Len(seqs) = 0
  <2>1. FlattenSeq(seqs) = seqs /\ seqs = <<>>
    BY <1>2, EmptySeq DEF FlattenSeq
  <2>2. <<>> \in Seq(S) /\ 1..Len(<<>>) = {}
    OBVIOUS
  <2>3. \A x : x \notin ToSet(<<>>)
    BY <2>2, ToSetOf
  <2>4. 1..Len(seqs) = {}
    BY <1>2
  <2> QED
    BY <2>1, <2>2, <2>3, <2>4 DEF Rising
<1>3. CASE Len(seqs) > 0
  <2>a. PICK f : FlattensUp(f, seqs, S) /\ FlattenSeq(seqs) = f[Len(seqs)]
    BY <1>3, FlattenFolds
  <2>1. /\ \A k \in 1..Len(seqs) : f[k] \in Seq(S)
        /\ f[1] = seqs[1]
        /\ \A k \in 1..(Len(seqs) - 1) : f[k + 1] = f[k] \o seqs[k + 1]
        /\ FlattenSeq(seqs) = f[Len(seqs)]
    BY <2>a DEF FlattensUp
  <2> DEFINE Good(k) == /\ Rising(f[k], R)
                        /\ \A x : x \in ToSet(f[k]) <=> \E i \in 1..k : x \in ToSet(seqs[i])
             G == {k \in 0..Len(seqs) : k > 0 => Good(k)}
  <2>2. 0 \in G
    BY <1>1
  <2>3. ASSUME NEW k \in 0..(Len(seqs) - 1), k \in G
        PROVE  k + 1 \in G
    <3>1. k + 1 \in 0..Len(seqs) /\ k + 1 \in 1..Len(seqs) /\ 1..(k + 1) = (1..k) \cup {k + 1}
      BY <1>1
    <3>2. CASE k = 0
      <4>1. f[k + 1] = seqs[k + 1]
        BY <2>1, <3>2
      <4>2. \A x : x \in ToSet(seqs[k + 1]) <=> \E i \in 1..(k + 1) : x \in ToSet(seqs[i])
        BY <3>1, <3>2
      <4>3. Good(k + 1)
        BY <3>1, <4>1, <4>2
      <4> HIDE DEF Good
      <4> QED
        BY <3>1, <4>3
    <3>3. CASE k > 0
      <4>0. k \in 1..Len(seqs) /\ k \in 1..(Len(seqs) - 1)
        <5> HIDE DEF Good
        <5> QED
          BY <1>1, <3>1, <3>3
      <4>1. f[k] \in Seq(S) /\ seqs[k + 1] \in Seq(S)
        BY <1>1, <2>1, <3>1, <4>0
      <4>2. f[k + 1] = f[k] \o seqs[k + 1]
        BY <2>1, <4>0
      <4>3. Good(k)
        BY <2>3, <3>3
      <4>4. \A a \in ToSet(f[k]), b \in ToSet(seqs[k + 1]) : <<a, b>> \in R
        <5> SUFFICES ASSUME NEW a \in ToSet(f[k]), NEW b \in ToSet(seqs[k + 1])
                     PROVE  <<a, b>> \in R
          OBVIOUS
        <5>1. PICK i \in 1..k : a \in ToSet(seqs[i])
          BY <4>3
        <5>2. i \in 1..Len(seqs) /\ i < k + 1
          BY <1>1
        <5> QED
          BY <3>1, <5>1, <5>2
      <4>5. Rising(f[k + 1], R)
        BY <3>1, <4>1, <4>2, <4>3, <4>4, ConcatRises
      <4>6. ASSUME NEW x
            PROVE  x \in ToSet(f[k + 1]) <=> \E i \in 1..(k + 1) : x \in ToSet(seqs[i])
        <5>1. x \in ToSet(f[k + 1]) <=> (x \in ToSet(f[k]) \/ x \in ToSet(seqs[k + 1]))
          BY <4>1, <4>2, ConcatSet
        <5>2. x \in ToSet(f[k]) <=> \E i \in 1..k : x \in ToSet(seqs[i])
          BY <4>3
        <5> QED
          BY <3>1, <5>1, <5>2
      <4>7. Good(k + 1)
        BY <4>5, <4>6
      <4> HIDE DEF Good
      <4> QED
        BY <3>1, <4>7
    <3> QED
      BY <3>2, <3>3
  <2>4. Len(seqs) \in G
    <3> HIDE DEF G
    <3>1. 0..Len(seqs) \subseteq G
      BY <1>1, <2>2, <2>3, CountingUp
    <3> QED
      BY <1>1, <3>1
  <2>5. Good(Len(seqs))
    <3> HIDE DEF Good
    <3> QED
      BY <1>3, <2>4
  <2>6. f[Len(seqs)] \in Seq(S)
    BY <1>1, <1>3, <2>1
  <2> QED
    BY <2>1, <2>5, <2>6
<1> QED
  BY <1>1, <1>2, <1>3

\* R orders the elements of T strictly, each two of them.
StrictlyOrders(R, T) ==
  /\ \A x \in T : <<x, x>> \notin R
  /\ \A x, y \in T : x # y => <<x, y>> \in R \/ <<y, x>> \in R
  /\ \A x, y, z \in T : <<x, y>> \in R /\ <<y, z>> \in R => <<x, z>> \in R

\* q lists the elements of T in the order of R.
ListsBy(q, T, R) ==
  /\ q \in [1..Cardinality(T) -> T]
  /\ \A i, j \in 1..Cardinality(T) : i < j => <<q[i], q[j]>> \in R
  /\ \A x \in T : \E i \in 1..Cardinality(T) : q[i] = x

\* A finite set that is ordered has a first element.
LEMMA FirstExists ==
  ASSUME NEW R, NEW T, IsFiniteSet(T), T # {}, StrictlyOrders(R, T)
  PROVE  \E x \in T : \A y \in T : y = x \/ <<x, y>> \in R
<1> DEFINE Bad == {n \in Nat : \E S \in SUBSET T : S # {} /\ Cardinality(S) = n
                                 /\ ~\E x \in S : \A y \in S : y = x \/ <<x, y>> \in R}
<1>1. SUFFICES Bad = {}
  BY FS_CardinalityType
<1>2. SUFFICES ASSUME Bad # {}
               PROVE  FALSE
  OBVIOUS
<1>3. PICK n \in Bad : \A m \in Bad : n <= m
  BY <1>2, NatMin
<1>4. PICK S \in SUBSET T : S # {} /\ Cardinality(S) = n /\ ~\E x \in S : \A y \in S : y = x \/ <<x, y>> \in R
  BY <1>3
<1>5. PICK x \in S : TRUE
  BY <1>4
<1> DEFINE Rest == S \ {x}
<1>6. Rest # {}
  BY <1>4, <1>5
<1>7. Cardinality(Rest) = n - 1 /\ n - 1 \in Nat
  <2>1. IsFiniteSet(S)
    BY FS_Subset
  <2>2. IsFiniteSet(Rest) /\ Cardinality(Rest) = n - 1
    BY <1>4, <1>5, <2>1, FS_RemoveElement
  <2> HIDE DEF Rest
  <2>3. Cardinality(Rest) \in Nat
    BY <2>2, FS_CardinalityType
  <2> QED
    BY <2>2, <2>3
<1>8. n - 1 \notin Bad
  BY <1>3, <1>7
<1>9. PICK r \in Rest : \A y \in Rest : y = r \/ <<r, y>> \in R
  BY <1>6, <1>7, <1>8
<1>10. x \in T /\ r \in T /\ x # r /\ \A y \in S : y \in T
  BY <1>4, <1>5, <1>9
<1>11. CASE <<x, r>> \in R
  <2>1. \A y \in Rest : <<x, y>> \in R
    BY <1>9, <1>10, <1>11 DEF StrictlyOrders
  <2>2. \A y \in S : y = x \/ <<x, y>> \in R
    BY <2>1
  <2> QED
    BY <1>4, <1>5, <2>2
<1>12. CASE <<r, x>> \in R
  <2>1. \A y \in S : y = r \/ <<r, y>> \in R
    BY <1>9, <1>12
  <2> QED
    BY <1>4, <1>9, <2>1
<1> QED
  BY <1>10, <1>11, <1>12 DEF StrictlyOrders

\* A finite set that is ordered can be listed in its order.
LEMMA ListingExists ==
  ASSUME NEW R, NEW T, IsFiniteSet(T), StrictlyOrders(R, T)
  PROVE  \E q : ListsBy(q, T, R)
<1> DEFINE Bad == {n \in Nat : \E S \in SUBSET T : Cardinality(S) = n /\ ~\E q : ListsBy(q, S, R)}
<1>1. SUFFICES Bad = {}
  BY FS_CardinalityType
<1>2. SUFFICES ASSUME Bad # {}
               PROVE  FALSE
  OBVIOUS
<1>3. PICK n \in Bad : \A m \in Bad : n <= m
  BY <1>2, NatMin
<1>4. PICK S \in SUBSET T : Cardinality(S) = n /\ ~\E q : ListsBy(q, S, R)
  BY <1>3
<1>5. IsFiniteSet(S) /\ StrictlyOrders(R, S)
  <2>1. IsFiniteSet(S)
    BY FS_Subset
  <2> QED
    BY <2>1 DEF StrictlyOrders
<1>6. CASE S = {}
  <2>1. Cardinality(S) = 0
    BY <1>6, FS_EmptySet
  <2>2. 1..0 = {}
    OBVIOUS
  <2>3. ListsBy([i \in 1..0 |-> i], S, R)
    BY <1>6, <2>1, <2>2 DEF ListsBy
  <2> QED
    BY <1>4, <2>3
<1>7. CASE S # {}
  <2>1. PICK least \in S : \A m \in S : m = least \/ <<least, m>> \in R
    BY <1>5, <1>7, FirstExists
  <2> DEFINE Rest == S \ {least}
  <2>2. Cardinality(Rest) = n - 1 /\ n - 1 \in Nat
    <3>1. IsFiniteSet(Rest) /\ Cardinality(Rest) = n - 1
      BY <1>4, <1>5, <2>1, FS_RemoveElement
    <3> HIDE DEF Rest
    <3>2. Cardinality(Rest) \in Nat
      BY <3>1, FS_CardinalityType
    <3> QED
      BY <3>1, <3>2
  <2>3. n - 1 \notin Bad
    BY <1>3, <2>2
  <2>4. PICK q : ListsBy(q, Rest, R)
    BY <2>2, <2>3
  <2> DEFINE w == [i \in 1..n |-> IF i = 1 THEN least ELSE q[i - 1]]
  <2>5. q \in [1..(n - 1) -> Rest] /\ (\A i, j \in 1..(n - 1) : i < j => <<q[i], q[j]>> \in R)
          /\ (\A x \in Rest : \E i \in 1..(n - 1) : q[i] = x)
    BY <2>2, <2>4 DEF ListsBy
  <2>6. w \in [1..n -> S]
    BY <2>1, <2>2, <2>5
  <2>7. ASSUME NEW i \in 1..n, NEW j \in 1..n, i < j
        PROVE  <<w[i], w[j]>> \in R
    <3>1. j - 1 \in 1..(n - 1) /\ w[j] = q[j - 1] /\ q[j - 1] \in Rest
      BY <2>2, <2>5, <2>7
    <3>2. CASE i = 1
      BY <2>1, <3>1, <3>2
    <3>3. CASE i # 1
      <4>1. i - 1 \in 1..(n - 1) /\ w[i] = q[i - 1] /\ i - 1 < j - 1
        BY <2>2, <2>7, <3>3
      <4> QED
        BY <2>5, <3>1, <4>1
    <3> QED
      BY <3>2, <3>3
  <2>8. ASSUME NEW x \in S
        PROVE  \E i \in 1..n : w[i] = x
    <3>1. CASE x = least
      BY <2>2, <3>1
    <3>2. CASE x # least
      <4>1. PICK i \in 1..(n - 1) : q[i] = x
        BY <2>5, <3>2
      <4>2. i + 1 \in 1..n /\ w[i + 1] = x
        BY <2>2, <4>1
      <4> QED
        BY <4>2
    <3> QED
      BY <3>1, <3>2
  <2>9. ListsBy(w, S, R)
    BY <1>4, <2>6, <2>7, <2>8 DEF ListsBy
  <2> QED
    BY <1>4, <2>9
<1> QED
  BY <1>6, <1>7

\* In a listing the element of place k is the one with k - 1 others before it.
LEMMA PlacesCount ==
  ASSUME NEW R, NEW T, IsFiniteSet(T), StrictlyOrders(R, T), NEW q, ListsBy(q, T, R),
         NEW k \in 1..Cardinality(T), NEW a \in T
  PROVE  (1 + Cardinality({b \in T : <<b, a>> \in R}) = k) <=> (a = q[k])
<1> DEFINE n == Cardinality(T)
           Earlier(x) == {b \in T : <<b, x>> \in R}
<1>1. n \in Nat
  BY FS_CardinalityType
<1> HIDE DEF n
<1>2. /\ q \in [1..n -> T]
      /\ \A i, j \in 1..n : i < j => <<q[i], q[j]>> \in R
      /\ \A x \in T : \E i \in 1..n : q[i] = x
  BY DEF ListsBy, n
<1>3. \A i, j \in 1..n : q[i] = q[j] => i = j
  <2> SUFFICES ASSUME NEW i \in 1..n, NEW j \in 1..n, q[i] = q[j], i # j
               PROVE  FALSE
    OBVIOUS
  <2>1. i < j \/ j < i
    BY <1>1
  <2> QED
    BY <1>2, <2>1 DEF StrictlyOrders
<1>4. ASSUME NEW j \in 1..n
      PROVE  Cardinality(Earlier(q[j])) = j - 1
  <2> DEFINE f == [i \in 1..(j - 1) |-> q[i]]
             E == Earlier(q[j])
  <2>0. \A i \in 1..(j - 1) : i \in 1..n /\ i < j
    BY <1>1
  <2>1. ASSUME NEW i \in 1..(j - 1)
        PROVE  q[i] \in E
    BY <1>2, <2>0
  <2>2. ASSUME NEW b \in E
        PROVE  \E i \in 1..(j - 1) : q[i] = b
    <3>1. PICK i \in 1..n : q[i] = b
      BY <1>2
    <3>2. <<q[i], q[j]>> \in R
      BY <3>1
    <3>3. ~(j <= i)
      <4>1. CASE j = i
        BY <1>2, <3>2, <4>1 DEF StrictlyOrders
      <4>2. CASE j < i
        <5>1. <<q[j], q[i]>> \in R
          BY <1>2, <4>2
        <5>2. q[i] \in T /\ q[j] \in T
          BY <1>2
        <5> QED
          BY <3>2, <5>1, <5>2 DEF StrictlyOrders
      <4> QED
        BY <1>1, <4>1, <4>2
    <3>4. i \in 1..(j - 1)
      BY <1>1, <3>3
    <3> QED
      BY <3>1, <3>4
  <2> HIDE DEF E
  <2>3. f \in [1..(j - 1) -> E]
    BY <2>1
  <2>4. f \in Injection(1..(j - 1), E)
    BY <1>3, <2>0, <2>3 DEF Injection, IsInjective
  <2>5. f \in Surjection(1..(j - 1), E)
    BY <2>2, <2>3 DEF Surjection
  <2>6. ExistsBijection(1..(j - 1), E)
    BY <2>4, <2>5 DEF ExistsBijection, Bijection
  <2>7. IsFiniteSet(1..(j - 1)) /\ Cardinality(1..(j - 1)) = j - 1
    <3>1. j - 1 \in Int /\ 1 \in Int /\ (IF 1 > j - 1 THEN 0 ELSE j - 1 - 1 + 1) = j - 1
      BY <1>1
    <3> QED
      BY <3>1, FS_Interval
  <2>8. Cardinality(E) = j - 1
    BY <2>6, <2>7, FS_Bijection
  <2> QED
    BY <2>8 DEF E
<1>5. PICK j \in 1..n : q[j] = a
  BY <1>2
<1>6. Cardinality(Earlier(a)) = j - 1
  BY <1>4, <1>5
<1> HIDE DEF Earlier
<1>7. k \in 1..n
  BY DEF n
<1>8. (1 + Cardinality(Earlier(a)) = k) <=> (j = k)
  BY <1>1, <1>6, <1>7
<1>9. (j = k) <=> (a = q[k])
  BY <1>3, <1>5, <1>7
<1> QED
  BY <1>8, <1>9 DEF Earlier

\* One of finitely many numbers is the greatest.
LEMMA GreatestOf ==
  ASSUME NEW n \in Nat, n > 0, NEW f \in [1..n -> Int]
  PROVE  \E i \in 1..n : \A j \in 1..n : f[j] <= f[i]
<1> DEFINE G == {k \in 0..n : k > 0 => \E i \in 1..k : \A j \in 1..k : f[j] <= f[i]}
<1>1. 0 \in G
  OBVIOUS
<1>2. ASSUME NEW k \in 0..(n - 1), k \in G
      PROVE  k + 1 \in G
  <2> DEFINE m == k + 1
  <2>1. m \in 1..n /\ m \in 0..n /\ \A j : j \in 1..m <=> (j \in 1..k \/ j = m)
    OBVIOUS
  <2>2. \A j \in 1..k : j \in 1..n
    OBVIOUS
  <2>3. CASE k = 0
    <3>1. \A j \in 1..m : j = m
      BY <2>3
    <3>2. m \in 1..m /\ f[m] \in Int
      BY <2>1
    <3>3. \A j \in 1..m : f[j] <= f[m]
      BY <3>1, <3>2
    <3> QED
      BY <2>1, <3>2, <3>3
  <2>4. CASE k > 0
    <3>1. PICK i \in 1..k : \A j \in 1..k : f[j] <= f[i]
      BY <1>2, <2>4
    <3> HIDE DEF m
    <3>2. f[i] \in Int /\ f[m] \in Int /\ \A j \in 1..k : f[j] \in Int
      BY <2>1, <2>2
    <3>3. CASE f[m] <= f[i]
      <4>1. \A j \in 1..m : f[j] <= f[i]
        BY <2>1, <3>1, <3>3
      <4> QED
        BY <2>1, <4>1 DEF m
    <3>4. CASE f[i] < f[m]
      <4>1. ASSUME NEW j \in 1..m
            PROVE  f[j] <= f[m]
        <5>1. CASE j = m
          BY <3>2, <5>1
        <5>2. CASE j \in 1..k
          <6>1. f[j] <= f[i] /\ f[j] \in Int
            BY <3>1, <3>2, <5>2
          <6> QED
            BY <3>2, <3>4, <6>1
        <5> QED
          BY <2>1, <5>1, <5>2
      <4>2. m \in 1..m
        BY <2>1
      <4> QED
        BY <2>1, <4>1, <4>2 DEF m
    <3> QED
      BY <3>2, <3>3, <3>4
  <2> QED
    BY <2>3, <2>4
<1>3. n \in G
  <2>1. n \in 0..n
    OBVIOUS
  <2> HIDE DEF G
  <2>2. 0..n \subseteq G
    BY <1>1, <1>2, CountingUp
  <2> QED
    BY <2>1, <2>2
<1> QED
  BY <1>3

\* A division without remainder.
LEMMA WholeShare ==
  ASSUME NEW u \in Nat, NEW d \in Nat \ {0}, u % d = 0
  PROVE  u \div d \in Nat /\ d * (u \div d) = u
<1> DEFINE q == u \div d
<1>1. q \in Int /\ u = d * q + (u % d)
  BY SMT
<1>2. u = d * q
  BY <1>1
<1> HIDE DEF q
<1>3. q >= 0
  BY <1>1, <1>2
<1> QED
  BY <1>1, <1>2, <1>3 DEF q

\* A function on 1..n is a sequence of length n.
LEMMA ListOf ==
  ASSUME NEW n \in Nat, NEW S, NEW f \in [1..n -> S]
  PROVE  f \in Seq(S) /\ Len(f) = n
  OBVIOUS

\* A set of at most n elements.
Few(T, n) == IsFiniteSet(T) /\ Cardinality(T) <= n

LEMMA FewLess ==
  ASSUME NEW n \in Nat, NEW T, Few(T, n), NEW U, U \subseteq T
  PROVE  Few(U, n)
<1>1. IsFiniteSet(U) /\ Cardinality(U) <= Cardinality(T)
  BY FS_Subset DEF Few
<1>2. Cardinality(U) \in Nat /\ Cardinality(T) \in Nat
  BY <1>1, FS_CardinalityType DEF Few
<1> QED
  BY <1>1, <1>2 DEF Few

\* A sequence has no more elements than places.
LEMMA ListIsFew ==
  ASSUME NEW S, NEW q \in Seq(S)
  PROVE  Few(ToSet(q), Len(q))
<1>1. Len(q) \in Nat /\ DOMAIN q = 1..Len(q) /\ q \in [1..Len(q) -> S]
  BY LenProperties
<1>2. q \in Surjection(1..Len(q), ToSet(q))
  <2>1. \A x \in ToSet(q) : \E i \in 1..Len(q) : q[i] = x
    BY ToSetOf
  <2>2. q \in [1..Len(q) -> ToSet(q)]
    BY <1>1, ToSetOf
  <2> QED
    BY <2>1, <2>2 DEF Surjection
<1>3. IsFiniteSet(1..Len(q)) /\ Cardinality(1..Len(q)) = Len(q)
  <2>1. 1 \in Int /\ Len(q) \in Int /\ (1 > Len(q) => Len(q) = 0) /\ Len(q) - 1 + 1 = Len(q)
    BY <1>1
  <2> QED
    BY <2>1, FS_Interval
<1>4. IsFiniteSet(ToSet(q)) /\ Cardinality(ToSet(q)) <= Cardinality(1..Len(q))
  BY <1>2, <1>3, FS_Surjection
<1> QED
  BY <1>3, <1>4 DEF Few

\* A sequence with another element at one of its places.
LEMMA ListExcept ==
  ASSUME NEW S, NEW q \in Seq(S), NEW k \in 1..Len(q), NEW v \in S
  PROVE  /\ [q EXCEPT ![k] = v] \in Seq(S) /\ Len([q EXCEPT ![k] = v]) = Len(q)
         /\ \A i \in 1..Len(q) : [q EXCEPT ![k] = v][i] = IF i = k THEN v ELSE q[i]
<1>1. Len(q) \in Nat /\ q \in [1..Len(q) -> S]
  BY LenProperties
<1> DEFINE n == Len(q)
           r == [q EXCEPT ![k] = v]
<1> HIDE DEF n
<1>2. r \in [1..n -> S] /\ \A i \in 1..n : r[i] = IF i = k THEN v ELSE q[i]
  BY <1>1 DEF n
<1> HIDE DEF r
<1>3. r \in Seq(S) /\ Len(r) = n
  BY <1>1, <1>2, ListOf DEF n
<1> QED
  BY <1>2, <1>3 DEF n, r

\* A part of a sequence.
LEMMA PartOf ==
  ASSUME NEW S, NEW q \in Seq(S), NEW a \in 1..Len(q), NEW b \in 0..Len(q), a <= b + 1
  PROVE  /\ SubSeq(q, a, b) \in Seq(S) /\ Len(SubSeq(q, a, b)) = b - a + 1
         /\ \A i \in 1..(b - a + 1) : SubSeq(q, a, b)[i] = q[a + i - 1]
         /\ \A x : x \in ToSet(SubSeq(q, a, b)) <=> \E i \in a..b : q[i] = x
<1>1. Len(q) \in Nat /\ a \in Int /\ b \in Int /\ a \in Nat /\ b \in Nat
  BY LenProperties
<1>2. \A i \in a..b : q[i] \in S
  BY <1>1, ElementOfSeq
<1> DEFINE r == SubSeq(q, a, b)
           m == b - a + 1
<1>3. r \in Seq(S) /\ Len(r) = (IF a <= b THEN m ELSE 0) /\ \A i \in 1..m : r[i] = q[a + i - 1]
  BY <1>1, <1>2, SubSeqProperties
<1>4. (IF a <= b THEN m ELSE 0) = m /\ m \in Nat
  BY <1>1
<1> HIDE DEF r
<1>5. \A x : x \in ToSet(r) <=> \E i \in 1..Len(r) : r[i] = x
  BY <1>3, ToSetOf
<1>6. ASSUME NEW x
      PROVE  x \in ToSet(r) <=> \E i \in a..b : q[i] = x
  <2>1. ASSUME NEW i \in 1..m, r[i] = x
        PROVE  \E j \in a..b : q[j] = x
    <3>1. a + i - 1 \in a..b
      BY <1>1
    <3> QED
      BY <1>3, <2>1, <3>1
  <2>2. ASSUME NEW j \in a..b, q[j] = x
        PROVE  \E i \in 1..m : r[i] = x
    <3> DEFINE i == j - a + 1
    <3>1. i \in 1..m /\ a + i - 1 = j
      BY <1>1
    <3> HIDE DEF i, m
    <3>2. r[i] = q[a + i - 1]
      BY <1>3, <3>1
    <3> QED
      BY <2>2, <3>1, <3>2
  <2> HIDE DEF m
  <2> QED
    BY <1>3, <1>4, <1>5, <2>1, <2>2
<1> HIDE DEF m
<1> QED
  BY <1>3, <1>4, <1>6 DEF r, m

\* Blocks of t places, the last of them shorter, tile 1..len.
LEMMA Blocks ==
  ASSUME NEW len \in Nat, NEW t \in Nat \ {0}, NEW N, N = (len + t - 1) \div t
  PROVE  /\ N \in Nat
         /\ \A n \in 1..N : /\ (n - 1) * t + 1 \in 1..len /\ Min({n * t, len}) \in 1..len
                            /\ (n - 1) * t + 1 <= Min({n * t, len})
                            /\ Min({n * t, len}) - ((n - 1) * t + 1) + 1 <= t
         /\ \A m, n \in 1..N : m < n => Min({m * t, len}) < (n - 1) * t + 1
         /\ \A i \in 1..len : \E n \in 1..N : (n - 1) * t + 1 <= i /\ i <= Min({n * t, len})
<1>1. ASSUME NEW n \in Nat
      PROVE  n * t \in Nat /\ (n - 1) * t \in Int /\ (n - 1) * t = n * t - t
  BY SMT
<1>2. ASSUME NEW m \in Nat, NEW n \in Nat, m < n
      PROVE  m * t + t <= n * t
  <2> DEFINE d == n - 1 - m
  <2>1. d \in Nat
    BY <1>2
  <2>2. d * t = n * t - t - m * t
    BY SMT
  <2>3. d * t \in Nat
    <3> HIDE DEF d
    <3> QED
      BY <1>1, <2>1
  <2>4. m * t \in Nat /\ n * t \in Nat
    BY <1>1
  <2> HIDE DEF d
  <2> QED
    BY <2>2, <2>3, <2>4
<1>3. \A x \in Nat : /\ x \div t \in Int /\ x = t * (x \div t) + (x % t)
                     /\ x % t \in Int /\ 0 <= x % t /\ x % t < t
  BY SMT
<1>4. ASSUME NEW x \in Nat, NEW q, q = x \div t
      PROVE  q \in Nat /\ q * t <= x /\ x < q * t + t
  <2>1. q \in Int /\ x = t * q + (x % t) /\ x % t \in Int /\ 0 <= x % t /\ x % t < t
    BY <1>3, <1>4
  <2>2. t * q = q * t /\ q * t \in Int
    BY <2>1
  <2> DEFINE r == x % t
             p == q * t
  <2>3. r \in Int /\ p \in Int /\ x = p + r /\ 0 <= r /\ r < t
    BY <2>1, <2>2
  <2>4. q >= 0
    BY <2>1
  <2> HIDE DEF r, p
  <2>5. p <= x /\ x < p + t
    BY <2>3
  <2> QED
    BY <2>1, <2>4, <2>5 DEF p
<1>5. N \in Nat /\ N * t <= len + t - 1 /\ len <= N * t
  <2>1. len + t - 1 \in Nat
    OBVIOUS
  <2>2. N \in Nat /\ N * t <= len + t - 1 /\ len + t - 1 < N * t + t
    BY <1>4, <2>1
  <2>3. N * t \in Nat
    BY <1>1, <2>2
  <2> DEFINE p == N * t
  <2>4. p \in Nat /\ len + t - 1 < p + t
    BY <2>2, <2>3
  <2> HIDE DEF p
  <2>5. len <= p
    BY <2>4
  <2> QED
    BY <2>2, <2>5 DEF p
<1>6. ASSUME NEW x \in Nat
      PROVE  Min({x, len}) \in {x, len} /\ Min({x, len}) <= x /\ Min({x, len}) <= len
  <2>1. \E m \in {x, len} : \A y \in {x, len} : m <= y
    OBVIOUS
  <2> QED
    BY <2>1 DEF Min
<1>7. ASSUME NEW n \in 1..N
      PROVE  /\ n * t \in Nat /\ (n - 1) * t \in Nat /\ (n - 1) * t = n * t - t
             /\ (n - 1) * t + 1 <= len
  <2>1. n \in Nat /\ n - 1 \in Nat /\ n - 1 < N
    BY <1>5
  <2>2. n * t \in Nat /\ (n - 1) * t \in Nat /\ (n - 1) * t = n * t - t
    BY <1>1, <2>1
  <2>3. (n - 1) * t + t <= N * t
    BY <1>2, <1>5, <2>1
  <2>4. N * t \in Nat
    BY <1>1, <1>5
  <2> DEFINE p == N * t
             a == (n - 1) * t
  <2>5. p \in Nat /\ a \in Nat /\ a + t <= p /\ p <= len + t - 1
    BY <1>5, <2>2, <2>3, <2>4
  <2> HIDE DEF p, a
  <2>6. a + 1 <= len
    BY <2>5
  <2> QED
    BY <2>2, <2>6 DEF a
<1>8. ASSUME NEW n \in 1..N
      PROVE  /\ (n - 1) * t + 1 \in 1..len /\ Min({n * t, len}) \in 1..len
             /\ (n - 1) * t + 1 <= Min({n * t, len})
             /\ Min({n * t, len}) - ((n - 1) * t + 1) + 1 <= t
  <2> DEFINE a == (n - 1) * t
             p == n * t
             b == Min({p, len})
  <2>1. a \in Nat /\ p \in Nat /\ a = p - t /\ a + 1 <= len
    BY <1>7
  <2> HIDE DEF p
  <2>2. b \in {p, len} /\ b <= p /\ b <= len
    BY <1>6, <2>1
  <2> HIDE DEF a, b
  <2>3. a + 1 \in 1..len /\ b \in 1..len /\ a + 1 <= b /\ b - (a + 1) + 1 <= t
    BY <2>1, <2>2
  <2> QED
    BY <2>3 DEF a, b, p
<1>9. ASSUME NEW m \in 1..N, NEW n \in 1..N, m < n
      PROVE  Min({m * t, len}) < (n - 1) * t + 1
  <2> DEFINE a == (n - 1) * t
             p == m * t
             b == Min({p, len})
             e == n * t
  <2>1. a \in Nat /\ p \in Nat /\ e \in Nat /\ a = e - t
    BY <1>7
  <2>2. p + t <= e
    BY <1>2, <1>5, <1>9
  <2> HIDE DEF p
  <2>3. b \in {p, len} /\ b <= p
    BY <1>6, <2>1
  <2> HIDE DEF a, b, e
  <2>4. b < a + 1
    BY <2>1, <2>2, <2>3
  <2> QED
    BY <2>4 DEF a, b, p
<1>10. ASSUME NEW i \in 1..len
       PROVE  \E n \in 1..N : (n - 1) * t + 1 <= i /\ i <= Min({n * t, len})
  <2> DEFINE x == i - 1
             q == x \div t
             n == q + 1
  <2>1. x \in Nat /\ x < len /\ i = x + 1
    OBVIOUS
  <2> HIDE DEF x
  <2>2. q \in Nat /\ q * t <= x /\ x < q * t + t
    BY <1>4, <2>1
  <2> HIDE DEF q
  <2>3. n \in Nat /\ n - 1 = q /\ n >= 1
    BY <2>2
  <2> HIDE DEF n
  <2>4. n * t \in Nat /\ (n - 1) * t = n * t - t /\ (n - 1) * t = q * t
    BY <1>1, <2>3
  <2>5. n \in 1..N
    <3>1. SUFFICES ASSUME N < n
                   PROVE  FALSE
      BY <1>5, <2>3
    <3>2. N * t + t <= n * t
      BY <1>2, <1>5, <2>3, <3>1
    <3> DEFINE p == N * t
               e == n * t
               f == q * t
    <3>3. p \in Nat /\ e \in Nat /\ f = e - t /\ p + t <= e /\ f <= x /\ len <= p
      BY <1>1, <1>5, <2>2, <2>4, <3>2
    <3> HIDE DEF p, e, f
    <3> QED
      BY <2>1, <3>3
  <2>6. (n - 1) * t + 1 <= i /\ i <= Min({n * t, len})
    <3> DEFINE e == n * t
               f == q * t
               b == Min({e, len})
    <3>1. e \in Nat /\ f = e - t /\ f <= x /\ x < f + t /\ (n - 1) * t = f
      BY <2>2, <2>4
    <3> HIDE DEF e
    <3>2. b \in {e, len}
      BY <1>6, <3>1
    <3> HIDE DEF f, b
    <3>3. f + 1 <= i /\ i <= b
      BY <2>1, <3>1, <3>2
    <3> QED
      BY <3>1, <3>3 DEF b, e
  <2> QED
    BY <2>5, <2>6
<1> QED
  BY <1>5, <1>8, <1>9, <1>10

\* The numbers in their order.
Less == {p \in Nat \X Nat : p[1] < p[2]}

LEMMA LessIs ==
  ASSUME NEW a \in Nat, NEW b \in Nat
  PROVE  <<a, b>> \in Less <=> a < b
  BY DEF Less

\* Numbers in their order that are all of 1..n are the sequence 1, 2, ... n.
LEMMA AllInOrder ==
  ASSUME NEW n \in Nat, NEW q, q \in Seq(1..n), Rising(q, Less),
         \A x \in 1..n : x \in ToSet(q)
  PROVE  q = [r \in 1..n |-> r]
<1>1. Len(q) \in Nat /\ (\A i \in 1..Len(q) : q[i] \in 1..n) /\ DOMAIN q = 1..Len(q)
  BY ElementOfSeq, LenProperties
<1>2. \A x \in 1..n : \E i \in 1..Len(q) : q[i] = x
  BY ToSetOf
<1>3. \A i, j \in 1..Len(q) : i < j => q[i] < q[j]
  <2>1. \A i, j \in 1..Len(q) : i < j => <<q[i], q[j]>> \in Less
    BY DEF Rising
  <2>2. \A i \in 1..Len(q) : q[i] \in Nat
    BY <1>1
  <2> QED
    BY <2>1, <2>2, LessIs
<1> DEFINE G == {k \in 0..Len(q) : \A i \in 1..k : q[i] = i}
<1>4. 0 \in G
  BY <1>1
<1>5. ASSUME NEW k \in 0..(Len(q) - 1), k \in G
      PROVE  k + 1 \in G
  <2>1. k + 1 \in 1..Len(q) /\ k \in Nat
    BY <1>1
  <2>2. k = 0 \/ (k \in 1..Len(q) /\ q[k] = k)
    BY <1>1, <1>5
  <2>3. q[k + 1] \in Nat /\ q[k + 1] >= k + 1
    BY <1>1, <1>3, <2>1, <2>2
  <2>4. PICK j \in 1..Len(q) : q[j] = k + 1
    BY <1>1, <1>2, <2>1, <2>3
  <2>5. ~(j <= k)
    BY <1>1, <1>5, <2>1, <2>4
  <2>6. j = k + 1
    BY <1>1, <1>3, <2>1, <2>3, <2>4, <2>5
  <2>7. \A i \in 1..(k + 1) : q[i] = i
    BY <1>5, <2>1, <2>4, <2>6
  <2> QED
    BY <2>1, <2>7
<1>6. 0..Len(q) \subseteq G
  <2> HIDE DEF G
  <2> QED
    BY <1>1, <1>4, <1>5, CountingUp
<1>7. \A i \in 1..Len(q) : q[i] = i
  <2>1. Len(q) \in 0..Len(q)
    BY <1>1
  <2> QED
    BY <1>6, <2>1
<1>8. Len(q) = n
  <2>1. Len(q) <= n
    <3>1. CASE Len(q) = 0
      BY <3>1
    <3>2. CASE Len(q) # 0
      <4>1. Len(q) \in 1..Len(q)
        BY <1>1, <3>2
      <4> QED
        BY <1>1, <1>7, <4>1
    <3> QED
      BY <3>1, <3>2
  <2>2. n <= Len(q)
    <3>1. CASE n = 0
      BY <1>1, <3>1
    <3>2. CASE n # 0
      <4>1. n \in 1..n
        BY <3>2
      <4>2. PICK i \in 1..Len(q) : q[i] = n
        BY <1>2, <4>1
      <4> QED
        BY <1>1, <1>7, <4>2
    <3> QED
      BY <3>1, <3>2
  <2>3. Len(q) \in Nat
    BY <1>1
  <2> QED
    BY <2>1, <2>2, <2>3
<1> QED
  BY <1>1, <1>7, <1>8

LEMMA InList ==
  ASSUME NEW S, NEW q \in Seq(S)
  PROVE  \A x \in ToSet(q) : x \in S
<1>1. \A i \in 1..Len(q) : q[i] \in S
  BY ElementOfSeq
<1> QED
  BY <1>1, ToSetOf

LEMMA SingleIs ==
  ASSUME NEW S, NEW x \in S
  PROVE  /\ <<x>> \in Seq(S) /\ <<x>> # <<>> /\ Len(<<x>>) = 1 /\ Rising(<<x>>, Less)
         /\ \A y : y \in ToSet(<<x>>) <=> y = x
  BY DEF Rising, ToSet

LEMMA AppendIs ==
  ASSUME NEW S, NEW q \in Seq(S), NEW x \in S
  PROVE  /\ Append(q, x) \in Seq(S) /\ Append(q, x) # <<>> /\ Len(Append(q, x)) = Len(q) + 1
         /\ \A y : y \in ToSet(Append(q, x)) <=> y \in ToSet(q) \/ y = x
         /\ \A i \in 1..Len(q) : i \in 1..(Len(q) + 1) /\ Append(q, x)[i] = q[i]
         /\ Append(q, x)[Len(q) + 1] = x /\ Len(q) \in Nat
<1>1. Append(q, x) = q \o <<x>> /\ <<x>> \in Seq(S)
  BY AppendIsConcat
<1>2. \A y : y \in ToSet(Append(q, x)) <=> y \in ToSet(q) \/ y = x
  BY <1>1, ConcatSet, SingleIs
<1>3. /\ Append(q, x) \in Seq(S) /\ Append(q, x) # <<>> /\ Len(Append(q, x)) = Len(q) + 1
      /\ \A i \in 1..Len(q) : Append(q, x)[i] = q[i]
      /\ Append(q, x)[Len(q) + 1] = x
  BY AppendProperties
<1>4. Len(q) \in Nat
  BY LenProperties
<1>5. \A i \in 1..Len(q) : i \in 1..(Len(q) + 1)
  <2> DEFINE n == Len(q)
  <2>1. n \in Nat
    BY <1>4
  <2> HIDE DEF n
  <2>2. \A i \in 1..n : i \in 1..(n + 1)
    BY <2>1
  <2> QED
    BY <2>2 DEF n
<1> QED
  BY <1>2, <1>3, <1>4, <1>5

\* Numbers in order and a greater one are in order.
LEMMA AppendRises ==
  ASSUME NEW S, S \subseteq Nat, NEW q \in Seq(S), NEW x \in S, Rising(q, Less),
         \A y \in ToSet(q) : y < x
  PROVE  Rising(Append(q, x), Less)
<1>1. Append(q, x) = q \o <<x>> /\ <<x>> \in Seq(S)
  BY AppendIsConcat
<1>2. \A a \in ToSet(q), b \in ToSet(<<x>>) : <<a, b>> \in Less
  <2>1. \A a \in ToSet(q) : a \in Nat
    BY InList
  <2> QED
    BY <2>1, SingleIs, LessIs
<1>3. Rising(<<x>>, Less)
  BY SingleIs
<1> QED
  BY <1>1, <1>2, <1>3, ConcatRises

\* A set of numbers that is not empty has a least element, its minimum.
LEMMA NatLeast ==
  ASSUME NEW T, T \subseteq Nat, T # {}
  PROVE  Min(T) \in T /\ \A m \in T : Min(T) <= m
<1>1. \E n \in T : \A m \in T : n <= m
  BY NatMin
<1> QED
  BY <1>1 DEF Min

\* A list of the numbers up to n.
LEMMA ListUpTo ==
  ASSUME NEW n \in Nat
  PROVE  /\ [k \in 1..n |-> k] \in Seq(1..n) /\ Len([k \in 1..n |-> k]) = n
         /\ DOMAIN [k \in 1..n |-> k] = 1..n
         /\ \A k \in 1..n : [j \in 1..n |-> j][k] = k
<1> DEFINE q == [k \in 1..n |-> k]
<1>1. q \in [1..n -> 1..n]
  OBVIOUS
<1>2. q \in Seq(1..n) /\ Len(q) = n
  BY <1>1, ListOf
<1> QED
  BY <1>1, <1>2

\* A sequence with one element more.
LEMMA ListGrows ==
  ASSUME NEW S, NEW atoms \in Seq(S), NEW a \in S
  PROVE  LET t == Append(atoms, a)
         IN  /\ t \in Seq(S) /\ Len(t) = Len(atoms) + 1 /\ Len(atoms) \in Nat
             /\ \A i \in 1..Len(atoms) : i \in 1..Len(t) /\ t[i] = atoms[i]
             /\ Len(t) \in 1..Len(t) /\ t[Len(t)] = a
             /\ \A i \in 1..Len(t) : i \in 1..Len(atoms) \/ i = Len(t)
<1>1. /\ Append(atoms, a) \in Seq(S) /\ Len(Append(atoms, a)) = Len(atoms) + 1
      /\ \A i \in 1..Len(atoms) : i \in 1..(Len(atoms) + 1) /\ Append(atoms, a)[i] = atoms[i]
      /\ Append(atoms, a)[Len(atoms) + 1] = a /\ Len(atoms) \in Nat
  BY AppendIs
<1> DEFINE n == Len(atoms)
           m == n + 1
<1>2. n \in Nat /\ m \in 1..m /\ \A i \in 1..m : i \in 1..n \/ i = m
  <2>1. n \in Nat
    BY <1>1
  <2> HIDE DEF n
  <2> QED
    BY <2>1
<1> QED
  BY <1>1, <1>2

LEMMA ListWider ==
  ASSUME NEW S, NEW T, S \subseteq T, NEW q \in Seq(S)
  PROVE  q \in Seq(T)
<1>1. Len(q) \in Nat /\ q \in [1..Len(q) -> S]
  BY LenProperties
<1>2. q \in [1..Len(q) -> T]
  BY <1>1
<1> QED
  BY <1>1, <1>2, ListOf

\* Pairs of different elements.
Unequal(S) == {p \in S \X S : p[1] # p[2]}

LEMMA UnequalIs ==
  ASSUME NEW S, NEW a \in S, NEW b \in S
  PROVE  <<a, b>> \in Unequal(S) <=> a # b
  BY DEF Unequal

\* A sequence that repeats nothing has as many elements as places.
LEMMA DistinctCount ==
  ASSUME NEW S, NEW q \in Seq(S), Rising(q, Unequal(S))
  PROVE  Cardinality(ToSet(q)) = Len(q)
<1> DEFINE n == Len(q)
           T == ToSet(q)
           f == [i \in 1..n |-> q[i]]
<1>1. n \in Nat /\ \A i \in 1..n : q[i] \in S
  BY LenProperties, ElementOfSeq
<1>2. \A x : x \in T <=> \E i \in 1..n : q[i] = x
  BY ToSetOf
<1>3. \A i, j \in 1..n : i < j => q[i] # q[j]
  BY <1>1, UnequalIs DEF Rising
<1> HIDE DEF n, T
<1>4. f \in Injection(1..n, T)
  <2>1. f \in [1..n -> T]
    BY <1>2
  <2>2. ASSUME NEW i \in 1..n, NEW j \in 1..n, f[i] = f[j]
        PROVE  i = j
    BY <1>1, <1>3, <2>2
  <2> QED
    BY <2>1, <2>2 DEF Injection, IsInjective
<1>5. f \in Surjection(1..n, T)
  <2>1. f \in [1..n -> T] /\ \A x \in T : \E i \in 1..n : f[i] = x
    BY <1>2
  <2> QED
    BY <2>1 DEF Surjection
<1>6. ExistsBijection(1..n, T)
  BY <1>4, <1>5 DEF ExistsBijection, Bijection
<1>7. IsFiniteSet(1..n) /\ Cardinality(1..n) = n
  BY <1>1, FS_Interval
<1>8. Cardinality(T) = Cardinality(1..n)
  BY <1>6, <1>7, FS_Bijection
<1> QED
  BY <1>7, <1>8 DEF n, T

-----------------------------------------------------------------------------
(* Sums over sets.                                                         *)

\* The sum of the values of f over a set.
Total(f, S) == MapThenSumSet(LAMBDA x : f[x], S)

\* g sums f over the subsets of S, taking one element after another.
SumsSets(g, f, S) ==
  /\ g \in [SUBSET S -> Nat]
  /\ \A s \in SUBSET S :
       g[s] = IF s = {} THEN 0 ELSE f[CHOOSE x \in s : TRUE] + g[s \ {CHOOSE x \in s : TRUE}]

\* The recursion of a sum over a finite set has a solution.
LEMMA SumRecursion ==
  ASSUME NEW S, IsFiniteSet(S), NEW f, \A x \in S : f[x] \in Nat
  PROVE  \E g : SumsSets(g, f, S)
<1> DEFINE pick(s) == CHOOSE x \in s : TRUE
           Small(k) == {s \in SUBSET S : Cardinality(s) <= k}
           Solves(g, k) ==
             /\ g \in [Small(k) -> Nat]
             /\ \A s \in Small(k) : g[s] = IF s = {} THEN 0 ELSE f[pick(s)] + g[s \ {pick(s)}]
           n == Cardinality(S)
           G == {k \in 0..n : \E g : Solves(g, k)}
<1>1. n \in Nat /\ \A s \in SUBSET S : IsFiniteSet(s) /\ Cardinality(s) \in 0..n
  <2>1. n \in Nat
    BY FS_CardinalityType
  <2>2. ASSUME NEW s \in SUBSET S
        PROVE  IsFiniteSet(s) /\ Cardinality(s) \in 0..n
    <3>1. IsFiniteSet(s) /\ Cardinality(s) <= n
      BY FS_Subset
    <3>2. Cardinality(s) \in Nat
      BY <3>1, FS_CardinalityType
    <3> QED
      BY <2>1, <3>1, <3>2
  <2> QED
    BY <2>1, <2>2
<1>2. ASSUME NEW s \in SUBSET S, s # {}
      PROVE  /\ pick(s) \in s /\ pick(s) \in S /\ s \ {pick(s)} \in SUBSET S
             /\ Cardinality(s \ {pick(s)}) = Cardinality(s) - 1
  <2>1. pick(s) \in s
    BY <1>2
  <2>2. IsFiniteSet(s)
    BY <1>1
  <2> HIDE DEF pick
  <2>3. Cardinality(s \ {pick(s)}) = Cardinality(s) - 1
    BY <2>1, <2>2, FS_RemoveElement
  <2> QED
    BY <2>1, <2>3
<1> HIDE DEF pick
<1>3. 0 \in G
  <2>1. \A s \in Small(0) : s = {}
    <3> SUFFICES ASSUME NEW s \in Small(0), s # {}
                 PROVE  FALSE
      OBVIOUS
    <3>1. IsFiniteSet(s) /\ Cardinality(s) = 0
      BY <1>1
    <3> QED
      BY <3>1, FS_EmptySet
  <2>2. Solves([s \in Small(0) |-> 0], 0)
    BY <2>1
  <2>3. 0 \in 0..n
    BY <1>1
  <2> HIDE DEF Solves
  <2> QED
    BY <2>2, <2>3
<1>4. ASSUME NEW k \in 0..(n - 1), k \in G
      PROVE  k + 1 \in G
  <2> DEFINE m == k + 1
  <2>1. PICK g : Solves(g, k)
    BY <1>4
  <2> DEFINE h == [s \in Small(m) |-> IF s = {} THEN 0 ELSE f[pick(s)] + g[s \ {pick(s)}]]
  <2>2. m \in 0..n /\ m - 1 = k /\ k \in Nat
    BY <1>1
  <2>3. ASSUME NEW s \in Small(m), s # {}
        PROVE  s \ {pick(s)} \in Small(k) /\ s \ {pick(s)} \in Small(m) /\ f[pick(s)] \in Nat
    <3>1. Cardinality(s) \in Nat
      BY <1>1
    <3> QED
      BY <1>2, <2>2, <2>3, <3>1
  <2> HIDE DEF m
  <2>4. h \in [Small(m) -> Nat]
    <3>1. \A s \in Small(k) : g[s] \in Nat
      BY <2>1
    <3> HIDE DEF Small
    <3> QED
      BY <2>3, <3>1
  <2>5. \A s \in Small(k) : s \in Small(m) /\ h[s] = g[s]
    <3>1. \A s \in Small(k) : s \in Small(m)
      BY <1>1, <2>2
    <3>2. \A s \in Small(k) : g[s] = IF s = {} THEN 0 ELSE f[pick(s)] + g[s \ {pick(s)}]
      BY <2>1
    <3> HIDE DEF Small
    <3> QED
      BY <3>1, <3>2
  <2>6. \A s \in Small(m) : h[s] = IF s = {} THEN 0 ELSE f[pick(s)] + h[s \ {pick(s)}]
    <3> HIDE DEF Small
    <3> QED
      BY <2>3, <2>5
  <2>7. Solves(h, m)
    BY <2>4, <2>6
  <2> HIDE DEF Solves
  <2> QED
    BY <2>2, <2>7 DEF m
<1>5. n \in G
  <2> HIDE DEF G
  <2>1. 0..n \subseteq G
    BY <1>1, <1>3, <1>4, CountingUp
  <2> QED
    BY <1>1, <2>1
<1>6. PICK g : Solves(g, n)
  BY <1>5
<1>7. Small(n) = SUBSET S
  BY <1>1
<1>8. SumsSets(g, f, S)
  BY <1>6, <1>7 DEF SumsSets, pick
<1> QED
  BY <1>8

\* Total is defined by that recursion.
LEMMA TotalSolves ==
  ASSUME NEW S, IsFiniteSet(S), NEW f, \A x \in S : f[x] \in Nat
  PROVE  \E g : SumsSets(g, f, S) /\ Total(f, S) = g[S]
<1> DEFINE P(g) == g = [s \in SUBSET S |-> IF s = {} THEN 0
                          ELSE f[CHOOSE x \in s : TRUE] + g[s \ {CHOOSE x \in s : TRUE}]]
           iter == CHOOSE g : P(g)
<1>1. PICK g : SumsSets(g, f, S)
  BY SumRecursion
<1>2. P(g)
  BY <1>1 DEF SumsSets
<1>3. P(iter)
  BY <1>2
<1>4. Total(f, S) = iter[S]
  BY DEF Total, MapThenSumSet, MapThenFoldSet
<1>5. iter = g
  <2> DEFINE D == {s \in SUBSET S : iter[s] # g[s]}
             T == {Cardinality(s) : s \in D}
  <2>1. D = {}
    <3> SUFFICES ASSUME D # {}
                 PROVE  FALSE
      OBVIOUS
    <3>1. \A s \in SUBSET S : IsFiniteSet(s) /\ Cardinality(s) \in Nat
      BY FS_Subset, FS_CardinalityType
    <3>2. T \subseteq Nat /\ T # {}
      BY <3>1
    <3>3. PICK m \in T : \A k \in T : m <= k
      BY <3>2, NatMin
    <3>4. PICK s \in D : m = Cardinality(s)
      BY <3>3
    <3> DEFINE x == CHOOSE x \in s : TRUE
    <3>5. s # {}
      BY <1>1, <1>3, <3>4 DEF SumsSets
    <3>6. x \in s /\ s \ {x} \in SUBSET S
      BY <3>4, <3>5
    <3>7. iter[s] = f[x] + iter[s \ {x}] /\ g[s] = f[x] + g[s \ {x}]
      BY <1>1, <1>3, <3>4, <3>5 DEF SumsSets
    <3> HIDE DEF x, iter
    <3>8. Cardinality(s \ {x}) = m - 1
      BY <3>1, <3>4, <3>6, FS_RemoveElement
    <3>9. s \ {x} \notin D
      <4>1. ASSUME s \ {x} \in D
            PROVE  FALSE
        <5>1. m - 1 \in T
          BY <3>8, <4>1
        <5>2. m <= m - 1
          BY <3>3, <5>1
        <5> QED
          BY <3>2, <3>3, <5>2
      <4> QED
        BY <4>1
    <3> QED
      BY <3>4, <3>6, <3>7, <3>9
  <2>2. DOMAIN iter = SUBSET S /\ DOMAIN g = SUBSET S
    BY <1>1, <1>3 DEF SumsSets
  <2>3. iter = [s \in SUBSET S |-> iter[s]]
    BY <1>3
  <2>4. g = [s \in SUBSET S |-> g[s]]
    BY <1>1 DEF SumsSets
  <2> HIDE DEF iter
  <2>5. \A s \in SUBSET S : iter[s] = g[s]
    BY <2>1
  <2> QED
    BY <2>3, <2>4, <2>5
<1> QED
  BY <1>1, <1>4, <1>5

\* A sum is one element's value and the sum of the others, whichever element.
LEMMA SumTakes ==
  ASSUME NEW S, IsFiniteSet(S), NEW f, \A x \in S : f[x] \in Nat, NEW g, SumsSets(g, f, S),
         NEW s \in SUBSET S, NEW y \in s
  PROVE  g[s] = f[y] + g[s \ {y}]
<1> DEFINE D == {t \in SUBSET S : \E z \in t : g[t] # f[z] + g[t \ {z}]}
           T == {Cardinality(t) : t \in D}
           pick(t) == CHOOSE x \in t : TRUE
<1>1. \A t \in SUBSET S : IsFiniteSet(t) /\ Cardinality(t) \in Nat
  BY FS_Subset, FS_CardinalityType
<1>2. ASSUME NEW t \in SUBSET S, t # {}
      PROVE  pick(t) \in t /\ g[t] = f[pick(t)] + g[t \ {pick(t)}]
  BY <1>2 DEF SumsSets
<1>3. \A t \in SUBSET S : g[t] \in Nat
  BY DEF SumsSets
<1> HIDE DEF pick
<1>4. D = {}
  <2> SUFFICES ASSUME D # {}
               PROVE  FALSE
    OBVIOUS
  <2>1. T \subseteq Nat /\ T # {}
    BY <1>1
  <2>2. PICK m \in T : \A k \in T : m <= k
    BY <2>1, NatMin
  <2>3. PICK t \in D : m = Cardinality(t)
    BY <2>2
  <2>4. PICK z \in t : g[t] # f[z] + g[t \ {z}]
    BY <2>3
  <2> DEFINE x == pick(t)
             u == t \ {x}
             v == t \ {z}
             w == t \ {x, z}
  <2>5. t \in SUBSET S /\ t # {} /\ x \in t /\ g[t] = f[x] + g[u]
    BY <1>2, <2>3, <2>4
  <2>6. x # z
    BY <2>4, <2>5
  <2>7. Cardinality(u) = m - 1 /\ Cardinality(v) = m - 1
    BY <1>1, <2>3, <2>4, <2>5, FS_RemoveElement
  <2>8. u \in SUBSET S /\ v \in SUBSET S /\ w \in SUBSET S /\ z \in u /\ x \in v
        /\ u \ {z} = w /\ v \ {x} = w
    BY <2>4, <2>5, <2>6
  <2>9. ASSUME NEW q \in SUBSET S, Cardinality(q) = m - 1
        PROVE  q \notin D
    <3>1. ASSUME q \in D
          PROVE  FALSE
      <4>1. m <= m - 1
        BY <2>2, <2>9, <3>1
      <4> QED
        BY <2>1, <2>2, <4>1
    <3> QED
      BY <3>1
  <2>10. u \notin D /\ v \notin D
    BY <2>7, <2>8, <2>9
  <2> HIDE DEF u, v, w
  <2>11. g[u] = f[z] + g[w] /\ g[v] = f[x] + g[w]
    BY <2>8, <2>10
  <2>12. f[x] \in Nat /\ f[z] \in Nat /\ g[w] \in Nat
    BY <1>3, <2>4, <2>5, <2>8
  <2>13. g[t] = f[z] + g[v]
    BY <2>5, <2>11, <2>12
  <2> QED
    BY <2>4, <2>13 DEF v
<1> QED
  BY <1>4

\* Two sums over one set agree on its subsets.
LEMMA TotalOf ==
  ASSUME NEW S, IsFiniteSet(S), NEW f, \A x \in S : f[x] \in Nat, NEW g, SumsSets(g, f, S),
         NEW s \in SUBSET S, NEW e, \A x \in s : e[x] = f[x]
  PROVE  Total(e, s) = g[s]
<1>1. IsFiniteSet(s) /\ \A x \in s : e[x] \in Nat
  BY FS_Subset
<1>2. PICK h : SumsSets(h, e, s) /\ Total(e, s) = h[s]
  BY <1>1, TotalSolves
<1> DEFINE D == {t \in SUBSET s : h[t] # g[t]}
           T == {Cardinality(t) : t \in D}
<1>3. D = {}
  <2> SUFFICES ASSUME D # {}
               PROVE  FALSE
    OBVIOUS
  <2>1. \A t \in SUBSET s : IsFiniteSet(t) /\ Cardinality(t) \in Nat
    BY <1>1, FS_Subset, FS_CardinalityType
  <2>2. T \subseteq Nat /\ T # {}
    BY <2>1
  <2>3. PICK m \in T : \A k \in T : m <= k
    BY <2>2, NatMin
  <2>4. PICK t \in D : m = Cardinality(t)
    BY <2>3
  <2> DEFINE x == CHOOSE x \in t : TRUE
             u == t \ {x}
  <2>5. t # {}
    BY <1>2, <2>4 DEF SumsSets
  <2>6. x \in t /\ u \in SUBSET s /\ t \in SUBSET s /\ t \in SUBSET S
    BY <2>4, <2>5
  <2>7. h[t] = e[x] + h[u]
    BY <1>2, <2>5, <2>6 DEF SumsSets
  <2>8. g[t] = f[x] + g[u]
    BY <2>5, <2>6 DEF SumsSets
  <2> HIDE DEF x
  <2>9. Cardinality(u) = m - 1
    BY <2>1, <2>4, <2>6, FS_RemoveElement
  <2> HIDE DEF u
  <2>10. u \notin D
    <3>1. ASSUME u \in D
          PROVE  FALSE
      <4>1. m <= m - 1
        BY <2>3, <2>9, <3>1
      <4>2. m \in Nat
        BY <2>2
      <4> HIDE DEF T
      <4> QED
        BY <4>1, <4>2
    <3> QED
      BY <3>1
  <2>11. h[u] = g[u] /\ e[x] = f[x]
    BY <2>6, <2>10
  <2> QED
    BY <2>4, <2>7, <2>8, <2>11
<1> QED
  BY <1>2, <1>3

LEMMA TotalNone ==
  ASSUME NEW f
  PROVE  Total(f, {}) = 0
<1>1. IsFiniteSet({}) /\ \A x \in {} : f[x] \in Nat
  BY FS_EmptySet
<1>2. PICK g : SumsSets(g, f, {}) /\ Total(f, {}) = g[{}]
  BY <1>1, TotalSolves
<1> QED
  BY <1>2 DEF SumsSets

LEMMA TotalTyped ==
  ASSUME NEW S, IsFiniteSet(S), NEW f, \A x \in S : f[x] \in Nat
  PROVE  Total(f, S) \in Nat
<1>1. PICK g : SumsSets(g, f, S) /\ Total(f, S) = g[S]
  BY TotalSolves
<1> QED
  BY <1>1 DEF SumsSets

LEMMA TotalTakes ==
  ASSUME NEW S, IsFiniteSet(S), NEW f, \A x \in S : f[x] \in Nat, NEW y \in S
  PROVE  Total(f, S) = f[y] + Total(f, S \ {y})
<1>1. PICK g : SumsSets(g, f, S) /\ Total(f, S) = g[S]
  BY TotalSolves
<1>2. g[S] = f[y] + g[S \ {y}]
  BY <1>1, SumTakes
<1>3. Total(f, S \ {y}) = g[S \ {y}]
  BY <1>1, TotalOf
<1> QED
  BY <1>1, <1>2, <1>3

LEMMA TotalSame ==
  ASSUME NEW S, IsFiniteSet(S), NEW f, NEW e, \A x \in S : f[x] \in Nat /\ e[x] = f[x]
  PROVE  Total(e, S) = Total(f, S)
<1>1. PICK g : SumsSets(g, f, S) /\ Total(f, S) = g[S]
  BY TotalSolves
<1>2. Total(e, S) = g[S]
  BY <1>1, TotalOf
<1> QED
  BY <1>1, <1>2

\* Adding elements one by one reaches a finite set: induction over sets.
LEMMA FiniteUp ==
  ASSUME NEW S, IsFiniteSet(S), NEW G, {} \in G,
         \A s \in SUBSET S : \A x \in S : s \in G /\ x \notin s => s \cup {x} \in G
  PROVE  S \in G
<1> DEFINE D == {s \in SUBSET S : s \notin G}
           T == {Cardinality(s) : s \in D}
<1>1. \A s \in SUBSET S : IsFiniteSet(s) /\ Cardinality(s) \in Nat
  BY FS_Subset, FS_CardinalityType
<1>2. D = {}
  <2> SUFFICES ASSUME D # {}
               PROVE  FALSE
    OBVIOUS
  <2>1. T \subseteq Nat /\ T # {}
    BY <1>1
  <2>2. PICK m \in T : \A k \in T : m <= k
    BY <2>1, NatMin
  <2>3. PICK s \in D : m = Cardinality(s)
    BY <2>2
  <2>4. PICK x \in s : TRUE
    BY <2>3
  <2> DEFINE u == s \ {x}
  <2>5. u \in SUBSET S /\ x \in S /\ x \notin u /\ u \cup {x} = s
    BY <2>3
  <2>6. Cardinality(u) = m - 1
    BY <1>1, <2>3, FS_RemoveElement
  <2>7. u \notin D
    <3>1. ASSUME u \in D
          PROVE  FALSE
      <4>1. m <= m - 1
        BY <2>2, <2>6, <3>1
      <4>2. m \in Nat
        BY <2>1
      <4> HIDE DEF T
      <4> QED
        BY <4>1, <4>2
    <3> QED
      BY <3>1
  <2> HIDE DEF u
  <2> QED
    BY <2>3, <2>5, <2>7
<1> QED
  BY <1>2

\* A sum over a set is that over a part and that over the rest.
LEMMA TotalSplits ==
  ASSUME NEW S, IsFiniteSet(S), NEW f, \A x \in S : f[x] \in Nat, NEW T, T \subseteq S
  PROVE  Total(f, S) = Total(f, T) + Total(f, S \ T)
<1> DEFINE R == S \ T
           G == {s \in SUBSET R : Total(f, T \cup s) = Total(f, T) + Total(f, s)}
<1>1. IsFiniteSet(T) /\ IsFiniteSet(R) /\ Total(f, T) \in Nat
  BY FS_Subset, TotalTyped
<1>2. {} \in G
  <2>1. Total(f, {}) = 0 /\ T \cup {} = T
    BY TotalNone
  <2> QED
    BY <1>1, <2>1
<1>3. ASSUME NEW s \in SUBSET R, NEW x \in R, s \in G, x \notin s
      PROVE  s \cup {x} \in G
  <2> DEFINE a == T \cup s
             b == T \cup (s \cup {x})
             c == s \cup {x}
  <2>1. IsFiniteSet(b) /\ IsFiniteSet(c) /\ x \in b /\ x \in c /\ b \ {x} = a /\ c \ {x} = s
        /\ (\A y \in b : f[y] \in Nat) /\ (\A y \in c : f[y] \in Nat) /\ f[x] \in Nat
        /\ IsFiniteSet(s) /\ \A y \in s : f[y] \in Nat
    <3>1. b \subseteq S /\ c \subseteq S /\ x \notin T /\ s \subseteq S
      BY <1>3
    <3> QED
      BY <1>3, <3>1, FS_Subset
  <2> HIDE DEF a, b, c
  <2>2. Total(f, b) = f[x] + Total(f, a) /\ Total(f, c) = f[x] + Total(f, s)
    BY <2>1, TotalTakes
  <2>3. Total(f, s) \in Nat
    BY <2>1, TotalTyped
  <2>4. Total(f, a) = Total(f, T) + Total(f, s)
    BY <1>3 DEF a
  <2>5. Total(f, b) = Total(f, T) + Total(f, c)
    BY <1>1, <2>1, <2>2, <2>3, <2>4
  <2> QED
    BY <1>3, <2>5 DEF b, c
<1>4. R \in G
  <2> HIDE DEF G, R
  <2> QED
    BY <1>1, <1>2, <1>3, FiniteUp
<1>5. T \cup R = S
  OBVIOUS
<1> QED
  BY <1>4, <1>5

LEMMA Multiple ==
  ASSUME NEW c \in Nat, NEW k \in Nat
  PROVE  c * k \in Nat /\ c * (k + 1) = c * k + c /\ c * 0 = 0
OBVIOUS

\* A sum of values up to c is at most c times their number.
LEMMA TotalHigh ==
  ASSUME NEW S, IsFiniteSet(S), NEW c \in Nat, NEW f, \A x \in S : f[x] \in Nat /\ f[x] <= c
  PROVE  Total(f, S) <= c * Cardinality(S)
<1> DEFINE G == {s \in SUBSET S : Total(f, s) <= c * Cardinality(s)}
<1>1. {} \in G
  <2>1. Total(f, {}) = 0 /\ Cardinality({}) = 0
    BY TotalNone, FS_EmptySet
  <2> QED
    BY <2>1, Multiple
<1>2. ASSUME NEW s \in SUBSET S, NEW x \in S, s \in G, x \notin s
      PROVE  s \cup {x} \in G
  <2> DEFINE t == s \cup {x}
             k == Cardinality(s)
  <2>1. IsFiniteSet(t) /\ IsFiniteSet(s) /\ x \in t /\ t \ {x} = s /\ (\A y \in t : f[y] \in Nat)
    BY <1>2, FS_Subset
  <2>2. k \in Nat /\ Cardinality(t) = k + 1
    BY <1>2, <2>1, FS_CardinalityType, FS_AddElement
  <2> HIDE DEF t
  <2>3. Total(f, t) = f[x] + Total(f, s)
    BY <2>1, TotalTakes
  <2>4. Total(f, s) \in Nat
    BY <1>2, <2>1, TotalTyped
  <2>5. Total(f, s) <= c * k /\ f[x] \in Nat /\ f[x] <= c
    BY <1>2
  <2> HIDE DEF k
  <2>6. c * k \in Nat /\ c * (k + 1) = c * k + c
    BY <2>2, Multiple
  <2>7. Total(f, t) <= c * (k + 1)
    BY <2>3, <2>4, <2>5, <2>6
  <2> QED
    BY <1>2, <2>2, <2>7 DEF t, k
<1>3. S \in G
  <2> HIDE DEF G
  <2> QED
    BY <1>1, <1>2, FiniteUp
<1> QED
  BY <1>3

\* A sum of values of at least c is at least c times their number.
LEMMA TotalLow ==
  ASSUME NEW S, IsFiniteSet(S), NEW c \in Nat, NEW f, \A x \in S : f[x] \in Nat /\ c <= f[x]
  PROVE  c * Cardinality(S) <= Total(f, S)
<1> DEFINE G == {s \in SUBSET S : c * Cardinality(s) <= Total(f, s)}
<1>1. {} \in G
  <2>1. Total(f, {}) = 0 /\ Cardinality({}) = 0
    BY TotalNone, FS_EmptySet
  <2> QED
    BY <2>1, Multiple
<1>2. ASSUME NEW s \in SUBSET S, NEW x \in S, s \in G, x \notin s
      PROVE  s \cup {x} \in G
  <2> DEFINE t == s \cup {x}
             k == Cardinality(s)
  <2>1. IsFiniteSet(t) /\ IsFiniteSet(s) /\ x \in t /\ t \ {x} = s /\ (\A y \in t : f[y] \in Nat)
    BY <1>2, FS_Subset
  <2>2. k \in Nat /\ Cardinality(t) = k + 1
    BY <1>2, <2>1, FS_CardinalityType, FS_AddElement
  <2> HIDE DEF t
  <2>3. Total(f, t) = f[x] + Total(f, s)
    BY <2>1, TotalTakes
  <2>4. Total(f, s) \in Nat
    BY <1>2, <2>1, TotalTyped
  <2>5. c * k <= Total(f, s) /\ f[x] \in Nat /\ c <= f[x]
    BY <1>2
  <2> HIDE DEF k
  <2>6. c * k \in Nat /\ c * (k + 1) = c * k + c
    BY <2>2, Multiple
  <2>7. c * (k + 1) <= Total(f, t)
    BY <2>3, <2>4, <2>5, <2>6
  <2> QED
    BY <1>2, <2>2, <2>7 DEF t, k
<1>3. S \in G
  <2> HIDE DEF G
  <2> QED
    BY <1>1, <1>2, FiniteUp
<1> QED
  BY <1>3

\* The elements of D in class t, and those in one of the classes T.
Class(D, c, t) == {i \in D : c[i] = t}
Within(D, c, T) == {i \in D : c[i] \in T}

\* The sizes of classes add up to the number of their elements.
LEMMA ClassesAddUp ==
  ASSUME NEW D, IsFiniteSet(D), NEW T, IsFiniteSet(T), NEW c, NEW f,
         \A t \in T : f[t] = Cardinality(Class(D, c, t))
  PROVE  Total(f, T) = Cardinality(Within(D, c, T))
<1> DEFINE In(s) == {i \in D : c[i] \in s}
           Of(t) == {i \in D : c[i] = t}
           G == {s \in SUBSET T : Total(f, s) = Cardinality(In(s))}
<1>1. \A s : IsFiniteSet(In(s)) /\ Cardinality(In(s)) \in Nat
  BY FS_Subset, FS_CardinalityType
<1>2. \A t : IsFiniteSet(Of(t)) /\ Cardinality(Of(t)) \in Nat
  BY FS_Subset, FS_CardinalityType
<1>3. \A t \in T : f[t] \in Nat /\ f[t] = Cardinality(Of(t))
  BY <1>2 DEF Class
<1>4. {} \in G
  <2>1. Total(f, {}) = 0 /\ Cardinality({}) = 0 /\ In({}) = {}
    BY TotalNone, FS_EmptySet
  <2> QED
    BY <2>1
<1>5. ASSUME NEW s \in SUBSET T, NEW x \in T, s \in G, x \notin s
      PROVE  s \cup {x} \in G
  <2> DEFINE t == s \cup {x}
  <2>1. IsFiniteSet(t) /\ x \in t /\ t \ {x} = s /\ (\A y \in t : f[y] \in Nat)
    <3>1. t \subseteq T /\ x \in t /\ t \ {x} = s
      BY <1>5
    <3>2. \A y \in T : f[y] \in Nat
      BY <1>3
    <3> HIDE DEF t, G
    <3>3. IsFiniteSet(t)
      BY <3>1, FS_Subset
    <3> QED
      BY <3>1, <3>2, <3>3
  <2>2. In(t) = In(s) \cup Of(x) /\ In(s) \cap Of(x) = {}
    BY <1>5
  <2> HIDE DEF t
  <2>3. Total(f, t) = f[x] + Total(f, s)
    BY <2>1, TotalTakes
  <2>4. Total(f, s) = Cardinality(In(s)) /\ f[x] = Cardinality(Of(x))
    BY <1>3, <1>5
  <2>5. Cardinality(In(s) \cap Of(x)) = 0
    BY <2>2, FS_EmptySet
  <2> HIDE DEF In, Of
  <2>6. Cardinality(In(s) \cup Of(x)) = Cardinality(In(s)) + Cardinality(Of(x)) - Cardinality(In(s) \cap Of(x))
    BY <1>1, <1>2, FS_Union
  <2>7. Total(f, t) = Cardinality(In(t))
    BY <1>1, <1>2, <2>2, <2>3, <2>4, <2>5, <2>6
  <2> QED
    BY <1>5, <2>7 DEF t
<1>6. T \in G
  <2> HIDE DEF G
  <2> QED
    BY <1>4, <1>5, FiniteUp
<1> QED
  BY <1>6 DEF Within

\* A quotient is at least q when the dividend is q times the divisor or more.
LEMMA QuotientIs ==
  ASSUME NEW a \in Nat, NEW d \in Nat \ {0}
  PROVE  /\ a \div d \in Nat
         /\ \A q \in Nat : a \div d >= q <=> a >= d * q
<1> DEFINE s == a \div d
           r == a % d
<1>1. s \in Nat /\ r \in Nat /\ r < d /\ a = d * s + r
  OBVIOUS
<1> HIDE DEF s, r
<1>2. ASSUME NEW q \in Nat
      PROVE  s >= q <=> a >= d * q
  <2>1. CASE s >= q
    <3>1. d * s >= d * q
      BY <1>1, <2>1
    <3> QED
      BY <1>1, <2>1, <3>1
  <2>2. CASE s < q
    <3>1. d * q >= d * (s + 1)
      BY <1>1, <2>2
    <3>2. d * (s + 1) = d * s + d
      BY <1>1
    <3> QED
      BY <1>1, <2>2, <3>1, <3>2
  <2> QED
    BY <1>1, <2>1, <2>2
<1> QED
  BY <1>1, <1>2 DEF s
=============================================================================
