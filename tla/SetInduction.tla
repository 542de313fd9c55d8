---------------------------- MODULE SetInduction ----------------------------
(***************************************************************************)
(* Induction over the natural numbers in a form the provers can use: about *)
(* a set of numbers instead of a predicate.  To prove P(n) for every n,    *)
(* cite NatSetInduction for {n \in Nat : P(n)}, or IntervalInduction if n  *)
(* has a bound.                                                            *)
(* NatRecursion and FiniteRecursion are for recursive functions: they give *)
(* them a solution.  From these follow what the place of an element in a   *)
(* finite order is (Ranking), and where the parts of a flattened sequence  *)
(* are in it (Flattened).                                                  *)
(***************************************************************************)
EXTENDS Integers, SequencesExt, WellFoundedInduction, FunctionTheorems,
        FiniteSetTheorems, SequenceTheorems, TLAPS

(* A set of natural numbers that is not empty has a least element.         *)
THEOREM NatSetLeast ==
    ASSUME NEW S, S \subseteq Nat, S # {}
    PROVE  \E m \in S : \A n \in S : m <= n
  <1> DEFINE R == OpToRel(<, Nat)
  <1>1. IsWellFoundedOn(R, Nat)
    BY NatLessThanWellFounded
  <1>2. PICK m \in S : \A n \in S : ~(<<n, m>> \in R)
    <2> HIDE DEF R
    <2>1. QED
      BY <1>1, WFMin
  <1>3. \A n \in S : ~(n < m)
    BY <1>2 DEF OpToRel
  <1>4. QED
    BY <1>3

(* A set of natural numbers that has 0, and n + 1 for each n it has, is    *)
(* all of them.                                                            *)
THEOREM NatSetInduction ==
    ASSUME NEW S, S \subseteq Nat, 0 \in S, \A n \in S : n + 1 \in S
    PROVE  S = Nat
  <1>1. SUFFICES ASSUME Nat \ S # {} PROVE FALSE
    OBVIOUS
  <1>2. PICK m \in Nat \ S : \A n \in Nat \ S : m <= n
    BY <1>1, NatSetLeast
  <1>3. m - 1 \in Nat /\ m - 1 \notin S /\ ~(m <= m - 1)
    BY <1>2
  <1>4. QED
    BY <1>2, <1>3

StepFunctions(V) == [Nat -> [V -> V]]
Iterates(V, b, F) == {g \in [Nat -> V] : g[0] = b /\ \A n \in Nat : g[n + 1] = F[n][g[n]]}

(* A start and a step for each number determine a function on the natural  *)
(* numbers.                                                                *)
THEOREM NatRecursion ==
    ASSUME NEW V, NEW b \in V, NEW F \in StepFunctions(V)
    PROVE  \E g : g \in Iterates(V, b, F)
  <1> USE DEF StepFunctions
  <1> DEFINE Segment(h, n) == /\ h \in [0..n -> V] /\ h[0] = b
                           /\ \A i \in 0..(n - 1) : h[i + 1] = F[i][h[i]]
  <1>1. \A n \in Nat : \E h : Segment(h, n)
    <2> DEFINE E == {n \in Nat : \E h : Segment(h, n)}
    <2>1. 0 \in E
      <3>1. Segment([i \in 0..0 |-> b], 0)
        OBVIOUS
      <3>2. QED
        BY <3>1
    <2>2. ASSUME NEW n \in E PROVE n + 1 \in E
      <3>1. n \in Nat /\ n + 1 \in Nat
        OBVIOUS
      <3>2. PICK h : Segment(h, n)
        OBVIOUS
      <3>3. h[n] \in V /\ F[n][h[n]] \in V
        BY <3>1, <3>2
      <3> DEFINE k == [i \in 0..(n + 1) |-> IF i <= n THEN h[i] ELSE F[n][h[n]]]
      <3>4. k \in [0..(n + 1) -> V] /\ k[0] = b
        BY <3>1, <3>2, <3>3
      <3>5. \A i \in 0..n : k[i] = h[i]
        BY <3>1
      <3>6. k[n + 1] = F[n][k[n]]
        BY <3>1
      <3>7. ASSUME NEW i \in 0..n PROVE k[i + 1] = F[i][k[i]]
        <4> HIDE DEF k
        <4>1. CASE i = n
          BY <4>1, <3>6
        <4>2. CASE i # n
          <5>1. i \in 0..(n - 1) /\ i + 1 \in 0..n
            BY <4>2, <3>1
          <5>2. QED
            BY <5>1, <3>2, <3>5
        <4>3. QED
          BY <4>1, <4>2
      <3>8. Segment(k, n + 1)
        <4> HIDE DEF k
        <4>1. (n + 1) - 1 = n
          BY <3>1
        <4>2. QED
          BY <4>1, <3>4, <3>7
      <3>9. QED
        BY <3>1, <3>8
    <2>3. E = Nat
      <3> HIDE DEF E
      <3>1. E \subseteq Nat
        BY DEF E
      <3>2. QED
        BY <2>1, <2>2, <3>1, NatSetInduction
    <2>4. QED
      BY <2>3
  <1>2. ASSUME NEW n \in Nat, NEW m \in Nat, NEW g, NEW h, Segment(g, n), Segment(h, m)
        PROVE  \A i \in Nat : i <= n /\ i <= m => g[i] = h[i]
    <2> DEFINE E == {i \in Nat : i <= n /\ i <= m => g[i] = h[i]}
    <2>1. 0 \in E
      BY <1>2
    <2>2. ASSUME NEW i \in E PROVE i + 1 \in E
      <3>1. CASE i + 1 <= n /\ i + 1 <= m
        <4>1. i \in 0..(n - 1) /\ i \in 0..(m - 1) /\ g[i] = h[i]
          BY <3>1
        <4>2. QED
          BY <4>1, <1>2
      <3>2. QED
        BY <3>1
    <2>3. E = Nat
      <3> HIDE DEF E
      <3>1. E \subseteq Nat
        BY DEF E
      <3>2. QED
        BY <2>1, <2>2, <3>1, NatSetInduction
    <2>4. QED
      BY <2>3
  <1> DEFINE Of(n) == CHOOSE h : Segment(h, n)
             G == [n \in Nat |-> Of(n)[n]]
  <1>3. \A n \in Nat : Segment(Of(n), n)
    BY <1>1
  <1> HIDE DEF Of
  <1>4. G \in [Nat -> V] /\ G[0] = b
    BY <1>3
  <1>5. ASSUME NEW n \in Nat PROVE G[n + 1] = F[n][G[n]]
    <2>1. n + 1 \in Nat /\ n <= n + 1 /\ n \in 0..((n + 1) - 1)
      OBVIOUS
    <2>2. Segment(Of(n), n) /\ Segment(Of(n + 1), n + 1)
      <3> HIDE DEF Segment
      <3>1. QED
        BY <1>3, <2>1
    <2>3. Of(n + 1)[n] = Of(n)[n]
      <3> HIDE DEF Segment
      <3>1. QED
        BY <1>2, <2>1, <2>2
    <2>4. Of(n + 1)[n + 1] = F[n][Of(n + 1)[n]]
      BY <2>1, <2>2
    <2>5. QED
      BY <2>1, <2>3, <2>4
  <1>6. QED
    <2> HIDE DEF G
    <2>1. QED
      BY <1>4, <1>5 DEF Iterates


(* The elements of S before i in the order R.                              *)
Below(S, R, i) == {j \in S : <<j, i>> \in R}

(* In a finite set with a total order each number up to the size of the    *)
(* set is the place of an element.                                         *)
THEOREM Ranking ==
    ASSUME NEW S, IsFiniteSet(S), NEW R,
           \A i \in S : <<i, i>> \notin R,
           \A i, j, k \in S : <<i, j>> \in R /\ <<j, k>> \in R => <<i, k>> \in R,
           \A i, j \in S : i = j \/ <<i, j>> \in R \/ <<j, i>> \in R
    PROVE  /\ Cardinality(S) \in Nat
           /\ \A k \in 1..Cardinality(S) : \E i \in S : Cardinality(Below(S, R, i)) = k - 1
  <1> DEFINE n == Cardinality(S)
             r == [i \in S |-> Cardinality(Below(S, R, i)) + 1]
  <1>1. n \in Nat
    BY FS_CardinalityType
  <1>2. ASSUME NEW i \in S
        PROVE  /\ IsFiniteSet(Below(S, R, i)) /\ Cardinality(Below(S, R, i)) \in Nat
               /\ IsFiniteSet(Below(S, R, i) \cup {i})
               /\ Cardinality(Below(S, R, i) \cup {i}) = Cardinality(Below(S, R, i)) + 1
    <2>1. Below(S, R, i) \in SUBSET S /\ i \notin Below(S, R, i)
      BY DEF Below
    <2>2. IsFiniteSet(Below(S, R, i))
      BY <2>1, FS_Subset
    <2>3. QED
      BY <2>1, <2>2, FS_CardinalityType, FS_AddElement
  <1>3. ASSUME NEW i \in S, NEW T \in SUBSET S, Below(S, R, i) \cup {i} \subseteq T
        PROVE  Cardinality(T) \in Nat /\ Cardinality(Below(S, R, i)) + 1 <= Cardinality(T)
    <2>1. IsFiniteSet(T)
      BY FS_Subset
    <2>2. Cardinality(Below(S, R, i) \cup {i}) <= Cardinality(T)
      BY <1>3, <2>1, FS_Subset
    <2>3. QED
      BY <1>2, <2>1, <2>2, FS_CardinalityType
  <1>4. \A i \in S : r[i] \in 1..n
    <2>1. TAKE i \in S
    <2>2. Below(S, R, i) \cup {i} \subseteq S
      BY DEF Below
    <2>3. Cardinality(Below(S, R, i)) + 1 <= n
      BY <1>3, <2>2
    <2>4. Cardinality(Below(S, R, i)) \in Nat
      BY <1>2
    <2>5. QED
      BY <1>1, <2>3, <2>4
  <1>5. \A i, j \in S : <<i, j>> \in R => r[i] < r[j]
    <2>1. SUFFICES ASSUME NEW i \in S, NEW j \in S, <<i, j>> \in R
                   PROVE  r[i] < r[j]
      OBVIOUS
    <2>2. Below(S, R, i) \cup {i} \subseteq Below(S, R, j) /\ Below(S, R, j) \in SUBSET S
      BY <2>1 DEF Below
    <2>3. Cardinality(Below(S, R, i)) + 1 <= Cardinality(Below(S, R, j))
      BY <1>3, <2>2
    <2>4. Cardinality(Below(S, R, i)) \in Nat /\ Cardinality(Below(S, R, j)) \in Nat
      BY <1>2
    <2>5. QED
      BY <2>3, <2>4
  <1>6. r \in Injection(S, 1..n)
    <2>1. r \in [S -> 1..n]
      BY <1>4
    <2>2. \A i, j \in S : r[i] = r[j] => i = j
      <3>1. SUFFICES ASSUME NEW i \in S, NEW j \in S, r[i] = r[j] PROVE i = j
        OBVIOUS
      <3>2. r[i] \in 1..n /\ r[j] \in 1..n
        BY <1>4
      <3> HIDE DEF r
      <3>3. ~(r[i] < r[j]) /\ ~(r[j] < r[i])
        BY <1>1, <3>1, <3>2
      <3>4. QED
        BY <1>5, <3>3
    <2> HIDE DEF r
    <2>3. QED
      BY <2>1, <2>2, Fun_IsInj
  <1>7. IsFiniteSet(1..n) /\ Cardinality(1..n) = n
    BY <1>1, FS_Interval
  <1>8. r \in Surjection(S, 1..n)
    <2> HIDE DEF r
    <2>1. QED
      BY <1>6, <1>7, FS_Injection
  <1>9. \A k \in 1..n : \E i \in S : r[i] = k
    <2> HIDE DEF r
    <2>1. QED
      BY <1>8, Fun_SurjectionProperties
  <1>10. ASSUME NEW k \in 1..n PROVE \E i \in S : Cardinality(Below(S, R, i)) = k - 1
    <2>1. PICK i \in S : r[i] = k
      BY <1>9
    <2>2. Cardinality(Below(S, R, i)) + 1 = k
      BY <2>1
    <2>3. Cardinality(Below(S, R, i)) \in Nat
      BY <1>2
    <2>4. Cardinality(Below(S, R, i)) = k - 1
      BY <2>2, <2>3
    <2>5. QED
      BY <2>4
  <1>11. QED
    BY <1>1, <1>10

-----------------------------------------------------------------------------
(* Induction up to a bound.                                                *)
THEOREM IntervalInduction ==
    ASSUME NEW m \in Nat, NEW E, 0 \in E, \A n \in 0..(m - 1) : n \in E => n + 1 \in E
    PROVE  0..m \subseteq E
  <1> DEFINE A == {n \in Nat : n <= m => n \in E}
  <1>1. 0 \in A
    OBVIOUS
  <1>2. \A n \in A : n + 1 \in A
    OBVIOUS
  <1>3. A = Nat
    <2> HIDE DEF A
    <2>1. A \subseteq Nat
      BY DEF A
    <2>2. QED
      BY <1>1, <1>2, <2>1, NatSetInduction
  <1>4. QED
    BY <1>3

FiniteSteps(m, V) == [1..m -> [V -> V]]
FiniteIterates(m, V, b, F) == {h \in [0..m -> V] : h[0] = b /\ \A n \in 1..m : h[n] = F[n][h[n - 1]]}

(* A start and m steps determine a function on 0..m.                       *)
THEOREM FiniteRecursion ==
    ASSUME NEW m \in Nat, NEW V, NEW b \in V, NEW F \in FiniteSteps(m, V)
    PROVE  \E h : h \in FiniteIterates(m, V, b, F)
  <1> DEFINE G == [n \in Nat |-> IF n < m THEN F[n + 1] ELSE [v \in V |-> v]]
  <1>1. G \in StepFunctions(V)
    <2>1. \A n \in Nat : n < m => n + 1 \in 1..m
      OBVIOUS
    <2>2. QED
      BY <2>1 DEF StepFunctions, FiniteSteps
  <1>2. PICK g : g \in Iterates(V, b, G)
    <2> HIDE DEF G
    <2>1. QED
      BY <1>1, NatRecursion
  <1>3. g \in [Nat -> V] /\ g[0] = b /\ \A n \in Nat : g[n + 1] = G[n][g[n]]
    BY <1>2 DEF Iterates
  <1> DEFINE h == [n \in 0..m |-> g[n]]
  <1>4. \A n \in 1..m : n - 1 \in Nat /\ n - 1 < m /\ (n - 1) + 1 = n /\ n \in 0..m /\ n - 1 \in 0..m
    OBVIOUS
  <1>5. \A n \in 1..m : G[n - 1] = F[n]
    BY <1>4
  <1> HIDE DEF G
  <1>6. \A n \in 1..m : g[n] = F[n][g[n - 1]]
    BY <1>3, <1>4, <1>5
  <1>7. h \in [0..m -> V] /\ h[0] = b
    BY <1>3
  <1>8. \A n \in 1..m : h[n] = F[n][h[n - 1]]
    BY <1>4, <1>6
  <1> HIDE DEF h
  <1>9. QED
    BY <1>7, <1>8 DEF FiniteIterates

Offsets(seqs, flat, off) ==
    /\ off \in [0..Len(seqs) -> Nat] /\ off[0] = 0 /\ off[Len(seqs)] = Len(flat)
    /\ \A n \in 1..Len(seqs) : /\ off[n] = off[n - 1] + Len(seqs[n])
                               /\ \A j \in 1..Len(seqs[n]) : flat[off[n - 1] + j] = seqs[n][j]
    /\ \A k \in 1..Len(flat) : \E n \in 1..Len(seqs) : \E j \in 1..Len(seqs[n]) : k = off[n - 1] + j

(* Where the elements of the parts of a flattened sequence are.            *)
THEOREM Flattened ==
    ASSUME NEW S, NEW seqs \in Seq(Seq(S))
    PROVE  FlattenSeq(seqs) \in Seq(S) /\ \E off : Offsets(seqs, FlattenSeq(seqs), off)
  <1> DEFINE m == Len(seqs)
             flat == FlattenSeq(seqs)
             Solves(g) == g = [i \in 1..m |-> IF i = 1 THEN seqs[i] ELSE g[i - 1] \o seqs[i]]
             D == CHOOSE g : Solves(g)
  <1>1. m \in Nat /\ \A n \in 1..m : seqs[n] \in Seq(S) /\ Len(seqs[n]) \in Nat
    BY LenProperties, ElementOfSeq
  <1>2. CASE m = 0
    <2>1. seqs = <<>>
      BY <1>2, EmptySeq
    <2>2. FlattenSeq(seqs) = <<>>
      BY <2>1 DEF FlattenSeq
    <2>3. Offsets(seqs, <<>>, [n \in 0..0 |-> 0])
      BY <2>1 DEF Offsets
    <2>4. QED
      BY <2>2, <2>3
  <1>3. CASE m > 0
    <2>1. flat = D[m]
      BY <1>3 DEF FlattenSeq
    <2>2. PICK h \in [0..m -> Seq(S)] : h[0] = <<>> /\ \A n \in 1..m : h[n] = h[n - 1] \o seqs[n]
      <3> DEFINE F == [n \in 1..m |-> [v \in Seq(S) |-> v \o seqs[n]]]
      <3>1. F \in FiniteSteps(m, Seq(S))
        <4>1. \A n \in 1..m : \A v \in Seq(S) : v \o seqs[n] \in Seq(S)
          BY <1>1, ConcatProperties
        <4> HIDE DEF m
        <4>2. QED
          BY <4>1 DEF FiniteSteps
      <3>2. <<>> \in Seq(S)
        OBVIOUS
      <3>3. PICK h : h \in FiniteIterates(m, Seq(S), <<>>, F)
        <4> HIDE DEF F, m
        <4>1. QED
          BY <1>1, <3>1, <3>2, FiniteRecursion
      <3>4. \A n \in 1..m : n - 1 \in 0..m
        BY <1>1
      <3>5. h \in [0..m -> Seq(S)] /\ h[0] = <<>> /\ \A n \in 1..m : h[n] = F[n][h[n - 1]]
        <4> HIDE DEF m, F
        <4>1. QED
          BY <3>3 DEF FiniteIterates
      <3>6. \A n \in 1..m : h[n] = h[n - 1] \o seqs[n]
        <4>1. \A n \in 1..m : h[n - 1] \in Seq(S)
          BY <3>4, <3>5
        <4> HIDE DEF m
        <4>2. QED
          BY <3>5, <4>1
      <3>7. QED
        BY <3>5, <3>6
    <2> DEFINE f == [i \in 1..m |-> h[i]]
    <2>3. \A i \in 1..m : i # 1 => i - 1 \in 1..m
      BY <1>1
    <2>4. 1 \in 1..m /\ h[1] = seqs[1]
      <3>1. 1 \in 1..m
        BY <1>1, <1>3
      <3>2. h[1] = h[1 - 1] \o seqs[1] /\ h[0] = <<>>
        BY <2>2, <3>1
      <3>3. 1 - 1 = 0
        OBVIOUS
      <3>4. h[1] = <<>> \o seqs[1]
        BY <3>2, <3>3, Zenon
      <3>5. QED
        BY <1>1, <3>1, <3>4, ConcatEmptySeq
    <2>5. Solves(f)
      <3> HIDE DEF m
      <3>1. \A i \in 1..m : f[i] = IF i = 1 THEN seqs[i] ELSE f[i - 1] \o seqs[i]
        BY <2>2, <2>3, <2>4
      <3>2. f = [i \in 1..m |-> f[i]]
        BY Zenon
      <3> HIDE DEF f
      <3>3. QED
        BY <3>1, <3>2
    <2>6. Solves(D)
      <3> HIDE DEF Solves, f
      <3>1. QED
        BY <2>5
    <2> HIDE DEF D
    <2>7. \A i \in 1..m : D[i] = IF i = 1 THEN seqs[i] ELSE D[i - 1] \o seqs[i]
      <3> HIDE DEF m
      <3>1. QED
        BY <2>6
    <2>8. \A n \in 0..m : h[n] \in Seq(S) /\ Len(h[n]) \in Nat
      BY <2>2, LenProperties
    <2>9. \A n \in 1..m : D[n] = h[n]
      <3> DEFINE E == {n \in Nat : n = 0 \/ D[n] = h[n]}
      <3>1. 0 \in E
        OBVIOUS
      <3>2. ASSUME NEW n \in 0..(m - 1), n \in E PROVE n + 1 \in E
        <4>1. n + 1 \in 1..m /\ (n + 1) - 1 = n /\ (n + 1 = 1 <=> n = 0) /\ n + 1 \in Nat
          BY <1>1
        <4>2. CASE n = 0
          BY <2>4, <2>7, <4>2
        <4>3. CASE n # 0
          <5>1. D[n + 1] = D[n] \o seqs[n + 1]
            BY <2>7, <4>1, <4>3
          <5>2. h[n + 1] = h[n] \o seqs[n + 1]
            BY <2>2, <4>1
          <5>3. QED
            BY <3>2, <4>1, <4>3, <5>1, <5>2
        <4>4. QED
          BY <4>2, <4>3
      <3>3. 0..m \subseteq E
        <4> HIDE DEF E, m
        <4>1. QED
          BY <1>1, <3>1, <3>2, IntervalInduction
      <3>4. QED
        BY <1>1, <3>3
    <2>10. flat = h[m]
      BY <1>1, <1>3, <2>1, <2>9
    <2> DEFINE off == [n \in 0..m |-> Len(h[n])]
    <2>11. ASSUME NEW n \in 1..m
           PROVE  /\ n - 1 \in 0..m /\ n \in 0..m /\ h[n - 1] \in Seq(S) /\ off[n] = off[n - 1] + Len(seqs[n])
                  /\ off[n] \in Nat /\ off[n - 1] \in Nat
                  /\ \A k \in 1..off[n - 1] : h[n][k] = h[n - 1][k]
                  /\ \A j \in 1..Len(seqs[n]) : h[n][off[n - 1] + j] = seqs[n][j]
      <3>1. n - 1 \in 0..m /\ n \in 0..m
        BY <1>1
      <3>2. h[n] = h[n - 1] \o seqs[n] /\ h[n - 1] \in Seq(S) /\ seqs[n] \in Seq(S)
        BY <1>1, <2>2, <2>8, <3>1
      <3>3. off[n] = Len(h[n]) /\ off[n - 1] = Len(h[n - 1])
        BY <3>1
      <3>4. off[n] \in Nat /\ off[n - 1] \in Nat
        BY <2>8, <3>1, <3>3
      <3> HIDE DEF off
      <3>5. /\ Len(h[n]) = Len(h[n - 1]) + Len(seqs[n])
            /\ \A k \in 1..(Len(h[n - 1]) + Len(seqs[n])) :
                  h[n][k] = IF k <= Len(h[n - 1]) THEN h[n - 1][k] ELSE seqs[n][k - Len(h[n - 1])]
        <4> DEFINE X == h[n - 1]
                   Y == seqs[n]
                   Z == h[n]
        <4>1. Z = X \o Y /\ X \in Seq(S) /\ Y \in Seq(S)
          BY <3>2
        <4> HIDE DEF X, Y, Z
        <4>2. /\ Len(Z) = Len(X) + Len(Y)
              /\ \A k \in 1..(Len(X) + Len(Y)) : Z[k] = IF k <= Len(X) THEN X[k] ELSE Y[k - Len(X)]
          BY <4>1, ConcatProperties
        <4>3. QED
          BY <4>2 DEF X, Y, Z
      <3>6. Len(seqs[n]) \in Nat
        BY <1>1
      <3>7. ASSUME NEW k \in 1..off[n - 1] PROVE h[n][k] = h[n - 1][k]
        <4>1. k \in 1..(off[n - 1] + Len(seqs[n])) /\ k <= off[n - 1]
          BY <3>4, <3>6
        <4>2. QED
          BY <3>3, <3>5, <4>1
      <3>8. ASSUME NEW j \in 1..Len(seqs[n]) PROVE h[n][off[n - 1] + j] = seqs[n][j]
        <4>1. /\ off[n - 1] + j \in 1..(off[n - 1] + Len(seqs[n])) /\ ~(off[n - 1] + j <= off[n - 1])
              /\ (off[n - 1] + j) - off[n - 1] = j
          BY <3>4, <3>6
        <4>2. h[n][off[n - 1] + j] = seqs[n][(off[n - 1] + j) - off[n - 1]]
          BY <3>3, <3>5, <4>1
        <4>3. QED
          BY <4>1, <4>2
      <3>9. QED
        BY <3>1, <3>2, <3>3, <3>4, <3>5, <3>7, <3>8
    <2> DEFINE Part(p) == /\ \A n \in 1..p : \A j \in 1..Len(seqs[n]) : off[n - 1] + j <= off[p] /\ h[p][off[n - 1] + j] = seqs[n][j]
                          /\ \A k \in 1..off[p] : \E n \in 1..p : \E j \in 1..Len(seqs[n]) : k = off[n - 1] + j
               E == {p \in Nat : p <= m => Part(p)}
    <2>12. off[0] = 0 /\ 0 \in 0..m
      BY <1>1, <2>2
    <2>13. off \in [0..m -> Nat]
      BY <2>8
    <2>14. 0 \in E
      BY <2>12
    <2>15. ASSUME NEW p \in 0..(m - 1), p \in E PROVE p + 1 \in E
      <3>1. p + 1 \in 1..m /\ (p + 1) - 1 = p /\ p <= m /\ p \in Nat /\ p + 1 \in Nat
        BY <1>1
      <3>2. Part(p)
        BY <2>15, <3>1
      <3>3. /\ off[p + 1] = off[p] + Len(seqs[p + 1]) /\ off[p] \in Nat /\ off[p + 1] \in Nat
            /\ \A k \in 1..off[p] : h[p + 1][k] = h[p][k]
            /\ \A j \in 1..Len(seqs[p + 1]) : h[p + 1][off[p] + j] = seqs[p + 1][j]
        <4> DEFINE q == p + 1
        <4>1. q \in 1..m /\ q - 1 = p
          BY <3>1
        <4> HIDE DEF q, off
        <4>2. /\ off[q] = off[q - 1] + Len(seqs[q]) /\ off[q] \in Nat /\ off[q - 1] \in Nat
              /\ \A k \in 1..off[q - 1] : h[q][k] = h[q - 1][k]
              /\ \A j \in 1..Len(seqs[q]) : h[q][off[q - 1] + j] = seqs[q][j]
          BY <2>11, <4>1
        <4>3. QED
          BY <4>1, <4>2, Zenon DEF q
      <3>4. Len(seqs[p + 1]) \in Nat
        BY <1>1, <3>1
      <3> HIDE DEF off
      <3>5. ASSUME NEW n \in 1..(p + 1), NEW j \in 1..Len(seqs[n])
            PROVE  off[n - 1] + j <= off[p + 1] /\ h[p + 1][off[n - 1] + j] = seqs[n][j]
        <4>1. CASE n = p + 1
          <5>1. n - 1 = p /\ j \in 1..Len(seqs[p + 1])
            BY <3>1, <4>1
          <5>2. off[n - 1] = off[p] /\ seqs[n] = seqs[p + 1]
            BY <4>1, <5>1, Zenon
          <5>3. off[p] + j <= off[p + 1]
            BY <3>3, <3>4, <5>1
          <5>4. QED
            BY <3>3, <5>1, <5>2, <5>3
        <4>2. CASE n \in 1..p
          <5>1. off[n - 1] + j <= off[p] /\ h[p][off[n - 1] + j] = seqs[n][j]
            BY <3>2, <3>5, <4>2
          <5>2. n \in 1..m /\ off[n - 1] \in Nat /\ Len(seqs[n]) \in Nat
            BY <1>1, <2>11, <3>1, <4>2
          <5>3. off[n - 1] + j \in 1..off[p]
            <6> DEFINE a == off[n - 1]
                       b == off[p]
            <6>1. a \in Nat /\ b \in Nat /\ j \in Nat /\ j >= 1 /\ a + j <= b
              BY <3>3, <5>1, <5>2
            <6> HIDE DEF a, b
            <6>2. a + j \in 1..b
              BY <6>1
            <6>3. QED
              BY <6>2 DEF a, b
          <5>4. off[p] <= off[p + 1]
            BY <3>3, <3>4
          <5>5. h[p + 1][off[n - 1] + j] = h[p][off[n - 1] + j]
            BY <3>3, <5>3
          <5>6. off[n - 1] + j <= off[p + 1]
            <6> DEFINE a == off[n - 1]
                       b == off[p]
                       c == off[p + 1]
            <6>1. a \in Nat /\ b \in Nat /\ j \in Nat /\ c \in Nat /\ a + j <= b /\ b <= c
              BY <3>3, <5>1, <5>2, <5>4
            <6> HIDE DEF a, b, c
            <6>2. a + j <= c
              BY <6>1
            <6>3. QED
              BY <6>2 DEF a, b, c
          <5>7. QED
            BY <5>1, <5>5, <5>6
        <4>3. QED
          BY <3>1, <4>1, <4>2
      <3>6. ASSUME NEW k \in 1..off[p + 1]
            PROVE  \E n \in 1..(p + 1) : \E j \in 1..Len(seqs[n]) : k = off[n - 1] + j
        <4>1. CASE k <= off[p]
          <5>1. k \in 1..off[p]
            BY <3>3, <4>1
          <5>2. PICK n \in 1..p : \E j \in 1..Len(seqs[n]) : k = off[n - 1] + j
            BY <3>2, <5>1
          <5>3. n \in 1..(p + 1)
            BY <3>1
          <5>4. QED
            BY <5>2, <5>3
        <4>2. CASE k > off[p]
          <5>1. k - off[p] \in 1..Len(seqs[p + 1]) /\ k = off[p] + (k - off[p])
            BY <3>3, <3>4, <4>2
          <5>2. p + 1 \in 1..(p + 1)
            BY <3>1
          <5>3. QED
            BY <3>1, <5>1, <5>2
        <4>3. QED
          BY <3>3, <4>1, <4>2
      <3>7. Part(p + 1)
        BY <3>5, <3>6
      <3> HIDE DEF Part
      <3>8. QED
        BY <3>1, <3>7
    <2>16. 0..m \subseteq E
      <3> HIDE DEF E, m, Part
      <3>1. QED
        BY <1>1, <2>14, <2>15, IntervalInduction
    <2>17. Part(m)
      <3> HIDE DEF Part
      <3>1. QED
        BY <1>1, <2>16
    <2>18. off[m] = Len(flat) /\ m \in 0..m
      BY <1>1, <2>10
    <2>19. Offsets(seqs, flat, off)
      <3> HIDE DEF off, flat
      <3>1. QED
        BY <2>10, <2>11, <2>12, <2>13, <2>17, <2>18 DEF Offsets
    <2>20. flat \in Seq(S)
      BY <2>8, <2>10, <2>18
    <2>21. QED
      BY <2>19, <2>20
  <1>4. QED
    BY <1>1, <1>2, <1>3
=============================================================================
