--------------------------- MODULE ProbePathProofs ---------------------------
(***************************************************************************)
(* Proofs about ProbePath for every sequence space, table size, number of  *)
(* hops, burst and timing: NothingStale, RecvWithinSent and, as long as    *)
(* the sequence numbers do not come round during the life of an answer,    *)
(* OwnAttribution.                                                         *)
(***************************************************************************)
EXTENDS ProbePath, SequenceTheorems, FiniteSetTheorems, SetInduction

Table == [0..(Slots - 1) -> Entry]
Intent == [ttl : TTL, seq : Seqs, by : Nat]
Observation == [ttl : TTL, rtt : Nat, realTtl : TTL, realRtt : Nat, by : Nat]

-----------------------------------------------------------------------------
(* The parts of the inductive invariant.                                   *)

(* Clocks do not run ahead, only hops are recorded as active, and nothing  *)
(* in the network is too old.                                              *)
Clocks(time, probed, reaped, table, answers) ==
    /\ probed <= time /\ reaped \in Nat /\ reaped <= time
    /\ \A i \in 0..(Slots - 1) : table[i].at <= time /\ (table[i].active => table[i].ttl \in TTL)
    /\ \A r \in answers : r.at \in Nat /\ r.at <= time /\ time - r.at <= MaxDelay

(* What the last reaping left was young, and it was not long ago unless    *)
(* there is nothing to reap.                                               *)
Reaped(time, reaped, table) ==
    /\ \A i \in 0..(Slots - 1) :
          table[i].active /\ table[i].at <= reaped => reaped - table[i].at <= ReapAge
    /\ time - reaped <= ReapEvery \/ \A i \in 0..(Slots - 1) : ~table[i].active

(* How many elements of a queue, and active entries of the table, are for  *)
(* a hop.                                                                  *)
Count(queue, t) == Cardinality({i \in 1..Len(queue) : queue[i].ttl = t})
Active(table, t) == Cardinality({i \in 0..(Slots - 1) : table[i].active /\ table[i].ttl = t})

(* Each probe that was counted as sent is in one place at most.            *)
Accounted(sents, recvs, intents, table, observations) ==
    \A t \in TTL : recvs[t] + Count(observations, t) + Active(table, t) + Count(intents, t) <= sents[t]

(* No logic engine's intents or answers overtake its successor's.          *)
Ordered(intents, answers, observations, engine) ==
    /\ \A i \in 1..Len(intents) :
          /\ intents[i].by <= engine
          /\ \A j \in 1..Len(intents) : i <= j => intents[i].by <= intents[j].by
          /\ \A r \in answers : r.by <= intents[i].by
    /\ \A r \in answers : r.by \in Nat /\ r.by <= engine
    /\ \A i \in 1..Len(observations) : observations[i].by <= engine

(* The number that was given out k numbers before s is due.                *)
Back(s, k) == IF k <= s THEN s - k ELSE s - k + SeqSpace

(* The waiting intents of the engine at work are its last ones, of a round *)
(* built just now.                                                         *)
Waiting(intents, s, engine, time, probed) ==
    \A i \in 1..Len(intents) : intents[i].by = engine =>
        /\ probed = time
        /\ Len(intents) - i + 1 <= MaxBurst
        /\ intents[i].seq = Back(s, Len(intents) - i + 1)

(* An answer on its way belongs to a number given out k numbers ago,       *)
(* before all those that wait, in one of the last n + 1 rounds.            *)
Numbered(answers, waiting, s, engine, probed) ==
    \A r \in answers : r.by = engine =>
        /\ r.at <= probed
        /\ \E n, k \in Nat : /\ n * Interval <= probed - r.at
                             /\ waiting < k /\ k <= (n + 1) * MaxBurst
                             /\ r.seq = Back(s, k)

(* An answer that would be matched would be credited to its own probe.     *)
Matched(answers, table, id, engine) ==
    \A r \in answers : r.by = engine /\ r.id = id /\ Matches(table, r.seq) =>
        table[Slot(r.seq)].ttl = r.ttl /\ table[Slot(r.seq)].at = r.at

PathInv ==
    /\ TypeOK
    /\ logicCrashes \in Nat
    /\ Clocks(now, lastProbe, lastReap, inflight, net)
    /\ Reaped(now, lastReap, inflight)
    /\ logicCrashes = 0 => Accounted(sent, recv, l2g, inflight, g2l)
    /\ Ordered(l2g, net, g2l, logicCrashes)

(* The numbers given out during the life of an answer are all different:   *)
(* the rounds that fit into MaxDelay do not use up the sequence space.     *)
NoWrap == \A n \in Nat : n * Interval <= MaxDelay => (n + 1) * MaxBurst <= SeqSpace

OwnInv ==
    /\ NoWrap
    /\ Waiting(l2g, seq, logicCrashes, now, lastProbe)
    /\ Numbered(net, Len(l2g), seq, logicCrashes, lastProbe)
    /\ Matched(net, inflight, gkId, logicCrashes)
    /\ OwnAttribution
-----------------------------------------------------------------------------
(* What the recursive definitions compute.                                 *)

LEMMA SlotType ==
    ASSUME NEW s \in Seqs
    PROVE  Slot(s) \in 0..(Slots - 1)
  BY ProbeAssumption DEF Slot, Seqs

LEMMA NextSeqValue ==
    ASSUME NEW s \in Seqs
    PROVE  NextSeq(s) \in Seqs /\ NextSeq(s) = IF s + 1 = SeqSpace THEN 0 ELSE s + 1
  BY ProbeAssumption DEF NextSeq, Seqs

LEMMA IntentUnfolds ==
    ASSUME seq \in Seqs, ttl \in TTL, logicCrashes \in Nat
    PROVE  /\ IntentAt[0] = [ttl |-> ttl, seq |-> seq, by |-> logicCrashes]
           /\ \A k \in Nat :
                 /\ IntentAt[k] \in Intent
                 /\ IntentAt[k].by = logicCrashes
                 /\ IntentAt[k + 1].seq = NextSeq(IntentAt[k].seq)
  <1> DEFINE First == [ttl |-> ttl, seq |-> seq, by |-> logicCrashes]
             After(v) == [ttl |-> NextTtl(v.ttl), seq |-> NextSeq(v.seq), by |-> logicCrashes]
             Solves(g) == g = [k \in Nat |-> IF k = 0 THEN First ELSE After(g[k - 1])]
             F == [n \in Nat |-> [v \in Intent |-> After(v)]]
             I == CHOOSE g : Solves(g)
  <1>1. IntentAt = I
    BY DEF IntentAt
  <1>2. First \in Intent /\ F \in StepFunctions(Intent) /\ \A v \in Intent : After(v) \in Intent
    <2>1. \A v \in Intent : NextTtl(v.ttl) \in TTL
      BY ProbeAssumption DEF NextTtl, TTL, Intent
    <2>2. \A v \in Intent : NextSeq(v.seq) \in Seqs
      BY NextSeqValue DEF Intent
    <2>3. \A v \in Intent : After(v) \in Intent
      BY <2>1, <2>2 DEF Intent
    <2>4. First \in Intent
      BY DEF Intent
    <2> HIDE DEF After, First
    <2>5. QED
      BY <2>3, <2>4 DEF StepFunctions
  <1> HIDE DEF First
  <1>3. PICK g : g \in Iterates(Intent, First, F)
    <2> HIDE DEF F
    <2>1. QED
      BY <1>2, NatRecursion
  <1> HIDE DEF After
  <1>4. Solves(g)
    <2>1. g \in [Nat -> Intent] /\ g[0] = First /\ \A n \in Nat : g[n + 1] = After(g[n])
      BY <1>3 DEF Iterates
    <2>2. ASSUME NEW k \in Nat PROVE g[k] = IF k = 0 THEN First ELSE After(g[k - 1])
      <3>1. CASE k # 0
        <4>1. k - 1 \in Nat /\ (k - 1) + 1 = k
          BY <3>1
        <4>2. QED
          BY <4>1, <3>1, <2>1
      <3>2. QED
        BY <3>1, <2>1
    <2>3. QED
      BY <2>1, <2>2
  <1>5. Solves(I)
    <2> HIDE DEF Solves
    <2>1. QED
      BY <1>4
  <1> HIDE DEF I
  <1>6. I[0] = First /\ \A k \in Nat : I[k + 1] = After(I[k])
    <2>1. \A k \in Nat : I[k] = IF k = 0 THEN First ELSE After(I[k - 1])
      BY <1>5
    <2>2. \A k \in Nat : k + 1 \in Nat /\ k + 1 # 0 /\ (k + 1) - 1 = k
      OBVIOUS
    <2>3. QED
      BY <2>1, <2>2
  <1>7. \A k \in Nat : I[k] \in Intent /\ I[k].by = logicCrashes
    <2> DEFINE E == {k \in Nat : I[k] \in Intent /\ I[k].by = logicCrashes}
    <2>1. 0 \in E
      BY <1>2, <1>6 DEF First
    <2>2. ASSUME NEW k \in E PROVE k + 1 \in E
      <3>1. After(I[k]) \in Intent
        BY <1>2
      <3>2. QED
        BY <3>1, <1>6 DEF After
    <2>3. E = Nat
      <3> HIDE DEF E
      <3>1. E \subseteq Nat
        BY DEF E
      <3>2. QED
        BY <2>1, <2>2, <3>1, NatSetInduction
    <2>4. QED
      BY <2>3
  <1>8. \A k \in Nat : I[k + 1].seq = NextSeq(I[k].seq)
    <2>1. \A v : After(v).seq = NextSeq(v.seq)
      BY DEF After
    <2>2. QED
      BY <1>6, <2>1
  <1>9. QED
    BY <1>1, <1>6, <1>7, <1>8 DEF First

LEMMA BackNext ==
    ASSUME NEW s \in Seqs, NEW k \in Nat, k + 1 <= SeqSpace
    PROVE  Back(NextSeq(s), k + 1) = Back(s, k)
  BY NextSeqValue, ProbeAssumption DEF Back, Seqs

(* Going back from a later number leads as far as from an earlier one.     *)
LEMMA BackIntent ==
    ASSUME seq \in Seqs, ttl \in TTL, logicCrashes \in Nat,
           NEW j \in Nat, NEW k \in Nat, NEW n \in Nat, k + n <= SeqSpace
    PROVE  Back(IntentAt[j + n].seq, k + n) = Back(IntentAt[j].seq, k)
  <1> DEFINE E == {m \in Nat : k + m <= SeqSpace =>
                       Back(IntentAt[j + m].seq, k + m) = Back(IntentAt[j].seq, k)}
  <1>1. 0 \in E
    OBVIOUS
  <1>2. ASSUME NEW m \in E PROVE m + 1 \in E
    <2>1. j + m \in Nat /\ k + m \in Nat /\ j + (m + 1) = (j + m) + 1 /\ k + (m + 1) = (k + m) + 1
      OBVIOUS
    <2>2. IntentAt[j + m].seq \in Seqs /\ IntentAt[(j + m) + 1].seq = NextSeq(IntentAt[j + m].seq)
      BY <2>1, IntentUnfolds DEF Intent
    <2>3. CASE k + (m + 1) <= SeqSpace
      <3>1. k + m <= SeqSpace /\ (k + m) + 1 <= SeqSpace
        BY <2>1, <2>3, ProbeAssumption
      <3>2. Back(IntentAt[j + m].seq, k + m) = Back(IntentAt[j].seq, k)
        BY <3>1
      <3>3. Back(NextSeq(IntentAt[j + m].seq), (k + m) + 1) = Back(IntentAt[j + m].seq, k + m)
        BY <2>1, <2>2, <3>1, BackNext
      <3>4. QED
        BY <2>1, <2>2, <3>2, <3>3
    <2>4. QED
      BY <2>3
  <1>3. E = Nat
    <2> HIDE DEF E
    <2>1. E \subseteq Nat
      BY DEF E
    <2>2. QED
      BY <1>1, <1>2, <2>1, NatSetInduction
  <1>4. QED
    BY <1>3

-----------------------------------------------------------------------------
(* Counting.                                                               *)

LEMMA CountType ==
    ASSUME NEW q, Len(q) \in Nat, NEW t
    PROVE  /\ IsFiniteSet({i \in 1..Len(q) : q[i].ttl = t})
           /\ Count(q, t) \in Nat
  <1>1. IsFiniteSet(1..Len(q))
    BY FS_Interval
  <1>2. {i \in 1..Len(q) : q[i].ttl = t} \in SUBSET (1..Len(q))
    OBVIOUS
  <1>3. QED
    BY <1>1, <1>2, FS_Subset, FS_CardinalityType DEF Count

(* The elements of a concatenation are those of its parts.                 *)
LEMMA CountConcat ==
    ASSUME NEW S, NEW p \in Seq(S), NEW q \in Seq(S), NEW t
    PROVE  Count(p \o q, t) = Count(p, t) + Count(q, t)
  <1> DEFINE m == Len(p)
             A == {i \in 1..Len(p) : p[i].ttl = t}
             B == {i \in 1..Len(q) : q[i].ttl = t}
             C == {i \in 1..Len(p \o q) : (p \o q)[i].ttl = t}
             D == {i \in (m + 1)..(m + Len(q)) : q[i - m].ttl = t}
             f == [i \in B |-> i + m]
  <1>1. m \in Nat /\ Len(q) \in Nat
    BY LenProperties
  <1>2. C = A \cup D
    <2>1. Len(p \o q) = m + Len(q)
      BY ConcatProperties
    <2>2. \A i \in 1..(m + Len(q)) : (p \o q)[i] = IF i <= m THEN p[i] ELSE q[i - m]
      BY ConcatProperties
    <2>3. \A i : i \in 1..(m + Len(q)) <=> i \in 1..m \/ i \in (m + 1)..(m + Len(q))
      BY <1>1
    <2>4. \A i \in 1..m : i <= m
      BY <1>1
    <2>5. \A i \in (m + 1)..(m + Len(q)) : ~(i <= m)
      BY <1>1
    <2>6. \A i : i \in C <=> i \in A \/ i \in D
      <3> HIDE DEF m
      <3>1. QED
        BY <2>1, <2>2, <2>3, <2>4, <2>5 DEF m
    <2> HIDE DEF A, C, D
    <2>7. QED
      BY <2>6
  <1>3. A \cap D = {}
    BY <1>1
  <1>4. /\ IsFiniteSet(A) /\ Cardinality(A) = Count(p, t)
        /\ IsFiniteSet(B) /\ Cardinality(B) = Count(q, t)
    BY <1>1, CountType DEF Count
  <1>5. ExistsBijection(B, D)
    <2>1. \A i \in B : i + m \in D
      BY <1>1
    <2>2. \A j \in D : j - m \in B /\ (j - m) + m = j
      BY <1>1
    <2>3. \A i, j \in B : i + m = j + m => i = j
      BY <1>1
    <2> HIDE DEF B, D, m
    <2>4. f \in [B -> D] /\ \A i \in B : f[i] = i + m
      BY <2>1
    <2> HIDE DEF f
    <2>5. f \in Bijection(B, D)
      BY <2>2, <2>3, <2>4 DEF Bijection, Injection, Surjection, IsInjective
    <2>6. QED
      BY <2>5 DEF ExistsBijection
  <1>6. IsFiniteSet(D) /\ Cardinality(D) = Count(q, t)
    <2> HIDE DEF B, D
    <2>1. QED
      BY <1>4, <1>5, FS_Bijection
  <1>7. Cardinality(A \cup D) = Cardinality(A) + Cardinality(D) - Cardinality({})
    <2> HIDE DEF A, D
    <2>1. QED
      BY <1>3, <1>4, <1>6, FS_Union
  <1>8. Count(p \o q, t) = Cardinality(C)
    BY DEF Count
  <1>9. Count(p, t) \in Nat /\ Count(q, t) \in Nat
    BY <1>1, CountType
  <1>10. QED
    <2> HIDE DEF A, C, D
    <2>1. QED
      BY <1>2, <1>4, <1>6, <1>7, <1>8, <1>9, FS_EmptySet

LEMMA CountAppend ==
    ASSUME NEW S, NEW q \in Seq(S), NEW e \in S, NEW t
    PROVE  Count(Append(q, e), t) = Count(q, t) + IF e.ttl = t THEN 1 ELSE 0
  <1>1. Append(q, e) = q \o <<e>> /\ <<e>> \in Seq(S)
    BY AppendIsConcat
  <1>2. Count(<<e>>, t) = IF e.ttl = t THEN 1 ELSE 0
    <2>1. {i \in 1..Len(<<e>>) : <<e>>[i].ttl = t} = IF e.ttl = t THEN {1} ELSE {}
      OBVIOUS
    <2>2. QED
      BY <2>1, FS_EmptySet, FS_Singleton DEF Count
  <1>3. Count(q \o <<e>>, t) = Count(q, t) + Count(<<e>>, t)
    BY <1>1, CountConcat, Zenon
  <1>4. QED
    BY <1>1, <1>2, <1>3

(* Cutting a queue in two.                                                 *)
LEMMA CountCut ==
    ASSUME NEW S, NEW q \in Seq(S), NEW n \in 0..Len(q), NEW t
    PROVE  Count(q, t) = Count(SubSeq(q, 1, n), t) + Count(SubSeq(q, n + 1, Len(q)), t)
  <1>1. Len(q) \in Nat /\ \A i \in 1..Len(q) : q[i] \in S
    BY LenProperties, ElementOfSeq
  <1>2. SubSeq(q, 1, n) \in Seq(S) /\ SubSeq(q, n + 1, Len(q)) \in Seq(S)
    BY <1>1, SubSeqProperties
  <1>3. SubSeq(q, 1, n) \o SubSeq(q, n + 1, Len(q)) = q
    <2>1. 1 \in 1..(Len(q) + 1) /\ n \in (1 - 1)..Len(q) /\ Len(q) \in n..Len(q)
      BY <1>1
    <2>2. QED
      BY <2>1, ConcatAdjacentSubSeq, SubSeqFull
  <1>4. \A p, r \in Seq(S) : Count(p \o r, t) = Count(p, t) + Count(r, t)
    BY CountConcat, Zenon
  <1>5. QED
    BY <1>2, <1>3, <1>4, Zenon

(* a: b with some entries made inactive                                    *)
Weakened(a, b) ==
    \A i \in 0..(Slots - 1) :
        /\ a[i].seq = b[i].seq /\ a[i].ttl = b[i].ttl /\ a[i].at = b[i].at
        /\ a[i].active => b[i].active

LEMMA ActiveType ==
    ASSUME NEW table, NEW t
    PROVE  /\ IsFiniteSet({i \in 0..(Slots - 1) : table[i].active /\ table[i].ttl = t})
           /\ Active(table, t) \in Nat
  <1>1. IsFiniteSet(0..(Slots - 1))
    BY FS_Interval, ProbeAssumption
  <1>2. {i \in 0..(Slots - 1) : table[i].active /\ table[i].ttl = t} \in SUBSET (0..(Slots - 1))
    OBVIOUS
  <1>3. QED
    BY <1>1, <1>2, FS_Subset, FS_CardinalityType DEF Active

LEMMA ActiveWeakened ==
    ASSUME NEW a, NEW b, Weakened(a, b), NEW t
    PROVE  Active(a, t) <= Active(b, t)
  <1> DEFINE A == {i \in 0..(Slots - 1) : a[i].active /\ a[i].ttl = t}
             B == {i \in 0..(Slots - 1) : b[i].active /\ b[i].ttl = t}
  <1>1. A \in SUBSET B
    <2>1. ASSUME NEW i \in 0..(Slots - 1), a[i].active, a[i].ttl = t
          PROVE  b[i].active /\ b[i].ttl = t
      BY <2>1, Zenon DEF Weakened
    <2>2. QED
      BY <2>1
  <1>2. IsFiniteSet(B)
    BY ActiveType
  <1>3. Cardinality(A) <= Cardinality(B)
    <2> HIDE DEF A, B
    <2>1. QED
      BY <1>1, <1>2, FS_Subset
  <1>4. QED
    BY <1>3 DEF Active

(* One more entry for a hop at most.                                       *)
LEMMA ActiveEntry ==
    ASSUME NEW a, NEW b, NEW k \in 0..(Slots - 1), NEW t,
           \A i \in 0..(Slots - 1) : i # k => b[i] = a[i]
    PROVE  Active(b, t) <= Active(a, t) + IF b[k].active /\ b[k].ttl = t THEN 1 ELSE 0
  <1> DEFINE A == {i \in 0..(Slots - 1) : a[i].active /\ a[i].ttl = t}
             B == {i \in 0..(Slots - 1) : b[i].active /\ b[i].ttl = t}
  <1>1. IsFiniteSet(A) /\ Cardinality(A) \in Nat /\ Cardinality(B) \in Nat
    BY ActiveType DEF Active
  <1>2. IsFiniteSet(A \cup {k}) /\ Cardinality(A \cup {k}) <= Cardinality(A) + 1
    <2> HIDE DEF A
    <2>1. QED
      BY <1>1, FS_AddElement
  <1>3. B \in SUBSET (A \cup {k}) /\ (~(b[k].active /\ b[k].ttl = t) => B \in SUBSET A)
    OBVIOUS
  <1>4. /\ Cardinality(B) <= Cardinality(A \cup {k})
        /\ ~(b[k].active /\ b[k].ttl = t) => Cardinality(B) <= Cardinality(A)
    <2> HIDE DEF A, B
    <2>1. QED
      BY <1>1, <1>2, <1>3, FS_Subset
  <1>5. Cardinality(A \cup {k}) \in Nat
    <2> HIDE DEF A
    <2>1. QED
      BY <1>2, FS_CardinalityType
  <1>6. Active(a, t) = Cardinality(A) /\ Active(b, t) = Cardinality(B)
    BY DEF Active
  <1>7. QED
    <2> HIDE DEF A, B
    <2>1. QED
      BY <1>1, <1>2, <1>4, <1>5, <1>6

(* Clearing an active entry takes one from the count of its hop.           *)
LEMMA ActiveCleared ==
    ASSUME NEW a, NEW b, NEW k \in 0..(Slots - 1), NEW t,
           a[k].active, ~b[k].active,
           \A i \in 0..(Slots - 1) : i # k => b[i] = a[i]
    PROVE  Active(b, t) + (IF a[k].ttl = t THEN 1 ELSE 0) <= Active(a, t)
  <1> DEFINE A == {i \in 0..(Slots - 1) : a[i].active /\ a[i].ttl = t}
             B == {i \in 0..(Slots - 1) : b[i].active /\ b[i].ttl = t}
  <1>1. IsFiniteSet(A) /\ Cardinality(A) \in Nat /\ Cardinality(B) \in Nat
    BY ActiveType DEF Active
  <1>2. B = A \ {k} /\ (k \in A <=> a[k].ttl = t)
    OBVIOUS
  <1>3. Active(a, t) = Cardinality(A) /\ Active(b, t) = Cardinality(B)
    BY DEF Active
  <1> HIDE DEF A, B
  <1>4. Cardinality(B) = IF k \in A THEN Cardinality(A) - 1 ELSE Cardinality(A)
    BY <1>1, <1>2, FS_RemoveElement
  <1>5. QED
    BY <1>1, <1>2, <1>3, <1>4

-----------------------------------------------------------------------------
(* The loops over the intents.                                             *)

Tracked(intent, time) == [active |-> TRUE, seq |-> intent.seq, ttl |-> intent.ttl, at |-> time]

LEMMA TrackOne ==
    ASSUME NEW table \in Table, NEW intent \in Intent, now \in Nat
    PROVE  /\ track_probe(table, intent) \in Table
           /\ track_probe(table, intent)[Slot(intent.seq)] = Tracked(intent, now)
           /\ \A i \in 0..(Slots - 1) : i # Slot(intent.seq) => track_probe(table, intent)[i] = table[i]
  <1>1. Slot(intent.seq) \in 0..(Slots - 1)
    BY SlotType DEF Intent
  <1>2. Tracked(intent, now) \in Entry
    BY ProbeAssumption DEF Tracked, Entry, Intent, TTL
  <1>3. track_probe(table, intent) = [table EXCEPT ![Slot(intent.seq)] = Tracked(intent, now)]
    BY DEF track_probe, Tracked
  <1>4. QED
    BY <1>1, <1>2, <1>3 DEF Table

LEMMA DropOne ==
    ASSUME NEW table \in Table, NEW s \in Seqs
    PROVE  drop_probe(table, s) \in Table /\ Weakened(drop_probe(table, s), table)
  <1>1. Slot(s) \in 0..(Slots - 1)
    BY SlotType
  <1>2. \A i \in 0..(Slots - 1) : table[i] \in Entry
    BY DEF Table
  <1>3. CASE Matches(table, s)
    <2> DEFINE e == [table[Slot(s)] EXCEPT !.active = FALSE]
    <2>1. e \in Entry /\ e.seq = table[Slot(s)].seq /\ e.ttl = table[Slot(s)].ttl
          /\ e.at = table[Slot(s)].at /\ e.active = FALSE
      BY <1>1, <1>2 DEF Entry
    <2>2. drop_probe(table, s) = [table EXCEPT ![Slot(s)] = e]
      BY <1>3 DEF drop_probe
    <2> HIDE DEF e
    <2>3. QED
      BY <1>1, <2>1, <2>2 DEF Table, Weakened
  <1>4. CASE ~Matches(table, s)
    BY <1>4 DEF drop_probe, Weakened
  <1>5. QED
    BY <1>3, <1>4

(* What TrackAll leaves in a slot is of the last intent for it, if any.    *)
LastFor(intents, i, j) ==
    Slot(intents[j].seq) = i /\ \A k \in 1..Len(intents) : Slot(intents[k].seq) = i => k <= j

LEMMA TrackUnfolds ==
    ASSUME NEW table \in Table, NEW intents \in Seq(Intent), now \in Nat
    PROVE  \E tab :
              /\ tab[0] = table /\ TrackAll(table, intents) = tab[Len(intents)]
              /\ \A n \in 0..Len(intents) : tab[n] \in Table
              /\ \A n \in 1..Len(intents) : tab[n] = track_probe(tab[n - 1], intents[n])
  <1> DEFINE m == Len(intents)
             Solves(g) == g = [n \in 0..m |-> IF n = 0 THEN table ELSE track_probe(g[n - 1], intents[n])]
             Step(n, v) == IF n < m THEN track_probe(v, intents[n + 1]) ELSE v
             F == [n \in Nat |-> [v \in Table |-> Step(n, v)]]
             Tab == CHOOSE g : Solves(g)
  <1>1. m \in Nat /\ \A n \in 1..m : intents[n] \in Intent
    BY LenProperties, ElementOfSeq
  <1>2. TrackAll(table, intents) = Tab[m]
    BY DEF TrackAll
  <1>3. F \in StepFunctions(Table)
    <2>1. ASSUME NEW n \in Nat, NEW v \in Table PROVE Step(n, v) \in Table
      <3>1. CASE n < m
        <4>1. n + 1 \in 1..m
          BY <1>1, <3>1
        <4>2. QED
          BY <1>1, <3>1, <4>1, TrackOne
      <3>2. QED
        BY <3>1
    <2> HIDE DEF Step
    <2>2. QED
      BY <2>1 DEF StepFunctions
  <1>4. PICK g : g \in Iterates(Table, table, F)
    <2> HIDE DEF F
    <2>1. QED
      BY <1>3, NatRecursion
  <1> HIDE DEF Step
  <1>5. g \in [Nat -> Table] /\ g[0] = table /\ \A n \in Nat : g[n + 1] = Step(n, g[n])
    BY <1>4 DEF Iterates
  <1> DEFINE h == [n \in 0..m |-> g[n]]
  <1>6. \A n \in 1..m : n - 1 \in Nat /\ n - 1 \in 0..m /\ n - 1 < m /\ (n - 1) + 1 = n /\ n # 0 /\ n \in 0..m
    BY <1>1
  <1>7. Solves(h)
    <2>1. \A n \in 1..m : g[n] = track_probe(g[n - 1], intents[n])
      BY <1>5, <1>6 DEF Step
    <2>2. \A n \in 0..m : n = 0 \/ n \in 1..m
      BY <1>1
    <2> HIDE DEF m
    <2>3. \A n \in 0..m : h[n] = IF n = 0 THEN table ELSE track_probe(h[n - 1], intents[n])
      BY <1>5, <1>6, <2>1, <2>2
    <2>4. h = [n \in 0..m |-> h[n]]
      BY Zenon
    <2> HIDE DEF h
    <2>5. QED
      BY <2>3, <2>4
  <1>8. Solves(Tab)
    <2> HIDE DEF Solves, h
    <2>1. QED
      BY <1>7
  <1> HIDE DEF Tab
  <1>9. /\ Tab[0] = table
        /\ \A n \in 1..m : Tab[n] = track_probe(Tab[n - 1], intents[n])
    <2>1. \A n \in 0..m : Tab[n] = IF n = 0 THEN table ELSE track_probe(Tab[n - 1], intents[n])
      <3> HIDE DEF m
      <3>1. QED
        BY <1>8
    <2>2. 0 \in 0..m
      BY <1>1
    <2> HIDE DEF m
    <2>3. QED
      BY <1>6, <2>1, <2>2
  <1>10. \A n \in 0..m : Tab[n] \in Table
    <2> DEFINE E == {n \in Nat : n <= m => Tab[n] \in Table}
    <2>1. 0 \in E
      BY <1>9
    <2>2. ASSUME NEW n \in E PROVE n + 1 \in E
      <3>1. CASE n + 1 <= m
        <4>1. n + 1 \in 1..m /\ (n + 1) - 1 = n /\ n <= m
          BY <1>1, <3>1
        <4>2. Tab[n] \in Table /\ Tab[n + 1] = track_probe(Tab[n], intents[n + 1])
          BY <1>9, <4>1
        <4>3. Tab[n + 1] \in Table
          BY <1>1, <4>1, <4>2, TrackOne
        <4>4. QED
          BY <4>3
      <3>2. QED
        BY <3>1
    <2>3. E = Nat
      <3> HIDE DEF E
      <3>1. E \subseteq Nat
        BY DEF E
      <3>2. QED
        BY <2>1, <2>2, <3>1, NatSetInduction
    <2>4. QED
      BY <1>1, <2>3
  <1>11. QED
    <2> HIDE DEF m
    <2>1. QED
      BY <1>2, <1>9, <1>10 DEF m

LEMMA TrackAllResult ==
    ASSUME NEW table \in Table, NEW intents \in Seq(Intent), now \in Nat
    PROVE  /\ TrackAll(table, intents) \in Table
           /\ \A i \in 0..(Slots - 1) :
                 \/ /\ TrackAll(table, intents)[i] = table[i]
                    /\ \A j \in 1..Len(intents) : Slot(intents[j].seq) # i
                 \/ \E j \in 1..Len(intents) :
                       /\ LastFor(intents, i, j)
                       /\ TrackAll(table, intents)[i] = Tracked(intents[j], now)
           /\ \A t : Active(TrackAll(table, intents), t) <= Active(table, t) + Count(intents, t)
  <1> DEFINE m == Len(intents)
  <1>1. m \in Nat /\ \A n \in 1..m : intents[n] \in Intent
    BY LenProperties, ElementOfSeq
  <1>2. PICK tab : /\ tab[0] = table /\ TrackAll(table, intents) = tab[m]
                   /\ \A n \in 0..m : tab[n] \in Table
                   /\ \A n \in 1..m : tab[n] = track_probe(tab[n - 1], intents[n])
    BY TrackUnfolds
  <1>3. ASSUME NEW n \in Nat, n + 1 <= m
        PROVE  /\ n + 1 \in 1..m /\ n <= m /\ intents[n + 1] \in Intent
               /\ Slot(intents[n + 1].seq) \in 0..(Slots - 1)
               /\ tab[n + 1][Slot(intents[n + 1].seq)] = Tracked(intents[n + 1], now)
               /\ \A i \in 0..(Slots - 1) : i # Slot(intents[n + 1].seq) => tab[n + 1][i] = tab[n][i]
    <2>1. n + 1 \in 1..m /\ n \in 0..m /\ n <= m /\ (n + 1) - 1 = n
      BY <1>1, <1>3
    <2>2. tab[n] \in Table /\ tab[n + 1] = track_probe(tab[n], intents[n + 1]) /\ intents[n + 1] \in Intent
      BY <1>1, <1>2, <2>1
    <2>3. Slot(intents[n + 1].seq) \in 0..(Slots - 1)
      BY <2>2, SlotType DEF Intent
    <2>4. /\ track_probe(tab[n], intents[n + 1])[Slot(intents[n + 1].seq)] = Tracked(intents[n + 1], now)
          /\ \A i \in 0..(Slots - 1) :
                i # Slot(intents[n + 1].seq) => track_probe(tab[n], intents[n + 1])[i] = tab[n][i]
      BY <2>2, TrackOne
    <2>5. QED
      BY <2>1, <2>2, <2>3, <2>4
  <1>4. ASSUME NEW i \in 0..(Slots - 1)
        PROVE  \/ /\ tab[m][i] = table[i]
                  /\ \A j \in 1..m : Slot(intents[j].seq) # i
               \/ \E j \in 1..m : LastFor(intents, i, j) /\ tab[m][i] = Tracked(intents[j], now)
    <2> DEFINE Kept(n) == tab[n][i] = table[i] /\ \A j \in 1..n : Slot(intents[j].seq) # i
               Taken(n) == \E j \in 1..n :
                              /\ Slot(intents[j].seq) = i
                              /\ \A k \in 1..n : Slot(intents[k].seq) = i => k <= j
                              /\ tab[n][i] = Tracked(intents[j], now)
               E == {n \in Nat : n <= m => Kept(n) \/ Taken(n)}
    <2>1. 0 \in E
      BY <1>2
    <2>2. ASSUME NEW n \in Nat, n + 1 <= m, Kept(n) \/ Taken(n)
          PROVE  Kept(n + 1) \/ Taken(n + 1)
      <3>1. \A j : j \in 1..(n + 1) <=> j \in 1..n \/ j = n + 1
        OBVIOUS
      <3>2. CASE Slot(intents[n + 1].seq) = i
        <4>1. \A k \in 1..(n + 1) : k <= n + 1
          OBVIOUS
        <4>2. n + 1 \in 1..(n + 1) /\ tab[n + 1][i] = Tracked(intents[n + 1], now)
          BY <1>3, <2>2, <3>2
        <4>3. QED
          BY <4>1, <4>2, <3>2
      <3>3. CASE Slot(intents[n + 1].seq) # i
        <4>1. tab[n + 1][i] = tab[n][i]
          BY <1>3, <2>2, <3>3
        <4>2. CASE Kept(n)
          BY <3>1, <3>3, <4>1, <4>2
        <4>3. CASE Taken(n)
          BY <3>1, <3>3, <4>1, <4>3
        <4>4. QED
          BY <2>2, <4>2, <4>3
      <3>4. QED
        BY <3>2, <3>3
    <2>3. E = Nat
      <3> HIDE DEF Kept, Taken
      <3>1. ASSUME NEW n \in E PROVE n + 1 \in E
        <4>1. n + 1 <= m => n <= m
          BY <1>1
        <4>2. QED
          BY <2>2, <4>1
      <3> HIDE DEF E
      <3>2. E \subseteq Nat
        BY DEF E
      <3>3. QED
        BY <2>1, <3>1, <3>2, NatSetInduction
    <2>4. m \in E
      <3> HIDE DEF E
      <3>1. QED
        BY <1>1, <2>3
    <2>5. Kept(m) \/ Taken(m)
      <3> HIDE DEF Kept, Taken
      <3>1. QED
        BY <1>1, <2>4
    <2>6. QED
      BY <2>5 DEF LastFor
  <1>5. ASSUME NEW t PROVE Active(tab[m], t) <= Active(table, t) + Count(intents, t)
    <2> DEFINE C(n) == {j \in 1..n : intents[j].ttl = t}
               P(n) == /\ IsFiniteSet(C(n))
                       /\ Active(tab[n], t) <= Active(table, t) + Cardinality(C(n))
               E == {n \in Nat : n <= m => P(n)}
    <2>1. 0 \in E
      <3>1. C(0) = {} /\ IsFiniteSet(C(0)) /\ Cardinality(C(0)) = 0
        BY FS_EmptySet
      <3>2. Active(table, t) \in Nat
        BY ActiveType
      <3>3. QED
        BY <1>2, <3>1, <3>2
    <2>2. ASSUME NEW n \in Nat, n + 1 <= m, P(n) PROVE P(n + 1)
      <3> DEFINE k == Slot(intents[n + 1].seq)
                 d == IF intents[n + 1].ttl = t THEN 1 ELSE 0
      <3>1. Active(tab[n + 1], t) <= Active(tab[n], t) + d
        <4>1. k \in 0..(Slots - 1) /\ \A i \in 0..(Slots - 1) : i # k => tab[n + 1][i] = tab[n][i]
          BY <1>3, <2>2
        <4>2. tab[n + 1][k].active /\ tab[n + 1][k].ttl = intents[n + 1].ttl
          <5>1. tab[n + 1][k] = Tracked(intents[n + 1], now)
            BY <1>3, <2>2
          <5> HIDE DEF k
          <5>2. QED
            BY <5>1 DEF Tracked
        <4> HIDE DEF k
        <4>3. Active(tab[n + 1], t) <= Active(tab[n], t)
                 + IF tab[n + 1][k].active /\ tab[n + 1][k].ttl = t THEN 1 ELSE 0
          BY <4>1, ActiveEntry
        <4>4. QED
          BY <4>2, <4>3
      <3>2. IsFiniteSet(C(n + 1)) /\ Cardinality(C(n + 1)) = Cardinality(C(n)) + d
        <4>1. C(n + 1) = IF intents[n + 1].ttl = t THEN C(n) \cup {n + 1} ELSE C(n)
          <5>1. \A j : j \in 1..(n + 1) <=> j \in 1..n \/ j = n + 1
            OBVIOUS
          <5>2. QED
            BY <5>1
        <4>2. n + 1 \notin C(n)
          OBVIOUS
        <4> HIDE DEF C
        <4>3. IsFiniteSet(C(n)) /\ Cardinality(C(n)) \in Nat
          BY <2>2, FS_CardinalityType
        <4>4. QED
          BY <4>1, <4>2, <4>3, FS_AddElement
      <3>3. /\ Active(tab[n + 1], t) \in Nat /\ Active(tab[n], t) \in Nat
            /\ Active(table, t) \in Nat /\ d \in Nat
        BY ActiveType
      <3> HIDE DEF C
      <3>4. Cardinality(C(n)) \in Nat
        BY <2>2, FS_CardinalityType
      <3> HIDE DEF d
      <3>5. QED
        BY <2>2, <3>1, <3>2, <3>3, <3>4
    <2>3. E = Nat
      <3> HIDE DEF P
      <3>1. ASSUME NEW n \in E PROVE n + 1 \in E
        <4>1. n + 1 <= m => n <= m
          BY <1>1
        <4>2. QED
          BY <2>2, <4>1
      <3> HIDE DEF E
      <3>2. E \subseteq Nat
        BY DEF E
      <3>3. QED
        BY <2>1, <3>1, <3>2, NatSetInduction
    <2>4. m \in E
      <3> HIDE DEF E
      <3>1. QED
        BY <1>1, <2>3
    <2>5. P(m)
      <3> HIDE DEF P
      <3>1. QED
        BY <1>1, <2>4
    <2>6. QED
      BY <2>5 DEF Count
  <1>6. tab[m] \in Table
    <2>1. m \in 0..m
      BY <1>1
    <2>2. QED
      BY <1>2, <2>1
  <1>7. QED
    BY <1>2, <1>4, <1>5, <1>6

LEMMA WeakenedTrans ==
    ASSUME NEW a, NEW b, NEW c, Weakened(a, b), Weakened(b, c)
    PROVE  Weakened(a, c)
  BY DEF Weakened

(* DropFrom only makes entries inactive.                                   *)
LEMMA DropFromResult ==
    ASSUME NEW table \in Table, NEW intents \in Seq(Intent), NEW first \in Nat \ {0}
    PROVE  /\ DropFrom(table, intents, first) \in Table
           /\ Weakened(DropFrom(table, intents, first), table)
  <1> DEFINE m == Len(intents)
             Solves(g) == g = [n \in 0..m |-> IF n < first THEN table ELSE drop_probe(g[n - 1], intents[n].seq)]
             Step(n, v) == IF n < m /\ first <= n + 1 THEN drop_probe(v, intents[n + 1].seq) ELSE table
             F == [n \in Nat |-> [v \in Table |-> Step(n, v)]]
             Tab == CHOOSE g : Solves(g)
  <1>1. m \in Nat /\ \A n \in 1..m : intents[n].seq \in Seqs
    <2>1. \A n \in 1..m : intents[n] \in Intent
      BY ElementOfSeq
    <2>2. \A e \in Intent : e.seq \in Seqs
      BY DEF Intent
    <2>3. QED
      BY <2>1, <2>2, LenProperties
  <1>2. DropFrom(table, intents, first) = Tab[m]
    BY DEF DropFrom
  <1>3. F \in StepFunctions(Table)
    <2>1. ASSUME NEW n \in Nat, NEW v \in Table PROVE Step(n, v) \in Table
      <3>1. CASE n < m
        <4>1. n + 1 \in 1..m
          BY <1>1, <3>1
        <4>2. QED
          BY <1>1, <3>1, <4>1, DropOne
      <3>2. QED
        BY <3>1
    <2> HIDE DEF Step
    <2>2. QED
      BY <2>1 DEF StepFunctions
  <1>4. PICK g : g \in Iterates(Table, table, F)
    <2> HIDE DEF F
    <2>1. QED
      BY <1>3, NatRecursion
  <1> HIDE DEF Step
  <1>5. g \in [Nat -> Table] /\ g[0] = table /\ \A n \in Nat : g[n + 1] = Step(n, g[n])
    BY <1>4 DEF Iterates
  <1> DEFINE h == [n \in 0..m |-> g[n]]
  <1>6. \A n \in 1..m :
           /\ n - 1 \in Nat /\ n - 1 \in 0..m /\ n - 1 < m /\ (n - 1) + 1 = n
           /\ n # 0 /\ n \in 0..m /\ (n < first <=> ~(first <= n))
    BY <1>1
  <1>7. Solves(h)
    <2>1. ASSUME NEW n \in 1..m
          PROVE  g[n] = IF n < first THEN table ELSE drop_probe(g[n - 1], intents[n].seq)
      <3>1. /\ n - 1 \in Nat /\ n - 1 < m /\ (n - 1) + 1 = n /\ (n < first <=> ~(first <= n))
        BY <1>6
      <3>2. g[n] = Step(n - 1, g[n - 1])
        BY <1>5, <3>1
      <3>3. QED
        BY <3>1, <3>2 DEF Step
    <2>2. 0 < first /\ \A n \in 0..m : n = 0 \/ n \in 1..m
      BY <1>1
    <2> HIDE DEF m
    <2>3. \A n \in 0..m : h[n] = IF n < first THEN table ELSE drop_probe(h[n - 1], intents[n].seq)
      BY <1>5, <1>6, <2>1, <2>2
    <2>4. h = [n \in 0..m |-> h[n]]
      BY Zenon
    <2> HIDE DEF h
    <2>5. QED
      BY <2>3, <2>4
  <1>8. Solves(Tab)
    <2> HIDE DEF Solves, h
    <2>1. QED
      BY <1>7
  <1> HIDE DEF Tab
  <1>9. \A n \in 0..m : Tab[n] = IF n < first THEN table ELSE drop_probe(Tab[n - 1], intents[n].seq)
    <2> HIDE DEF m
    <2>1. QED
      BY <1>8
  <1> DEFINE P(n) == Tab[n] \in Table /\ Weakened(Tab[n], table)
             E == {n \in Nat : n <= m => P(n)}
  <1>10. Weakened(table, table)
    BY DEF Weakened
  <1>11. 0 \in E
    <2>1. 0 \in 0..m /\ 0 < first
      BY <1>1
    <2>2. QED
      BY <1>9, <1>10, <2>1
  <1>12. ASSUME NEW n \in Nat, n + 1 <= m, P(n) PROVE P(n + 1)
    <2>1. n + 1 \in 0..m /\ (n + 1) - 1 = n /\ intents[n + 1].seq \in Seqs
      BY <1>1, <1>12
    <2>2. Tab[n + 1] = IF n + 1 < first THEN table ELSE drop_probe(Tab[n], intents[n + 1].seq)
      BY <1>9, <2>1
    <2>3. drop_probe(Tab[n], intents[n + 1].seq) \in Table
          /\ Weakened(drop_probe(Tab[n], intents[n + 1].seq), Tab[n])
      BY <1>12, <2>1, DropOne
    <2>4. QED
      BY <1>10, <1>12, <2>2, <2>3, WeakenedTrans
  <1>13. E = Nat
    <2> HIDE DEF P
    <2>1. ASSUME NEW n \in E PROVE n + 1 \in E
      <3>1. n + 1 <= m => n <= m
        BY <1>1
      <3>2. QED
        BY <1>12, <3>1
    <2> HIDE DEF E
    <2>2. E \subseteq Nat
      BY DEF E
    <2>3. QED
      BY <1>11, <2>1, <2>2, NatSetInduction
  <1>14. m \in E
    <2> HIDE DEF E
    <2>1. QED
      BY <1>1, <1>13
  <1>15. QED
    BY <1>1, <1>2, <1>14

LEMMA ReapResult ==
    ASSUME NEW table \in Table
    PROVE  /\ reap_stale_inflight(table) \in Table
           /\ Weakened(reap_stale_inflight(table), table)
           /\ ReapDue => \A i \in 0..(Slots - 1) :
                 reap_stale_inflight(table)[i].active => ~(now - table[i].at > ReapAge)
  <1>1. CASE ~ReapDue
    BY <1>1 DEF reap_stale_inflight, Weakened
  <1>2. CASE ReapDue
    <2>1. DOMAIN table = 0..(Slots - 1) /\ \A i \in 0..(Slots - 1) : table[i] \in Entry
      BY DEF Table
    <2> DEFINE Cleared(e) == [e EXCEPT !.active = FALSE]
    <2>2. \A e \in Entry :
             /\ Cleared(e) \in Entry /\ Cleared(e).active = FALSE
             /\ Cleared(e).seq = e.seq /\ Cleared(e).ttl = e.ttl /\ Cleared(e).at = e.at
      BY DEF Entry
    <2>3. reap_stale_inflight(table) =
             [i \in 0..(Slots - 1) |-> IF table[i].active /\ now - table[i].at > ReapAge
                                       THEN Cleared(table[i]) ELSE table[i]]
      BY <1>2, <2>1 DEF reap_stale_inflight
    <2> HIDE DEF Cleared
    <2>4. QED
      BY <2>1, <2>2, <2>3 DEF Table, Weakened
  <1>3. QED
    BY <1>1, <1>2

-----------------------------------------------------------------------------
(* PathInv: what holds without any assumption on the timing.               *)

LEMMA InitPath == Init => PathInv
  <1> SUFFICES ASSUME Init PROVE PathInv
    OBVIOUS
  <1> USE ProbeAssumption DEF Init
  <1>1. TypeOK
    <2>1. inflight \in [0..(Slots - 1) -> Entry]
      BY DEF Inactive, Entry, Seqs
    <2>2. sent \in [TTL -> Nat] /\ recv \in [TTL -> Nat] /\ seq \in Seqs /\ ttl \in TTL
      BY DEF TTL, Seqs
    <2>3. QED
      BY <2>1, <2>2 DEF TypeOK
  <1>2. \A i \in 0..(Slots - 1) : inflight[i].active = FALSE /\ inflight[i].at = 0
    BY DEF Inactive
  <1>3. Clocks(now, lastProbe, lastReap, inflight, net) /\ Reaped(now, lastReap, inflight)
    BY <1>2 DEF Clocks, Reaped
  <1>4. Accounted(sent, recv, l2g, inflight, g2l)
    <2>1. ASSUME NEW t \in TTL
          PROVE  Active(inflight, t) = 0 /\ Count(l2g, t) = 0 /\ Count(g2l, t) = 0
      <3>1. {i \in 0..(Slots - 1) : inflight[i].active /\ inflight[i].ttl = t} = {}
        BY <1>2
      <3>2. {i \in 1..Len(<<>>) : <<>>[i].ttl = t} = {}
        OBVIOUS
      <3>3. QED
        BY <3>1, <3>2, FS_EmptySet DEF Active, Count
    <2>2. \A t \in TTL : recv[t] = 0 /\ sent[t] = 0
      OBVIOUS
    <2> HIDE DEF Init
    <2>3. ASSUME NEW t \in TTL
          PROVE  recv[t] + Count(g2l, t) + Active(inflight, t) + Count(l2g, t) <= sent[t]
      BY <2>1, <2>2
    <2>4. QED
      BY <2>3, Zenon DEF Accounted
  <1>5. Ordered(l2g, net, g2l, logicCrashes)
    BY DEF Ordered
  <1>6. QED
    BY <1>1, <1>3, <1>4, <1>5 DEF PathInv

Burst(b) == [i \in 1..b |-> IntentAt[i - 1]]

LEMMA BurstResult ==
    ASSUME TypeOK, logicCrashes \in Nat, NEW b \in 1..MaxBurst
    PROVE  /\ b \in Nat \ {0} /\ b <= MaxBurst
           /\ Burst(b) \in Seq(Intent) /\ Len(Burst(b)) = b
           /\ \A i \in 1..b : Burst(b)[i] = IntentAt[i - 1] /\ Burst(b)[i].by = logicCrashes
  <1>1. b \in Nat \ {0} /\ b <= MaxBurst /\ \A i \in 1..b : i - 1 \in Nat
    BY ProbeAssumption
  <1>2. \A k \in Nat : IntentAt[k] \in Intent /\ IntentAt[k].by = logicCrashes
    BY IntentUnfolds DEF TypeOK
  <1>3. \A i \in 1..b : Burst(b)[i] = IntentAt[i - 1] /\ Burst(b)[i] \in Intent /\ Burst(b)[i].by = logicCrashes
    BY <1>1, <1>2 DEF Burst
  <1>4. Burst(b) \in [1..b -> Intent]
    <2>1. Burst(b) = [i \in 1..b |-> Burst(b)[i]]
      BY DEF Burst
    <2>2. QED
      BY <1>3, <2>1
  <1>5. Burst(b) \in Seq(Intent)
    BY <1>1, <1>4, SeqDef
  <1>6. Len(Burst(b)) = b
    <2>1. DOMAIN Burst(b) = 1..b /\ DOMAIN Burst(b) = 1..Len(Burst(b)) /\ Len(Burst(b)) \in Nat
      BY <1>4, <1>5, LenProperties
    <2>2. QED
      BY <1>1, <2>1
  <1>7. QED
    BY <1>1, <1>3, <1>5, <1>6

LEMMA PathBurst ==
    ASSUME PathInv, NEW b \in 1..MaxBurst, LogicBurst(b)
    PROVE  PathInv'
  <1> DEFINE B == Burst(b)
  <1>1. /\ TypeOK /\ logicCrashes \in Nat
        /\ Clocks(now, lastProbe, lastReap, inflight, net) /\ Reaped(now, lastReap, inflight)
        /\ logicCrashes = 0 => Accounted(sent, recv, l2g, inflight, g2l)
        /\ Ordered(l2g, net, g2l, logicCrashes)
    BY DEF PathInv
  <1>2. /\ b \in Nat \ {0} /\ B \in Seq(Intent) /\ Len(B) = b
        /\ \A i \in 1..b : B[i] = IntentAt[i - 1] /\ B[i].by = logicCrashes
    BY <1>1, BurstResult
  <1>3. /\ sent' = [t \in TTL |-> sent[t] + Count(B, t)]
        /\ l2g' = l2g \o B
    <2>1. l2g' = l2g \o B
      BY DEF LogicBurst, Burst
    <2>2. sent' = [t \in TTL |-> sent[t] + Cardinality({i \in 1..b : B[i].ttl = t})]
      BY DEF LogicBurst, Burst
    <2>3. \A t : Count(B, t) = Cardinality({i \in 1..b : B[i].ttl = t})
      BY <1>2 DEF Count
    <2> HIDE DEF B
    <2>4. QED
      BY <2>1, <2>2, <2>3
  <1> HIDE DEF B
  <1>4. UNCHANGED <<now, recv, g2l, inflight, lastReap, net, logicCrashes>> /\ lastProbe' = now
    BY DEF LogicBurst, gkVars
  <1>5. l2g \in Seq(Intent) /\ now \in Nat
    BY <1>1 DEF TypeOK, Intent
  <1>6. /\ l2g \o B \in Seq(Intent) /\ Len(l2g \o B) = Len(l2g) + b
        /\ \A i \in 1..(Len(l2g) + b) : (l2g \o B)[i] = IF i <= Len(l2g) THEN l2g[i] ELSE B[i - Len(l2g)]
    BY <1>2, <1>5, ConcatProperties
  <1>7. TypeOK'
    <2>1. seq' \in Seqs /\ ttl' \in TTL
      <3>1. IntentAt[b] \in Intent
        BY <1>1, <1>2, IntentUnfolds DEF TypeOK
      <3>2. seq' = IntentAt[b].seq /\ ttl' = IntentAt[b].ttl
        BY DEF LogicBurst
      <3>3. QED
        BY <3>1, <3>2 DEF Intent
    <2>2. sent' \in [TTL -> Nat]
      <3>1. \A t \in TTL : sent[t] \in Nat /\ Count(B, t) \in Nat
        BY <1>1, <1>2, CountType DEF TypeOK
      <3>2. QED
        BY <1>3, <3>1
    <2>3. QED
      BY <1>1, <1>3, <1>4, <1>5, <1>6, <2>1, <2>2 DEF TypeOK, Intent
  <1>8. Clocks(now, lastProbe, lastReap, inflight, net)'
    BY <1>1, <1>4, <1>5 DEF Clocks
  <1>9. Reaped(now, lastReap, inflight)'
    BY <1>1, <1>4
  <1>10. (logicCrashes = 0 => Accounted(sent, recv, l2g, inflight, g2l))'
    <2> SUFFICES ASSUME logicCrashes = 0, NEW t \in TTL
                 PROVE  recv[t] + Count(g2l, t) + Active(inflight, t) + Count(l2g', t) <= sent'[t]
      BY <1>4 DEF Accounted
    <2>1. Count(l2g', t) = Count(l2g, t) + Count(B, t)
      BY <1>2, <1>3, <1>5, CountConcat
    <2>2. recv[t] + Count(g2l, t) + Active(inflight, t) + Count(l2g, t) <= sent[t]
      BY <1>1 DEF Accounted
    <2>3. /\ Count(l2g, t) \in Nat /\ Count(B, t) \in Nat /\ Count(g2l, t) \in Nat
          /\ Active(inflight, t) \in Nat /\ recv[t] \in Nat /\ sent[t] \in Nat
      BY <1>1, <1>2, CountType, ActiveType, LenProperties DEF TypeOK
    <2>4. sent'[t] = sent[t] + Count(B, t)
      BY <1>3
    <2>5. QED
      BY <2>1, <2>2, <2>3, <2>4
  <1>11. Ordered(l2g, net, g2l, logicCrashes)'
    <2>1. ASSUME NEW i \in 1..(Len(l2g) + b)
          PROVE  \/ i \in 1..Len(l2g) /\ (l2g \o B)[i] = l2g[i]
                 \/ ~(i <= Len(l2g)) /\ (l2g \o B)[i].by = logicCrashes
      <3>1. Len(l2g) \in Nat
        BY <1>5, LenProperties
      <3>2. CASE i <= Len(l2g)
        BY <1>6, <3>1, <3>2
      <3>3. CASE ~(i <= Len(l2g))
        <4>1. i - Len(l2g) \in 1..b
          BY <1>2, <3>1, <3>3
        <4>2. QED
          BY <1>2, <1>6, <3>3, <4>1
      <3>4. QED
        BY <3>2, <3>3
    <2>2. \A i, j \in 1..(Len(l2g) + b) : i <= j /\ j \in 1..Len(l2g) => i \in 1..Len(l2g)
      BY <1>2, <1>5, LenProperties
    <2>3. \A i \in 1..Len(l2g) : l2g[i].by \in Nat /\ i <= Len(l2g)
      <3>1. \A i \in 1..Len(l2g) : l2g[i] \in Intent
        BY <1>5, ElementOfSeq
      <3>2. \A e \in Intent : e.by \in Nat
        BY DEF Intent
      <3>3. QED
        BY <1>5, <3>1, <3>2, LenProperties
    <2> DEFINE Q == l2g \o B
    <2>4. \A i \in 1..(Len(l2g) + b) :
             /\ Q[i].by <= logicCrashes
             /\ \A j \in 1..(Len(l2g) + b) : i <= j => Q[i].by <= Q[j].by
             /\ \A r \in net : r.by <= Q[i].by
      <3> HIDE DEF Q
      <3>1. \A i \in 1..(Len(l2g) + b) :
               \/ i \in 1..Len(l2g) /\ Q[i] = l2g[i]
               \/ i \notin 1..Len(l2g) /\ Q[i].by = logicCrashes
        BY <2>1, <2>3 DEF Q
      <3>2. \A i \in 1..(Len(l2g) + b) : Q[i].by <= logicCrashes
        BY <1>1, <3>1 DEF Ordered
      <3>3. \A i \in 1..(Len(l2g) + b) : \A r \in net : r.by <= Q[i].by
        BY <1>1, <3>1 DEF Ordered
      <3>4. ASSUME NEW i \in 1..(Len(l2g) + b), NEW j \in 1..(Len(l2g) + b), i <= j
            PROVE  Q[i].by <= Q[j].by
        <4>1. CASE j \in 1..Len(l2g)
          <5>1. i \in 1..Len(l2g) /\ Q[i] = l2g[i] /\ Q[j] = l2g[j]
            BY <2>2, <3>1, <3>4, <4>1
          <5>2. QED
            BY <1>1, <3>4, <4>1, <5>1 DEF Ordered
        <4>2. CASE j \notin 1..Len(l2g)
          BY <3>1, <3>2, <4>2
        <4>3. QED
          BY <4>1, <4>2
      <3>5. QED
        BY <3>2, <3>3, <3>4
    <2>5. QED
      BY <1>1, <1>3, <1>4, <1>6, <2>4 DEF Ordered
  <1>12. QED
    BY <1>1, <1>4, <1>7, <1>8, <1>9, <1>10, <1>11 DEF PathInv

LEMMA PathDrain ==
    ASSUME PathInv, LogicDrain
    PROVE  PathInv'
  <1>1. /\ TypeOK /\ logicCrashes \in Nat
        /\ Clocks(now, lastProbe, lastReap, inflight, net) /\ Reaped(now, lastReap, inflight)
        /\ logicCrashes = 0 => Accounted(sent, recv, l2g, inflight, g2l)
        /\ Ordered(l2g, net, g2l, logicCrashes)
    BY DEF PathInv
  <1>2. /\ UNCHANGED <<now, seq, ttl, lastProbe, sent, l2g, inflight, lastReap, net, logicCrashes>>
        /\ g2l' = <<>>
        /\ recv' = [t \in TTL |-> recv[t] + Count(g2l, t)]
    BY DEF LogicDrain, gkVars, counters, Count
  <1>3. \A t \in TTL : recv[t] \in Nat /\ Count(g2l, t) \in Nat /\ recv'[t] = recv[t] + Count(g2l, t)
    BY <1>1, <1>2, CountType, LenProperties DEF TypeOK
  <1>4. TypeOK'
    <2>1. recv' \in [TTL -> Nat]
      BY <1>2, <1>3
    <2>2. g2l' \in Seq([ttl : TTL, rtt : Nat, realTtl : TTL, realRtt : Nat, by : Nat])
      BY <1>2
    <2>3. QED
      BY <1>1, <1>2, <2>1, <2>2 DEF TypeOK
  <1>5. (logicCrashes = 0 => Accounted(sent, recv, l2g, inflight, g2l))'
    <2> SUFFICES ASSUME logicCrashes = 0, NEW t \in TTL
                 PROVE  recv'[t] + Count(g2l', t) + Active(inflight, t) + Count(l2g, t) <= sent[t]
      BY <1>2 DEF Accounted
    <2>1. Count(<<>>, t) = 0
      <3>1. {i \in 1..Len(<<>>) : <<>>[i].ttl = t} = {}
        OBVIOUS
      <3>2. QED
        BY <3>1, FS_EmptySet DEF Count
    <2>2. recv[t] + Count(g2l, t) + Active(inflight, t) + Count(l2g, t) <= sent[t]
      BY <1>1 DEF Accounted
    <2>3. QED
      BY <1>2, <1>3, <2>1, <2>2
  <1>6. Ordered(l2g, net, g2l, logicCrashes)'
    BY <1>1, <1>2 DEF Ordered
  <1>7. Clocks(now, lastProbe, lastReap, inflight, net)' /\ Reaped(now, lastReap, inflight)'
    BY <1>1, <1>2
  <1>8. QED
    BY <1>1, <1>2, <1>4, <1>5, <1>6, <1>7 DEF PathInv

LEMMA PathLogicCrash ==
    ASSUME PathInv, LogicCrash
    PROVE  PathInv'
  <1>1. /\ TypeOK /\ logicCrashes \in Nat
        /\ Clocks(now, lastProbe, lastReap, inflight, net) /\ Reaped(now, lastReap, inflight)
        /\ Ordered(l2g, net, g2l, logicCrashes)
    BY DEF PathInv
  <1>2. /\ UNCHANGED <<now, l2g, g2l, inflight, lastReap, net>>
        /\ logicCrashes' = logicCrashes + 1
        /\ seq' = 0 /\ ttl' = 1 /\ lastProbe' = 0
        /\ sent' = [t \in TTL |-> 0] /\ recv' = [t \in TTL |-> 0]
    BY DEF LogicCrash, gkVars
  <1>3. TypeOK'
    <2>1. 0 \in Seqs /\ 1 \in TTL
      BY ProbeAssumption DEF Seqs, TTL
    <2>2. QED
      BY <1>1, <1>2, <2>1 DEF TypeOK
  <1>4. Ordered(l2g, net, g2l, logicCrashes)'
    <2>1. l2g \in Seq(Intent) /\ g2l \in Seq(Observation)
      BY <1>1 DEF TypeOK, Intent, Observation
    <2>2. /\ \A e \in Intent : e.by \in Nat
          /\ \A e \in Observation : e.by \in Nat
      BY DEF Intent, Observation
    <2>3. /\ \A i \in 1..Len(l2g) : l2g[i].by \in Nat
          /\ \A i \in 1..Len(g2l) : g2l[i].by \in Nat
      BY <2>1, <2>2, ElementOfSeq
    <2>4. QED
      BY <1>1, <1>2, <2>3 DEF Ordered
  <1>5. Clocks(now, lastProbe, lastReap, inflight, net)' /\ Reaped(now, lastReap, inflight)'
    BY <1>1, <1>2 DEF Clocks, TypeOK
  <1>6. QED
    BY <1>1, <1>2, <1>3, <1>4, <1>5 DEF PathInv

LEMMA PathGkCrash ==
    ASSUME PathInv, GkCrash
    PROVE  PathInv'
  <1>1. /\ TypeOK /\ logicCrashes \in Nat
        /\ Clocks(now, lastProbe, lastReap, inflight, net)
        /\ logicCrashes = 0 => Accounted(sent, recv, l2g, inflight, g2l)
        /\ Ordered(l2g, net, g2l, logicCrashes)
    BY DEF PathInv
  <1>2. /\ UNCHANGED <<now, seq, ttl, lastProbe, sent, recv, l2g, g2l, net, logicCrashes>>
        /\ lastReap' = 0 /\ inflight' = [i \in 0..(Slots - 1) |-> Inactive]
    BY DEF GkCrash, logicVars
  <1>3. \A i \in 0..(Slots - 1) : inflight'[i].active = FALSE /\ inflight'[i].at = 0
    BY <1>2 DEF Inactive
  <1>4. TypeOK'
    <2>1. Inactive \in Entry
      BY ProbeAssumption DEF Inactive, Entry, Seqs
    <2>2. inflight' \in [0..(Slots - 1) -> Entry]
      BY <1>2, <2>1
    <2>3. QED
      BY <1>1, <1>2, <2>2 DEF TypeOK
  <1>5. Clocks(now, lastProbe, lastReap, inflight, net)' /\ Reaped(now, lastReap, inflight)'
    BY <1>1, <1>2, <1>3 DEF Clocks, Reaped, TypeOK
  <1>6. (logicCrashes = 0 => Accounted(sent, recv, l2g, inflight, g2l))'
    <2> SUFFICES ASSUME logicCrashes = 0, NEW t \in TTL
                 PROVE  recv[t] + Count(g2l, t) + Active(inflight', t) + Count(l2g, t) <= sent[t]
      BY <1>2 DEF Accounted
    <2>1. Active(inflight', t) = 0
      <3>1. {i \in 0..(Slots - 1) : inflight'[i].active /\ inflight'[i].ttl = t} = {}
        BY <1>3
      <3>2. QED
        BY <3>1, FS_EmptySet DEF Active
    <2>2. recv[t] + Count(g2l, t) + Active(inflight, t) + Count(l2g, t) <= sent[t]
      BY <1>1 DEF Accounted
    <2>3. /\ Count(l2g, t) \in Nat /\ Count(g2l, t) \in Nat /\ Active(inflight, t) \in Nat
          /\ recv[t] \in Nat /\ sent[t] \in Nat
      BY <1>1, CountType, ActiveType, LenProperties DEF TypeOK
    <2>4. QED
      BY <2>1, <2>2, <2>3
  <1>7. Ordered(l2g, net, g2l, logicCrashes)'
    BY <1>1, <1>2
  <1>8. QED
    BY <1>1, <1>2, <1>4, <1>5, <1>6, <1>7 DEF PathInv

LEMMA PathTick ==
    ASSUME PathInv, Tick
    PROVE  PathInv'
  <1>1. /\ TypeOK /\ logicCrashes \in Nat
        /\ Clocks(now, lastProbe, lastReap, inflight, net) /\ Reaped(now, lastReap, inflight)
        /\ logicCrashes = 0 => Accounted(sent, recv, l2g, inflight, g2l)
        /\ Ordered(l2g, net, g2l, logicCrashes)
    BY DEF PathInv
  <1>2. /\ UNCHANGED <<seq, ttl, lastProbe, sent, recv, l2g, g2l, inflight, lastReap, logicCrashes>>
        /\ now' = now + 1 /\ net' = {r \in net : now + 1 - r.at <= MaxDelay}
        /\ ~(now - lastReap >= ReapEvery)
    BY DEF Tick, ReapDue, logicVars, gkVars, counters
  <1>3. TypeOK'
    BY <1>1, <1>2 DEF TypeOK
  <1>4. \A i \in 0..(Slots - 1) : inflight[i].at \in Nat
    BY <1>1 DEF TypeOK, Entry
  <1>5. Clocks(now, lastProbe, lastReap, inflight, net)'
    BY <1>1, <1>2, <1>4 DEF Clocks, TypeOK
  <1>6. Reaped(now, lastReap, inflight)'
    <2>1. now' - lastReap' <= ReapEvery
      <3>1. now \in Nat /\ lastReap \in Nat /\ ReapEvery \in Nat
        BY <1>1, ProbeAssumption DEF Clocks, TypeOK
      <3>2. QED
        BY <1>2, <3>1
    <2>2. QED
      BY <1>1, <1>2, <2>1 DEF Reaped
  <1>7. Ordered(l2g, net, g2l, logicCrashes)'
    BY <1>1, <1>2 DEF Ordered
  <1>8. (logicCrashes = 0 => Accounted(sent, recv, l2g, inflight, g2l))'
    BY <1>1, <1>2
  <1>9. QED
    BY <1>1, <1>2, <1>3, <1>5, <1>6, <1>7, <1>8 DEF PathInv

(* What a matched answer leads to.                                         *)
Report(e, r) ==
    [ttl |-> e.ttl, rtt |-> now - e.at, realTtl |-> r.ttl, realRtt |-> now - r.at, by |-> r.by]

LEMMA RecvResult ==
    ASSUME PathInv, NEW r \in net, NEW copyLeft \in BOOLEAN, GkRecv(r, copyLeft)
    PROVE  /\ r.seq \in Seqs /\ Slot(r.seq) \in 0..(Slots - 1)
           /\ UNCHANGED <<now, seq, ttl, lastProbe, sent, recv, l2g, gkId, lastReap, logicCrashes>>
           /\ net' \subseteq net
           /\ \/ UNCHANGED <<g2l, inflight>>
              \/ /\ r.id = gkId /\ Matches(inflight, r.seq)
                 /\ Report(inflight[Slot(r.seq)], r) \in Observation
                 /\ g2l' = Append(g2l, Report(inflight[Slot(r.seq)], r))
                 /\ inflight' \in Table /\ Weakened(inflight', inflight)
                 /\ ~inflight'[Slot(r.seq)].active
                 /\ \A i \in 0..(Slots - 1) : i # Slot(r.seq) => inflight'[i] = inflight[i]
  <1>1. /\ TypeOK /\ Clocks(now, lastProbe, lastReap, inflight, net)
        /\ Ordered(l2g, net, g2l, logicCrashes)
    BY DEF PathInv
  <1>2. r.seq \in Seqs /\ r.ttl \in TTL /\ r.at \in Nat /\ r.at <= now /\ r.by \in Nat /\ now \in Nat
    BY <1>1 DEF TypeOK, Clocks, Ordered
  <1> DEFINE k == Slot(r.seq)
             e == inflight[k]
  <1>3. k \in 0..(Slots - 1)
    BY <1>2, SlotType
  <1>4. /\ UNCHANGED <<now, seq, ttl, lastProbe, sent, recv, l2g, gkId, lastReap, logicCrashes>>
        /\ net' \subseteq net
    BY DEF GkRecv, logicVars, counters
  <1>5. CASE r.id = gkId /\ Matches(inflight, r.seq)
    <2>1. e \in Entry /\ e.active /\ e.ttl \in TTL /\ e.at \in Nat /\ e.at <= now
      BY <1>1, <1>3, <1>5 DEF TypeOK, Clocks, Matches, Entry
    <2>2. /\ g2l' = Append(g2l, Report(e, r))
          /\ inflight' = [inflight EXCEPT ![k] = [e EXCEPT !.active = FALSE]]
      BY <1>5 DEF GkRecv, Report
    <2>3. Report(e, r) \in Observation
      <3> HIDE DEF e
      <3>1. now - e.at \in Nat /\ now - r.at \in Nat
        BY <1>2, <2>1
      <3>2. QED
        BY <1>2, <2>1, <3>1 DEF Report, Observation
    <2> DEFINE c == [e EXCEPT !.active = FALSE]
    <2>4. c \in Entry /\ c.active = FALSE /\ c.seq = e.seq /\ c.ttl = e.ttl /\ c.at = e.at
      <3> HIDE DEF e
      <3>1. QED
        BY <2>1 DEF Entry
    <2>5. inflight \in Table
      BY <1>1 DEF TypeOK, Table
    <2> HIDE DEF c, k
    <2>6. /\ inflight' \in Table /\ inflight'[k] = c
          /\ \A i \in 0..(Slots - 1) : i # k => inflight'[i] = inflight[i]
      BY <1>3, <2>2, <2>4, <2>5 DEF Table, c
    <2>7. Weakened(inflight', inflight)
      BY <1>3, <2>1, <2>4, <2>6 DEF Weakened
    <2>8. QED
      BY <1>2, <1>3, <1>4, <1>5, <2>2, <2>3, <2>4, <2>6, <2>7 DEF k
  <1>6. CASE ~(r.id = gkId /\ Matches(inflight, r.seq))
    BY <1>2, <1>3, <1>4, <1>6 DEF GkRecv
  <1>7. QED
    BY <1>5, <1>6

(* Making entries inactive disturbs neither clocks nor reaping.            *)
LEMMA WeakenedClocks ==
    ASSUME NEW a, NEW b, Weakened(a, b), NEW time, NEW probed, NEW reaped, NEW N, NEW M, M \subseteq N
    PROVE  /\ Clocks(time, probed, reaped, b, N) => Clocks(time, probed, reaped, a, M)
           /\ Reaped(time, reaped, b) => Reaped(time, reaped, a)
  <1>1. Clocks(time, probed, reaped, b, N) => Clocks(time, probed, reaped, a, M)
    BY DEF Weakened, Clocks
  <1>2. Reaped(time, reaped, b) => Reaped(time, reaped, a)
    BY DEF Weakened, Reaped
  <1>3. QED
    BY <1>1, <1>2

LEMMA PathRecv ==
    ASSUME PathInv, NEW r \in net, NEW copyLeft \in BOOLEAN, GkRecv(r, copyLeft)
    PROVE  PathInv'
  <1>1. /\ TypeOK /\ logicCrashes \in Nat
        /\ Clocks(now, lastProbe, lastReap, inflight, net) /\ Reaped(now, lastReap, inflight)
        /\ logicCrashes = 0 => Accounted(sent, recv, l2g, inflight, g2l)
        /\ Ordered(l2g, net, g2l, logicCrashes)
    BY DEF PathInv
  <1> DEFINE k == Slot(r.seq)
             obs == Report(inflight[k], r)
  <1>2. /\ k \in 0..(Slots - 1)
        /\ UNCHANGED <<now, seq, ttl, lastProbe, sent, recv, l2g, lastReap, logicCrashes>>
        /\ net' \subseteq net
    BY RecvResult
  <1>3. CASE UNCHANGED <<g2l, inflight>>
    <2>1. TypeOK'
      BY <1>1, <1>2, <1>3 DEF TypeOK
    <2>2. Clocks(now, lastProbe, lastReap, inflight, net)' /\ Ordered(l2g, net, g2l, logicCrashes)'
      BY <1>1, <1>2, <1>3 DEF Clocks, Ordered
    <2>3. Reaped(now, lastReap, inflight)' /\ (logicCrashes = 0 => Accounted(sent, recv, l2g, inflight, g2l))'
      BY <1>1, <1>2, <1>3
    <2>4. QED
      BY <1>1, <1>2, <2>1, <2>2, <2>3 DEF PathInv
  <1>4. CASE ~UNCHANGED <<g2l, inflight>>
    <2>1. /\ Matches(inflight, r.seq) /\ obs \in Observation /\ g2l' = Append(g2l, obs)
          /\ inflight' \in Table /\ Weakened(inflight', inflight)
          /\ ~inflight'[k].active
          /\ \A i \in 0..(Slots - 1) : i # k => inflight'[i] = inflight[i]
      BY <1>4, RecvResult
    <2>2. inflight[k].active /\ obs.ttl = inflight[k].ttl /\ obs.by = r.by
      BY <2>1 DEF Matches, Report
    <2> HIDE DEF obs, k
    <2>3. g2l \in Seq(Observation) /\ Len(g2l) \in Nat
      BY <1>1, LenProperties DEF TypeOK, Observation
    <2>4. /\ g2l' \in Seq(Observation) /\ Len(g2l') = Len(g2l) + 1
          /\ \A i \in 1..Len(g2l) : g2l'[i] = g2l[i]
          /\ g2l'[Len(g2l) + 1] = obs
      BY <2>1, <2>3, AppendProperties
    <2>5. TypeOK'
      BY <1>1, <1>2, <2>1, <2>4 DEF TypeOK, Table, Observation
    <2>6. Clocks(now, lastProbe, lastReap, inflight, net)' /\ Reaped(now, lastReap, inflight)'
      BY <1>1, <1>2, <2>1, WeakenedClocks
    <2>7. Ordered(l2g, net, g2l, logicCrashes)'
      <3>1. r.by <= logicCrashes
        BY <1>1 DEF Ordered
      <3>2. \A i \in 1..Len(g2l') : i \in 1..Len(g2l) \/ i = Len(g2l) + 1
        BY <2>3, <2>4
      <3>3. \A i \in 1..Len(g2l') : g2l'[i].by <= logicCrashes
        BY <1>1, <2>2, <2>4, <3>1, <3>2 DEF Ordered
      <3>4. QED
        BY <1>1, <1>2, <3>3 DEF Ordered
    <2>8. (logicCrashes = 0 => Accounted(sent, recv, l2g, inflight, g2l))'
      <3> SUFFICES ASSUME logicCrashes = 0, NEW t \in TTL
                   PROVE  recv[t] + Count(g2l', t) + Active(inflight', t) + Count(l2g, t) <= sent[t]
        BY <1>2 DEF Accounted
      <3> DEFINE d == IF inflight[k].ttl = t THEN 1 ELSE 0
      <3>1. Count(g2l', t) = Count(g2l, t) + d
        BY <2>1, <2>2, <2>3, CountAppend
      <3>2. Active(inflight', t) + d <= Active(inflight, t)
        BY <1>2, <2>1, <2>2, ActiveCleared
      <3>3. recv[t] + Count(g2l, t) + Active(inflight, t) + Count(l2g, t) <= sent[t]
        BY <1>1 DEF Accounted
      <3>4. /\ Count(l2g, t) \in Nat /\ Count(g2l, t) \in Nat /\ Active(inflight, t) \in Nat
            /\ Active(inflight', t) \in Nat /\ recv[t] \in Nat /\ sent[t] \in Nat /\ d \in Nat
        BY <1>1, CountType, ActiveType, LenProperties DEF TypeOK
      <3> HIDE DEF d
      <3>5. QED
        BY <3>1, <3>2, <3>3, <3>4
    <2>9. QED
      BY <1>1, <1>2, <2>5, <2>6, <2>7, <2>8 DEF PathInv
  <1>5. QED
    BY <1>3, <1>4

(* The queue, the table and the network after a pass of the gatekeeper.    *)
LEMMA LoopResult ==
    ASSUME PathInv, NEW popped \in 0..Len(l2g), NEW taken \in 0..popped, NEW answered \in SUBSET (1..taken),
           GkLoop(popped, taken, answered)
    PROVE  /\ popped \in Nat /\ taken \in Nat /\ taken <= popped /\ popped <= Len(l2g) /\ Len(l2g) \in Nat
           /\ UNCHANGED <<now, seq, ttl, lastProbe, sent, recv, g2l, gkId, logicCrashes>>
           /\ l2g' \in Seq(Intent) /\ Len(l2g') = Len(l2g) - popped
           /\ \A i \in 1..Len(l2g') : l2g'[i] = l2g[popped + i]
           /\ lastReap' = IF ReapDue THEN now ELSE lastReap
           /\ \A i \in 1..Len(l2g) : l2g[i] \in Intent
           /\ \A r \in net' :
                 \/ r \in net
                 \/ \E i \in 1..taken : r = [id |-> gkId, seq |-> l2g[i].seq, ttl |-> l2g[i].ttl,
                                            at |-> now, by |-> l2g[i].by]
           /\ inflight' \in Table
           /\ \A t : Active(inflight', t) + Count(l2g', t) <= Active(inflight, t) + Count(l2g, t)
           /\ \A i \in 0..(Slots - 1) :
                 \/ /\ inflight'[i].seq = inflight[i].seq /\ inflight'[i].ttl = inflight[i].ttl
                    /\ inflight'[i].at = inflight[i].at
                    /\ inflight'[i].active => inflight[i].active /\ (ReapDue => ~(now - inflight[i].at > ReapAge))
                    /\ \A j \in 1..popped : Slot(l2g[j].seq) # i
                 \/ \E j \in 1..popped :
                       /\ Slot(l2g[j].seq) = i /\ \A k \in 1..popped : Slot(l2g[k].seq) = i => k <= j
                       /\ inflight'[i].seq = l2g[j].seq /\ inflight'[i].ttl = l2g[j].ttl /\ inflight'[i].at = now
  <1> DEFINE intents == SubSeq(l2g, 1, popped)
             rest == SubSeq(l2g, popped + 1, Len(l2g))
             R == reap_stale_inflight(inflight)
             T == TrackAll(R, intents)
  <1>1. TypeOK /\ now \in Nat /\ l2g \in Seq(Intent) /\ inflight \in Table
    BY DEF PathInv, TypeOK, Intent, Table
  <1>2. /\ popped \in Nat /\ taken \in Nat /\ taken <= popped /\ popped <= Len(l2g) /\ Len(l2g) \in Nat
        /\ \A i \in 1..Len(l2g) : l2g[i] \in Intent
    BY <1>1, LenProperties, ElementOfSeq
  <1>3. /\ UNCHANGED <<now, seq, ttl, lastProbe, sent, recv, g2l, gkId, logicCrashes>>
        /\ lastReap' = IF ReapDue THEN now ELSE lastReap
        /\ l2g' = rest
        /\ inflight' = DropFrom(T, intents, taken + 1)
        /\ net' = net \cup {[id |-> gkId, seq |-> intents[i].seq, ttl |-> intents[i].ttl,
                             at |-> now, by |-> intents[i].by] : i \in answered}
    BY DEF GkLoop, logicVars, counters
  <1>4. /\ intents \in Seq(Intent) /\ Len(intents) = popped
        /\ \A i \in 1..popped : intents[i] = l2g[i]
    <2>1. \A i \in 1..popped : l2g[i] \in Intent
      BY <1>2
    <2>2. /\ intents \in Seq(Intent) /\ Len(intents) = IF 1 <= popped THEN popped - 1 + 1 ELSE 0
          /\ \A i \in 1..(popped - 1 + 1) : intents[i] = l2g[1 + i - 1]
      BY <1>2, <2>1, SubSeqProperties
    <2> HIDE DEF intents
    <2>3. \A i \in 1..popped : i \in 1..(popped - 1 + 1) /\ 1 + i - 1 = i
      BY <1>2
    <2>4. QED
      BY <1>2, <2>2, <2>3
  <1>5. /\ rest \in Seq(Intent) /\ Len(rest) = Len(l2g) - popped
        /\ \A i \in 1..Len(rest) : rest[i] = l2g[popped + i]
    <2>1. \A i \in (popped + 1)..Len(l2g) : l2g[i] \in Intent
      BY <1>2
    <2>2. /\ rest \in Seq(Intent)
          /\ Len(rest) = IF popped + 1 <= Len(l2g) THEN Len(l2g) - (popped + 1) + 1 ELSE 0
          /\ \A i \in 1..(Len(l2g) - (popped + 1) + 1) : rest[i] = l2g[popped + 1 + i - 1]
      BY <1>2, <2>1, SubSeqProperties
    <2> HIDE DEF rest
    <2>3. Len(rest) = Len(l2g) - popped
      BY <1>2, <2>2
    <2>4. \A i \in 1..Len(rest) : i \in 1..(Len(l2g) - (popped + 1) + 1) /\ popped + 1 + i - 1 = popped + i
      BY <1>2, <2>3
    <2>5. QED
      BY <2>2, <2>3, <2>4
  <1>6. \A t : Count(l2g, t) = Count(intents, t) + Count(rest, t)
    BY <1>1, CountCut
  <1> HIDE DEF intents, rest
  <1>7. /\ R \in Table /\ Weakened(R, inflight)
        /\ ReapDue => \A i \in 0..(Slots - 1) : R[i].active => ~(now - inflight[i].at > ReapAge)
    BY <1>1, ReapResult
  <1> HIDE DEF R
  <1>8. /\ T \in Table
        /\ \A i \in 0..(Slots - 1) :
              \/ T[i] = R[i] /\ \A j \in 1..popped : Slot(intents[j].seq) # i
              \/ \E j \in 1..popped : LastFor(intents, i, j) /\ T[i] = Tracked(intents[j], now)
        /\ \A t : Active(T, t) <= Active(R, t) + Count(intents, t)
    BY <1>1, <1>4, <1>7, TrackAllResult
  <1> HIDE DEF T
  <1>9. inflight' \in Table /\ Weakened(inflight', T)
    <2>1. taken + 1 \in Nat \ {0}
      BY <1>2
    <2>2. QED
      BY <1>3, <1>4, <1>8, <2>1, DropFromResult
  <1>10. \A r \in net' :
            \/ r \in net
            \/ \E i \in 1..taken : r = [id |-> gkId, seq |-> l2g[i].seq, ttl |-> l2g[i].ttl,
                                       at |-> now, by |-> l2g[i].by]
    <2>1. \A i \in answered : i \in 1..taken /\ intents[i] = l2g[i]
      BY <1>2, <1>4
    <2>2. QED
      BY <1>3, <2>1
  <1>11. ASSUME NEW t PROVE Active(inflight', t) + Count(l2g', t) <= Active(inflight, t) + Count(l2g, t)
    <2>1. Active(inflight', t) <= Active(T, t) /\ Active(R, t) <= Active(inflight, t)
      BY <1>7, <1>9, ActiveWeakened
    <2>2. Active(T, t) <= Active(R, t) + Count(intents, t)
      BY <1>8
    <2>3. /\ Active(inflight', t) \in Nat /\ Active(T, t) \in Nat /\ Active(R, t) \in Nat
          /\ Active(inflight, t) \in Nat
      BY ActiveType
    <2>4. Count(intents, t) \in Nat /\ Count(rest, t) \in Nat
      <3>1. Len(intents) \in Nat /\ Len(rest) \in Nat
        BY <1>4, <1>5, LenProperties
      <3>2. QED
        BY <3>1, CountType
    <2>5. Count(l2g', t) = Count(rest, t) /\ Count(l2g, t) = Count(intents, t) + Count(rest, t)
      BY <1>3, <1>6
    <2>6. QED
      BY <2>1, <2>2, <2>3, <2>4, <2>5
  <1>12. ASSUME NEW i \in 0..(Slots - 1)
         PROVE  \/ /\ inflight'[i].seq = inflight[i].seq /\ inflight'[i].ttl = inflight[i].ttl
                   /\ inflight'[i].at = inflight[i].at
                   /\ inflight'[i].active => inflight[i].active /\ (ReapDue => ~(now - inflight[i].at > ReapAge))
                   /\ \A j \in 1..popped : Slot(l2g[j].seq) # i
                \/ \E j \in 1..popped :
                      /\ Slot(l2g[j].seq) = i /\ \A k \in 1..popped : Slot(l2g[k].seq) = i => k <= j
                      /\ inflight'[i].seq = l2g[j].seq /\ inflight'[i].ttl = l2g[j].ttl /\ inflight'[i].at = now
    <2>1. /\ inflight'[i].seq = T[i].seq /\ inflight'[i].ttl = T[i].ttl /\ inflight'[i].at = T[i].at
          /\ inflight'[i].active => T[i].active
      BY <1>9 DEF Weakened
    <2>2. CASE T[i] = R[i] /\ \A j \in 1..popped : Slot(intents[j].seq) # i
      <3>1. /\ R[i].seq = inflight[i].seq /\ R[i].ttl = inflight[i].ttl /\ R[i].at = inflight[i].at
            /\ R[i].active => inflight[i].active /\ (ReapDue => ~(now - inflight[i].at > ReapAge))
        BY <1>7 DEF Weakened
      <3>2. \A j \in 1..popped : Slot(l2g[j].seq) # i
        BY <1>4, <2>2
      <3>3. QED
        BY <2>1, <2>2, <3>1, <3>2
    <2>3. CASE \E j \in 1..popped : LastFor(intents, i, j) /\ T[i] = Tracked(intents[j], now)
      <3>1. PICK j \in 1..popped : LastFor(intents, i, j) /\ T[i] = Tracked(intents[j], now)
        BY <2>3
      <3>2. Slot(l2g[j].seq) = i /\ \A k \in 1..popped : Slot(l2g[k].seq) = i => k <= j
        BY <1>4, <3>1 DEF LastFor
      <3>3. T[i].seq = l2g[j].seq /\ T[i].ttl = l2g[j].ttl /\ T[i].at = now
        BY <1>4, <3>1 DEF Tracked
      <3>4. QED
        BY <2>1, <3>2, <3>3
    <2>4. QED
      BY <1>8, <2>2, <2>3
  <1>13. QED
    BY <1>2, <1>3, <1>5, <1>9, <1>10, <1>11, <1>12

LEMMA PathLoop ==
    ASSUME PathInv, NEW popped \in 0..Len(l2g), NEW taken \in 0..popped, NEW answered \in SUBSET (1..taken),
           GkLoop(popped, taken, answered)
    PROVE  PathInv'
  <1>1. /\ TypeOK /\ logicCrashes \in Nat
        /\ Clocks(now, lastProbe, lastReap, inflight, net) /\ Reaped(now, lastReap, inflight)
        /\ logicCrashes = 0 => Accounted(sent, recv, l2g, inflight, g2l)
        /\ Ordered(l2g, net, g2l, logicCrashes)
    BY DEF PathInv
  <1>2. /\ popped \in Nat /\ taken \in Nat /\ taken <= popped /\ popped <= Len(l2g) /\ Len(l2g) \in Nat
        /\ UNCHANGED <<now, seq, ttl, lastProbe, sent, recv, g2l, gkId, logicCrashes>>
        /\ l2g' \in Seq(Intent) /\ Len(l2g') = Len(l2g) - popped
        /\ \A i \in 1..Len(l2g') : l2g'[i] = l2g[popped + i]
        /\ lastReap' = IF ReapDue THEN now ELSE lastReap
        /\ inflight' \in Table
    BY LoopResult
  <1>3. now \in Nat /\ lastReap \in Nat /\ lastReap <= now /\ inflight \in Table /\ lastReap' \in Nat
        /\ {ReapAge, ReapEvery, MaxDelay} \subseteq Nat
    BY <1>1, <1>2, ProbeAssumption DEF TypeOK, Clocks, Table
  <1>4. \A i \in 1..Len(l2g) : l2g[i] \in Intent
    BY LoopResult
  <1>5. ASSUME NEW r \in net'
        PROVE  \/ r \in net
               \/ \E i \in 1..taken :
                     /\ i \in 1..Len(l2g) /\ i <= popped
                     /\ r.id = gkId /\ r.seq = l2g[i].seq /\ r.ttl = l2g[i].ttl
                     /\ r.at = now /\ r.by = l2g[i].by
    <2>1. CASE r \notin net
      <3>1. PICK i \in 1..taken : r = [id |-> gkId, seq |-> l2g[i].seq, ttl |-> l2g[i].ttl,
                                       at |-> now, by |-> l2g[i].by]
        BY <2>1, LoopResult
      <3>2. i \in 1..Len(l2g) /\ i <= popped
        BY <1>2
      <3>3. QED
        BY <3>1, <3>2
    <2>2. QED
      BY <2>1
  <1>6. TypeOK'
    <2>1. \A r \in net' : r.seq \in Seqs /\ r.ttl \in TTL
      BY <1>1, <1>4, <1>5 DEF TypeOK, Intent
    <2>2. QED
      BY <1>1, <1>2, <2>1 DEF TypeOK, Intent, Table
  <1>7. \A i \in 0..(Slots - 1) :
           \/ /\ inflight'[i].ttl = inflight[i].ttl /\ inflight'[i].at = inflight[i].at
              /\ inflight'[i].active => inflight[i].active /\ (ReapDue => ~(now - inflight[i].at > ReapAge))
           \/ \E j \in 1..Len(l2g) : inflight'[i].ttl = l2g[j].ttl /\ inflight'[i].at = now
    <2>1. \A j \in 1..popped : j \in 1..Len(l2g)
      BY <1>2
    <2>2. QED
      BY <2>1, LoopResult
  <1>8. Clocks(now, lastProbe, lastReap, inflight, net)'
    <2>1. lastProbe' <= now' /\ lastReap' <= now'
      BY <1>1, <1>2, <1>3 DEF Clocks
    <2>2. ASSUME NEW i \in 0..(Slots - 1)
          PROVE  inflight'[i].at <= now /\ (inflight'[i].active => inflight'[i].ttl \in TTL)
      <3>1. \A j \in 1..Len(l2g) : l2g[j].ttl \in TTL
        BY <1>4 DEF Intent
      <3>2. QED
        BY <1>1, <1>3, <1>7, <3>1 DEF Clocks
    <2>3. ASSUME NEW r \in net' PROVE r.at \in Nat /\ r.at <= now /\ now - r.at <= MaxDelay
      BY <1>1, <1>3, <1>5 DEF Clocks
    <2>4. QED
      BY <1>2, <1>3, <2>1, <2>2, <2>3 DEF Clocks
  <1>9. Reaped(now, lastReap, inflight)'
    <2>1. now - lastReap' <= ReapEvery
      BY <1>2, <1>3 DEF ReapDue
    <2>2. ASSUME NEW i \in 0..(Slots - 1), inflight'[i].active, inflight'[i].at <= lastReap'
          PROVE  lastReap' - inflight'[i].at <= ReapAge
      <3>1. inflight[i].at \in Nat /\ inflight'[i].at \in Nat
        BY <1>2, <1>3 DEF Table, Entry
      <3>2. CASE inflight'[i].at = now
        BY <1>2, <1>3, <2>2, <3>2
      <3>3. CASE inflight'[i].at # now
        <4>1. inflight'[i].at = inflight[i].at /\ inflight[i].active /\ (ReapDue => ~(now - inflight[i].at > ReapAge))
          BY <1>7, <2>2, <3>3
        <4>2. CASE ReapDue
          BY <1>2, <1>3, <3>1, <4>1, <4>2
        <4>3. CASE ~ReapDue
          BY <1>1, <1>2, <2>2, <4>1, <4>3 DEF Reaped
        <4>4. QED
          BY <4>2, <4>3
      <3>4. QED
        BY <3>2, <3>3
    <2>3. QED
      BY <1>2, <2>1, <2>2 DEF Reaped
  <1>10. (logicCrashes = 0 => Accounted(sent, recv, l2g, inflight, g2l))'
    <2> SUFFICES ASSUME logicCrashes = 0, NEW t \in TTL
                 PROVE  recv[t] + Count(g2l, t) + Active(inflight', t) + Count(l2g', t) <= sent[t]
      BY <1>2 DEF Accounted
    <2>1. Active(inflight', t) + Count(l2g', t) <= Active(inflight, t) + Count(l2g, t)
      BY LoopResult
    <2>2. recv[t] + Count(g2l, t) + Active(inflight, t) + Count(l2g, t) <= sent[t]
      BY <1>1 DEF Accounted
    <2>3. /\ Count(l2g, t) \in Nat /\ Count(l2g', t) \in Nat /\ Count(g2l, t) \in Nat
          /\ Active(inflight, t) \in Nat /\ Active(inflight', t) \in Nat
          /\ recv[t] \in Nat /\ sent[t] \in Nat
      BY <1>1, <1>2, CountType, ActiveType, LenProperties DEF TypeOK
    <2>4. \A a, b, c, d, e, f, g \in Nat : c + d <= e + f /\ a + b + e + f <= g => a + b + c + d <= g
      OBVIOUS
    <2>5. QED
      BY <2>1, <2>2, <2>3, <2>4
  <1>11. Ordered(l2g, net, g2l, logicCrashes)'
    <2>1. \A i \in 1..Len(l2g') : popped + i \in 1..Len(l2g) /\ i \in Nat
      BY <1>2
    <2>2. \A i \in 1..Len(l2g') : \A j \in 1..Len(l2g') : i <= j => popped + i <= popped + j
      BY <1>2, <2>1
    <2>3. \A i \in 1..Len(l2g') : \A j \in 1..taken : j <= popped + i /\ j \in 1..Len(l2g)
      BY <1>2, <2>1
    <2>4. ASSUME NEW r \in net' PROVE r.by \in Nat /\ r.by <= logicCrashes
      <3>1. CASE r \in net
        BY <1>1, <3>1 DEF Ordered
      <3>2. CASE r \notin net
        <4>1. PICK i \in 1..Len(l2g) : r.by = l2g[i].by
          BY <1>5, <3>2
        <4>2. l2g[i].by \in Nat
          BY <1>4 DEF Intent
        <4>3. l2g[i].by <= logicCrashes
          BY <1>1 DEF Ordered
        <4>4. QED
          BY <4>1, <4>2, <4>3
      <3>3. QED
        BY <3>1, <3>2
    <2>5. ASSUME NEW i \in 1..Len(l2g')
          PROVE  /\ l2g'[i].by <= logicCrashes
                 /\ \A j \in 1..Len(l2g') : i <= j => l2g'[i].by <= l2g'[j].by
                 /\ \A r \in net' : r.by <= l2g'[i].by
      <3>1. l2g'[i] = l2g[popped + i] /\ popped + i \in 1..Len(l2g)
        BY <1>2, <2>1
      <3>2. l2g'[i].by <= logicCrashes
        BY <1>1, <3>1 DEF Ordered
      <3>3. \A j \in 1..Len(l2g') : i <= j => l2g'[i].by <= l2g'[j].by
        BY <1>1, <1>2, <2>1, <2>2, <3>1 DEF Ordered
      <3>4. \A r \in net' : r.by <= l2g'[i].by
        <4>1. \A j \in 1..taken : l2g[j].by <= l2g[popped + i].by
          BY <1>1, <2>3, <3>1 DEF Ordered
        <4>2. QED
          BY <1>1, <1>5, <3>1, <4>1 DEF Ordered
      <3>5. QED
        BY <3>2, <3>3, <3>4
    <2>6. QED
      BY <1>1, <1>2, <2>4, <2>5 DEF Ordered
  <1>12. QED
    BY <1>1, <1>2, <1>6, <1>8, <1>9, <1>10, <1>11 DEF PathInv

LEMMA PathStep == PathInv /\ [Next]_vars => PathInv'
  <1> SUFFICES ASSUME PathInv, [Next]_vars PROVE PathInv'
    OBVIOUS
  <1>1. ASSUME NEW burst \in 1..MaxBurst, LogicBurst(burst) PROVE PathInv'
    BY <1>1, PathBurst
  <1>2. CASE LogicDrain
    BY <1>2, PathDrain
  <1>3. CASE LogicCrash
    BY <1>3, PathLogicCrash
  <1>4. ASSUME NEW popped \in 0..Len(l2g), NEW taken \in 0..popped, NEW answered \in SUBSET (1..taken),
               GkLoop(popped, taken, answered)
        PROVE  PathInv'
    BY <1>4, PathLoop
  <1>5. ASSUME NEW r \in net, NEW copyLeft \in BOOLEAN, GkRecv(r, copyLeft) PROVE PathInv'
    BY <1>5, PathRecv
  <1>6. CASE GkCrash
    BY <1>6, PathGkCrash
  <1>7. CASE Tick
    BY <1>7, PathTick
  <1>8. CASE UNCHANGED vars
    BY <1>8 DEF vars, logicVars, gkVars, counters, PathInv, TypeOK
  <1>9. QED
    BY <1>1, <1>2, <1>3, <1>4, <1>5, <1>6, <1>7, <1>8 DEF Next

LEMMA PathInvariance == Spec => []PathInv
  BY InitPath, PathStep, PTL DEF Spec

(* For every table size, age limit and reaping period, no entry of         *)
(* g_inflight stays active longer than the limit and one period: what the  *)
(* last reaping left was younger than the limit, and the loop reaps again  *)
(* before a further period has passed (reap_stale_inflight).               *)
THEOREM NothingStays == Spec => []NothingStale
  <1>1. PathInv => NothingStale
    <2> SUFFICES ASSUME PathInv, NEW i \in DOMAIN inflight, inflight[i].active
                 PROVE  now - inflight[i].at <= ReapAge + ReapEvery
      BY DEF NothingStale
    <2>1. /\ i \in 0..(Slots - 1) /\ inflight[i].at \in Nat /\ now \in Nat /\ lastReap \in Nat
          /\ lastReap <= now /\ inflight[i].at <= now
      BY DEF PathInv, TypeOK, Entry, Clocks
    <2>2. /\ inflight[i].at <= lastReap => lastReap - inflight[i].at <= ReapAge
          /\ now - lastReap <= ReapEvery
      BY <2>1 DEF PathInv, Reaped
    <2>3. QED
      BY <2>1, <2>2, ProbeAssumption
  <1>2. QED
    BY <1>1, PathInvariance, PTL

(* The tables keep their types, and as long as the logic engine has not    *)
(* been replaced no hop is credited with more answers than it was sent     *)
(* probes: a probe is waiting, in the table or reported, never twice,      *)
(* whatever the network doubles and however often the gatekeeper restarts. *)
THEOREM NoMoreThanSent == Spec => []RecvWithinSent
  <1>1. PathInv => RecvWithinSent
    <2> SUFFICES ASSUME PathInv PROVE RecvWithinSent
      OBVIOUS
    <2>1. TypeOK
      BY DEF PathInv
    <2>2. ASSUME logicCrashes = 0, NEW t \in TTL
          PROVE  recv[t] + Cardinality({i \in 1..Len(g2l) : g2l[i].ttl = t}) <= sent[t]
      <3>1. recv[t] + Count(g2l, t) + Active(inflight, t) + Count(l2g, t) <= sent[t]
        BY <2>2 DEF PathInv, Accounted
      <3>2. /\ Count(l2g, t) \in Nat /\ Count(g2l, t) \in Nat /\ Active(inflight, t) \in Nat
            /\ recv[t] \in Nat /\ sent[t] \in Nat
        BY <2>1, CountType, ActiveType, LenProperties DEF TypeOK
      <3>3. recv[t] + Count(g2l, t) <= sent[t]
        BY <3>1, <3>2
      <3>4. QED
        BY <3>3 DEF Count
    <2>3. QED
      BY <2>1, <2>2 DEF RecvWithinSent
  <1>2. QED
    BY <1>1, PathInvariance, PTL

-----------------------------------------------------------------------------
(* OwnInv: numbers that are not reused while an answer is under way.       *)

LEMMA BackDistinct ==
    ASSUME NEW s \in Seqs, NEW j \in Nat, NEW k \in Nat, j <= SeqSpace, k <= SeqSpace,
           j # 0, k # 0, Back(s, j) = Back(s, k)
    PROVE  j = k
  BY ProbeAssumption DEF Back, Seqs

LEMMA BurstFits ==
    ASSUME NoWrap
    PROVE  MaxBurst <= SeqSpace
  <1>1. 0 \in Nat /\ 0 * Interval <= MaxDelay /\ (0 + 1) * MaxBurst = MaxBurst
    BY ProbeAssumption
  <1>2. QED
    BY <1>1 DEF NoWrap

LEMMA Rounds ==
    ASSUME NEW n \in Nat, NEW x \in Nat
    PROVE  n * x \in Nat /\ (n + 1) * x = n * x + x
  OBVIOUS

LEMMA InitOwn == NoWrap /\ Init => OwnInv
  BY DEF Init, OwnInv, Waiting, Numbered, Matched, OwnAttribution

LEMMA OwnBurst ==
    ASSUME PathInv, OwnInv, NEW b \in 1..MaxBurst, LogicBurst(b)
    PROVE  OwnInv'
  <1> DEFINE B == Burst(b)
  <1>1. /\ TypeOK /\ logicCrashes \in Nat
        /\ Clocks(now, lastProbe, lastReap, inflight, net)
    BY DEF PathInv
  <1>2. /\ NoWrap /\ Waiting(l2g, seq, logicCrashes, now, lastProbe)
        /\ Numbered(net, Len(l2g), seq, logicCrashes, lastProbe)
        /\ Matched(net, inflight, gkId, logicCrashes) /\ OwnAttribution
    BY DEF OwnInv
  <1>3. /\ b \in Nat \ {0} /\ b <= MaxBurst /\ B \in Seq(Intent) /\ Len(B) = b
        /\ \A i \in 1..b : B[i] = IntentAt[i - 1] /\ B[i].by = logicCrashes
    BY <1>1, BurstResult
  <1>4. l2g \in Seq(Intent) /\ Len(l2g) \in Nat /\ now \in Nat /\ lastProbe \in Nat
    BY <1>1, LenProperties DEF TypeOK, Intent
  <1>5. /\ UNCHANGED <<now, g2l, inflight, gkId, net, logicCrashes>>
        /\ lastProbe' = now /\ seq' = IntentAt[b].seq /\ l2g' = l2g \o B
        /\ now - lastProbe >= Interval
    BY DEF LogicBurst, gkVars, Burst
  <1>6. {SeqSpace, MaxBurst, Interval} \subseteq Nat \ {0} /\ MaxDelay \in Nat
    BY ProbeAssumption
  <1>7. MaxBurst <= SeqSpace
    BY <1>2, BurstFits
  <1> HIDE DEF B
  <1>8. /\ Len(l2g') = Len(l2g) + b
        /\ \A i \in 1..(Len(l2g) + b) : l2g'[i] = IF i <= Len(l2g) THEN l2g[i] ELSE B[i - Len(l2g)]
    BY <1>3, <1>4, <1>5, ConcatProperties
  <1>9. Waiting(l2g, seq, logicCrashes, now, lastProbe)'
    <2> SUFFICES ASSUME NEW i \in 1..Len(l2g'), l2g'[i].by = logicCrashes
                 PROVE  /\ Len(l2g') - i + 1 <= MaxBurst
                        /\ l2g'[i].seq = Back(seq', Len(l2g') - i + 1)
      BY <1>5 DEF Waiting
    <2>1. ~(i <= Len(l2g))
      <3> SUFFICES ASSUME i <= Len(l2g) PROVE FALSE
        OBVIOUS
      <3>1. i \in 1..Len(l2g) /\ l2g[i].by = logicCrashes
        BY <1>3, <1>4, <1>8
      <3>2. lastProbe = now
        BY <1>2, <3>1 DEF Waiting
      <3>3. QED
        BY <1>4, <1>5, <1>6, <3>2
    <2>2. PICK j \in Nat, n \in Nat : /\ i - Len(l2g) = j + 1 /\ j + 1 \in 1..b /\ j + n = b
                                      /\ Len(l2g') - i + 1 = n /\ n <= MaxBurst /\ n <= SeqSpace
      <3>1. /\ i - Len(l2g) - 1 \in Nat /\ b - (i - Len(l2g) - 1) \in Nat
            /\ b - (i - Len(l2g) - 1) <= MaxBurst /\ b - (i - Len(l2g) - 1) <= SeqSpace
            /\ Len(l2g') - i + 1 = b - (i - Len(l2g) - 1)
            /\ i - Len(l2g) = (i - Len(l2g) - 1) + 1 /\ (i - Len(l2g) - 1) + 1 \in 1..b
            /\ (i - Len(l2g) - 1) + (b - (i - Len(l2g) - 1)) = b
        BY <1>3, <1>4, <1>6, <1>7, <1>8, <2>1
      <3>2. QED
        BY <3>1
    <2>3. l2g'[i] = IntentAt[j]
      <3>1. l2g'[i] = B[j + 1]
        BY <1>8, <2>1, <2>2
      <3>2. B[j + 1] = IntentAt[(j + 1) - 1] /\ (j + 1) - 1 = j
        BY <1>3, <2>2
      <3>3. QED
        BY <3>1, <3>2
    <2>4. Back(IntentAt[j + n].seq, 0 + n) = Back(IntentAt[j].seq, 0)
      <3>1. 0 \in Nat /\ 0 + n <= SeqSpace
        BY <2>2
      <3>2. QED
        BY <1>1, <3>1, BackIntent DEF TypeOK
    <2>5. Back(IntentAt[j].seq, 0) = IntentAt[j].seq
      <3>1. IntentAt[j].seq \in Seqs
        BY <1>1, IntentUnfolds DEF TypeOK, Intent
      <3>2. QED
        BY <3>1, <1>6 DEF Back, Seqs
    <2>6. 0 + n = n
      OBVIOUS
    <2>7. QED
      BY <1>5, <2>2, <2>3, <2>4, <2>5, <2>6
  <1>10. Numbered(net, Len(l2g), seq, logicCrashes, lastProbe)'
    <2> SUFFICES ASSUME NEW r \in net, r.by = logicCrashes
                 PROVE  /\ r.at <= now
                        /\ \E n, k \in Nat : /\ n * Interval <= now - r.at
                                             /\ Len(l2g') < k /\ k <= (n + 1) * MaxBurst
                                             /\ r.seq = Back(seq', k)
      BY <1>5 DEF Numbered
    <2>1. r.at \in Nat /\ r.at <= now /\ now - r.at <= MaxDelay /\ r.at <= lastProbe
      BY <1>1, <1>2 DEF Clocks, Numbered
    <2>2. PICK n \in Nat, k \in Nat : /\ n * Interval <= lastProbe - r.at
                                      /\ Len(l2g) < k /\ k <= (n + 1) * MaxBurst
                                      /\ r.seq = Back(seq, k)
      BY <1>2 DEF Numbered
    <2>3. /\ n + 1 \in Nat /\ n * Interval \in Nat /\ (n + 1) * Interval = n * Interval + Interval
          /\ (n + 1) * MaxBurst \in Nat /\ ((n + 1) + 1) * MaxBurst = (n + 1) * MaxBurst + MaxBurst
      BY <1>6, Rounds
    <2> DEFINE p == n * Interval
               p1 == (n + 1) * Interval
               q == (n + 1) * MaxBurst
               q1 == ((n + 1) + 1) * MaxBurst
    <2> HIDE DEF p, p1, q, q1
    <2>4. /\ p \in Nat /\ p1 = p + Interval /\ q \in Nat /\ q1 = q + MaxBurst
          /\ p <= lastProbe - r.at /\ k <= q
      BY <2>2, <2>3 DEF p, p1, q, q1
    <2>5. p1 <= now - r.at /\ p1 <= MaxDelay
      <3>1. Interval \in Nat /\ MaxDelay \in Nat
        BY <1>6
      <3>2. Interval <= now - lastProbe
        BY <1>4, <1>5, <3>1
      <3>3. p1 <= now - r.at
        BY <1>4, <2>1, <2>4, <3>1, <3>2
      <3>4. QED
        BY <1>4, <2>1, <2>4, <3>1, <3>3
    <2>6. (n + 1) * Interval <= now - r.at
      BY <2>5 DEF p1
    <2>7. (n + 1) * Interval <= MaxDelay
      BY <2>5 DEF p1
    <2>8. ((n + 1) + 1) * MaxBurst <= SeqSpace
      BY <1>2, <2>3, <2>7 DEF NoWrap
    <2>9. q1 <= SeqSpace
      BY <2>8 DEF q1
    <2>10. k + b \in Nat /\ k + b <= q1 /\ Len(l2g') < k + b /\ k + b <= SeqSpace
      <3>1. Len(l2g) < k
        BY <2>2
      <3>2. QED
        BY <1>3, <1>4, <1>6, <1>8, <2>4, <2>9, <3>1
    <2>11. k + b \in Nat /\ k + b <= ((n + 1) + 1) * MaxBurst /\ Len(l2g') < k + b
      BY <2>10 DEF q1
    <2>12. k + b <= SeqSpace
      BY <2>10
    <2>13. Back(seq', k + b) = Back(seq, k)
      <3>1. 0 \in Nat /\ 0 + b = b
        BY <1>3
      <3>2. Back(IntentAt[0 + b].seq, k + b) = Back(IntentAt[0].seq, k)
        BY <1>1, <1>3, <2>12, <3>1, BackIntent DEF TypeOK
      <3>3. IntentAt[0].seq = seq
        BY <1>1, IntentUnfolds DEF TypeOK
      <3>4. QED
        BY <1>5, <3>1, <3>2, <3>3
    <2>14. QED
      BY <2>1, <2>2, <2>3, <2>6, <2>11, <2>13
  <1>11. Matched(net, inflight, gkId, logicCrashes)' /\ OwnAttribution'
    BY <1>2, <1>5 DEF OwnAttribution
  <1>12. QED
    BY <1>2, <1>9, <1>10, <1>11 DEF OwnInv

(* A waiting intent and an answer of the engine at work have different     *)
(* numbers, and so have two waiting intents.                               *)
LEMMA WaitingFresh ==
    ASSUME PathInv, OwnInv, NEW j \in 1..Len(l2g), l2g[j].by = logicCrashes
    PROVE  /\ \A r \in net : r.by = logicCrashes => r.seq # l2g[j].seq
           /\ \A i \in 1..Len(l2g) : l2g[i].by = logicCrashes /\ l2g[i].seq = l2g[j].seq => i = j
  <1>1. /\ TypeOK /\ logicCrashes \in Nat
        /\ Clocks(now, lastProbe, lastReap, inflight, net)
    BY DEF PathInv
  <1>2. /\ NoWrap /\ Waiting(l2g, seq, logicCrashes, now, lastProbe)
        /\ Numbered(net, Len(l2g), seq, logicCrashes, lastProbe)
    BY DEF OwnInv
  <1>3. Len(l2g) \in Nat /\ seq \in Seqs /\ now \in Nat /\ lastProbe \in Nat /\ lastProbe <= now
    BY <1>1, LenProperties DEF TypeOK, Clocks
  <1>4. SeqSpace \in Nat /\ MaxBurst \in Nat /\ MaxDelay \in Nat /\ Interval \in Nat /\ MaxBurst <= SeqSpace
    BY <1>2, BurstFits, ProbeAssumption
  <1>5. ASSUME NEW i \in 1..Len(l2g), l2g[i].by = logicCrashes
        PROVE  \E d \in Nat :
                  /\ d # 0 /\ d <= Len(l2g) /\ d <= SeqSpace /\ i = Len(l2g) + 1 - d
                  /\ l2g[i].seq = Back(seq, d)
    <2>1. Len(l2g) - i + 1 <= MaxBurst /\ l2g[i].seq = Back(seq, Len(l2g) - i + 1)
      BY <1>2, <1>5 DEF Waiting
    <2>2. /\ Len(l2g) - i + 1 \in Nat /\ Len(l2g) - i + 1 # 0 /\ Len(l2g) - i + 1 <= Len(l2g)
          /\ Len(l2g) - i + 1 <= SeqSpace /\ i = Len(l2g) + 1 - (Len(l2g) - i + 1)
      BY <1>3, <1>4, <2>1
    <2>3. QED
      BY <2>1, <2>2
  <1>6. PICK d \in Nat : /\ d # 0 /\ d <= Len(l2g) /\ d <= SeqSpace /\ j = Len(l2g) + 1 - d
                         /\ l2g[j].seq = Back(seq, d)
    BY <1>5
  <1>7. ASSUME NEW r \in net, r.by = logicCrashes, r.seq = l2g[j].seq PROVE FALSE
    <2>1. PICK n \in Nat, k \in Nat : /\ n * Interval <= lastProbe - r.at
                                      /\ Len(l2g) < k /\ k <= (n + 1) * MaxBurst
                                      /\ r.seq = Back(seq, k)
      BY <1>2, <1>7 DEF Numbered
    <2>2. r.at \in Nat /\ now - r.at <= MaxDelay
      BY <1>1 DEF Clocks
    <2> DEFINE p == n * Interval
               q == (n + 1) * MaxBurst
    <2>3. p \in Nat /\ q \in Nat
      <3>1. n + 1 \in Nat
        OBVIOUS
      <3>2. QED
        BY <1>4, <3>1, Rounds
    <2> HIDE DEF p, q
    <2>4. p <= lastProbe - r.at /\ k <= q
      BY <2>1 DEF p, q
    <2>5. p <= MaxDelay
      BY <1>3, <1>4, <2>2, <2>3, <2>4
    <2>6. q <= SeqSpace
      BY <1>2, <2>5 DEF NoWrap, p, q
    <2>7. k <= SeqSpace /\ k # 0 /\ k # d
      <3>1. Len(l2g) < k
        BY <2>1
      <3>2. QED
        BY <1>3, <1>4, <1>6, <2>3, <2>4, <2>6, <3>1
    <2>8. Back(seq, k) = Back(seq, d)
      BY <1>6, <1>7, <2>1
    <2>9. QED
      BY <1>3, <1>6, <2>7, <2>8, BackDistinct
  <1>8. ASSUME NEW i \in 1..Len(l2g), l2g[i].by = logicCrashes, l2g[i].seq = l2g[j].seq PROVE i = j
    <2>1. PICK c \in Nat : c # 0 /\ c <= SeqSpace /\ i = Len(l2g) + 1 - c /\ l2g[i].seq = Back(seq, c)
      BY <1>5, <1>8
    <2>2. Back(seq, c) = Back(seq, d)
      BY <1>6, <1>8, <2>1
    <2>3. c = d
      BY <1>3, <1>6, <2>1, <2>2, BackDistinct
    <2>4. QED
      BY <1>6, <2>1, <2>3
  <1>9. QED
    BY <1>7, <1>8

LEMMA OwnLoop ==
    ASSUME PathInv, OwnInv,
           NEW popped \in 0..Len(l2g), NEW taken \in 0..popped, NEW answered \in SUBSET (1..taken),
           GkLoop(popped, taken, answered)
    PROVE  OwnInv'
  <1>1. /\ TypeOK /\ logicCrashes \in Nat /\ Ordered(l2g, net, g2l, logicCrashes)
        /\ Clocks(now, lastProbe, lastReap, inflight, net)
    BY DEF PathInv
  <1>2. /\ NoWrap /\ Waiting(l2g, seq, logicCrashes, now, lastProbe)
        /\ Numbered(net, Len(l2g), seq, logicCrashes, lastProbe)
        /\ Matched(net, inflight, gkId, logicCrashes) /\ OwnAttribution
    BY DEF OwnInv
  <1>3. /\ popped \in Nat /\ taken \in Nat /\ taken <= popped /\ popped <= Len(l2g) /\ Len(l2g) \in Nat
        /\ UNCHANGED <<now, seq, ttl, lastProbe, sent, recv, g2l, gkId, logicCrashes>>
        /\ Len(l2g') = Len(l2g) - popped
        /\ \A i \in 1..Len(l2g') : l2g'[i] = l2g[popped + i]
    BY LoopResult
  <1>4. \A i \in 1..Len(l2g) : l2g[i].seq \in Seqs /\ l2g[i].by \in Nat
    <2>1. \A i \in 1..Len(l2g) : l2g[i] \in Intent
      BY LoopResult
    <2>2. QED
      BY <2>1 DEF Intent
  <1>5. ASSUME NEW r \in net', r \notin net
        PROVE  \E i \in 1..popped :
                  /\ i \in 1..Len(l2g)
                  /\ r.seq = l2g[i].seq /\ r.ttl = l2g[i].ttl
                  /\ r.at = now /\ r.by = l2g[i].by
    <2>1. PICK i \in 1..taken : r = [id |-> gkId, seq |-> l2g[i].seq, ttl |-> l2g[i].ttl,
                                     at |-> now, by |-> l2g[i].by]
      BY <1>5, LoopResult
    <2>2. i \in 1..popped /\ i \in 1..Len(l2g)
      BY <1>3
    <2>3. QED
      BY <2>1, <2>2
  <1>6. Waiting(l2g, seq, logicCrashes, now, lastProbe)'
    <2> SUFFICES ASSUME NEW i \in 1..Len(l2g'), l2g'[i].by = logicCrashes
                 PROVE  /\ lastProbe = now /\ Len(l2g') - i + 1 <= MaxBurst
                        /\ l2g'[i].seq = Back(seq, Len(l2g') - i + 1)
      BY <1>3 DEF Waiting
    <2>1. popped + i \in 1..Len(l2g) /\ Len(l2g) - (popped + i) + 1 = Len(l2g') - i + 1
      BY <1>3
    <2>2. l2g'[i] = l2g[popped + i]
      BY <1>3
    <2>3. QED
      BY <1>2, <2>1, <2>2 DEF Waiting
  <1>7. Numbered(net, Len(l2g), seq, logicCrashes, lastProbe)'
    <2> SUFFICES ASSUME NEW r \in net', r.by = logicCrashes
                 PROVE  /\ r.at <= lastProbe
                        /\ \E n, k \in Nat : /\ n * Interval <= lastProbe - r.at
                                             /\ Len(l2g') < k /\ k <= (n + 1) * MaxBurst
                                             /\ r.seq = Back(seq, k)
      BY <1>3 DEF Numbered
    <2>1. CASE r \in net
      <3>1. r.at <= lastProbe
        BY <1>2, <2>1 DEF Numbered
      <3>2. PICK n \in Nat, k \in Nat : /\ n * Interval <= lastProbe - r.at
                                        /\ Len(l2g) < k /\ k <= (n + 1) * MaxBurst
                                        /\ r.seq = Back(seq, k)
        BY <1>2, <2>1 DEF Numbered
      <3>3. Len(l2g') < k
        <4>1. Len(l2g) < k
          BY <3>2
        <4>2. QED
          BY <1>3, <4>1
      <3>4. QED
        BY <3>1, <3>2, <3>3
    <2>2. CASE r \notin net
      <3>1. PICK i \in 1..popped : i \in 1..Len(l2g) /\ r.seq = l2g[i].seq /\ r.at = now /\ r.by = l2g[i].by
        BY <1>5, <2>2
      <3>2. lastProbe = now /\ Len(l2g) - i + 1 <= MaxBurst /\ r.seq = Back(seq, Len(l2g) - i + 1)
        BY <1>2, <3>1 DEF Waiting
      <3>3. PICK k \in Nat : k = Len(l2g) - i + 1 /\ Len(l2g') < k
        BY <1>3, <3>1
      <3>4. 0 \in Nat /\ 0 * Interval <= lastProbe - r.at /\ r.at <= lastProbe /\ (0 + 1) * MaxBurst = MaxBurst
        <4>1. now \in Nat /\ Interval \in Nat /\ MaxBurst \in Nat
          BY <1>1, ProbeAssumption DEF TypeOK
        <4>2. 0 * Interval = 0 /\ (0 + 1) * MaxBurst = MaxBurst
          BY <4>1
        <4>3. now - now = 0
          BY <4>1
        <4>4. QED
          BY <3>1, <3>2, <4>1, <4>2, <4>3
      <3>5. k <= (0 + 1) * MaxBurst /\ r.seq = Back(seq, k)
        BY <3>2, <3>3, <3>4
      <3>6. QED
        BY <3>3, <3>4, <3>5
    <2>3. QED
      BY <2>1, <2>2
  <1>8. Matched(net, inflight, gkId, logicCrashes)'
    <2> SUFFICES ASSUME NEW r \in net', r.by = logicCrashes, r.id = gkId, Matches(inflight', r.seq)
                 PROVE  inflight'[Slot(r.seq)].ttl = r.ttl /\ inflight'[Slot(r.seq)].at = r.at
      BY <1>3 DEF Matched, Matches
    <2> DEFINE s == Slot(r.seq)
    <2>1. r.seq \in Seqs
      BY <1>1, <1>4, <1>5 DEF TypeOK
    <2>2. s \in 0..(Slots - 1)
      BY <2>1, SlotType
    <2>3. inflight'[s].active /\ inflight'[s].seq = r.seq
      BY DEF Matches
    <2>4. CASE \E j \in 1..popped :
                  /\ s = Slot(l2g[j].seq) /\ \A k \in 1..popped : Slot(l2g[k].seq) = s => k <= j
                  /\ inflight'[s].seq = l2g[j].seq /\ inflight'[s].ttl = l2g[j].ttl /\ inflight'[s].at = now
      <3>1. PICK j \in 1..popped :
                  /\ \A k \in 1..popped : Slot(l2g[k].seq) = s => k <= j
                  /\ inflight'[s].seq = l2g[j].seq /\ inflight'[s].ttl = l2g[j].ttl /\ inflight'[s].at = now
        BY <2>4
      <3>2. j \in 1..Len(l2g) /\ l2g[j].seq = r.seq
        BY <1>3, <2>3, <3>1
      <3>3. l2g[j].by <= logicCrashes /\ l2g[j].by \in Nat
        BY <1>1, <1>4, <3>2 DEF Ordered
      <3>4. CASE r \in net
        <4>1. r.by <= l2g[j].by
          BY <1>1, <3>2, <3>4 DEF Ordered
        <4>2. l2g[j].by = logicCrashes
          BY <1>1, <3>3, <4>1
        <4>3. QED
          BY <3>2, <3>4, <4>2, WaitingFresh
      <3>5. CASE r \notin net
        <4>1. PICK i \in 1..popped : /\ i \in 1..Len(l2g) /\ r.seq = l2g[i].seq /\ r.ttl = l2g[i].ttl
                                     /\ r.at = now /\ r.by = l2g[i].by
          BY <1>5, <3>5
        <4>2. i <= j
          BY <3>1, <4>1
        <4>3. l2g[i].by <= l2g[j].by
          BY <1>1, <3>2, <4>1, <4>2 DEF Ordered
        <4>4. l2g[j].by = logicCrashes
          BY <1>1, <3>3, <4>1, <4>3
        <4>5. i = j
          BY <3>2, <4>1, <4>4, WaitingFresh
        <4>6. QED
          BY <3>1, <4>1, <4>5
      <3>6. QED
        BY <3>4, <3>5
    <2>5. CASE /\ inflight'[s].seq = inflight[s].seq /\ inflight'[s].ttl = inflight[s].ttl
               /\ inflight'[s].at = inflight[s].at
               /\ inflight'[s].active => inflight[s].active
               /\ \A j \in 1..popped : Slot(l2g[j].seq) # s
      <3>1. r \in net
        BY <1>5, <2>5
      <3>2. Matches(inflight, r.seq)
        BY <2>3, <2>5 DEF Matches
      <3>3. QED
        BY <1>2, <2>5, <3>1, <3>2 DEF Matched
    <2>6. QED
      <3> HIDE DEF s
      <3>1. QED
        BY <2>2, <2>4, <2>5, LoopResult DEF s
  <1>9. OwnAttribution'
    BY <1>2, <1>3 DEF OwnAttribution
  <1>10. QED
    BY <1>2, <1>6, <1>7, <1>8, <1>9 DEF OwnInv

LEMMA OwnRecv ==
    ASSUME PathInv, OwnInv, NEW r \in net, NEW copyLeft \in BOOLEAN, GkRecv(r, copyLeft)
    PROVE  OwnInv'
  <1>1. /\ NoWrap /\ Waiting(l2g, seq, logicCrashes, now, lastProbe)
        /\ Numbered(net, Len(l2g), seq, logicCrashes, lastProbe)
        /\ Matched(net, inflight, gkId, logicCrashes) /\ OwnAttribution
    BY DEF OwnInv
  <1> DEFINE k == Slot(r.seq)
             obs == Report(inflight[k], r)
  <1>2. /\ UNCHANGED <<now, seq, lastProbe, l2g, gkId, logicCrashes>>
        /\ net' \subseteq net
    BY RecvResult
  <1>3. Waiting(l2g, seq, logicCrashes, now, lastProbe)'
    BY <1>1, <1>2
  <1>4. Numbered(net, Len(l2g), seq, logicCrashes, lastProbe)'
    BY <1>1, <1>2 DEF Numbered
  <1>5. CASE UNCHANGED <<g2l, inflight>>
    <2>1. Matched(net, inflight, gkId, logicCrashes)' /\ OwnAttribution'
      BY <1>1, <1>2, <1>5 DEF Matched, Matches, OwnAttribution
    <2>2. QED
      BY <1>1, <1>3, <1>4, <2>1 DEF OwnInv
  <1>6. CASE ~UNCHANGED <<g2l, inflight>>
    <2>1. /\ r.id = gkId /\ Matches(inflight, r.seq) /\ obs \in Observation /\ g2l' = Append(g2l, obs)
          /\ Weakened(inflight', inflight)
      BY <1>6, RecvResult
    <2>2. OwnAttribution'
      <3>1. g2l \in Seq(Observation) /\ Len(g2l) \in Nat /\ DOMAIN g2l = 1..Len(g2l)
        BY LenProperties DEF PathInv, TypeOK, Observation
      <3>2. obs.by = logicCrashes => Credited(obs)
        <4>1. obs.by = r.by /\ obs.ttl = inflight[k].ttl /\ obs.realTtl = r.ttl
              /\ obs.rtt = now - inflight[k].at /\ obs.realRtt = now - r.at
          BY DEF Report
        <4>2. r.by = logicCrashes => inflight[k].ttl = r.ttl /\ inflight[k].at = r.at
          BY <1>1, <2>1 DEF Matched
        <4>3. QED
          BY <4>1, <4>2 DEF Credited
      <3> HIDE DEF obs
      <3>3. /\ DOMAIN g2l' = 1..(Len(g2l) + 1) /\ g2l'[Len(g2l) + 1] = obs
            /\ \A i \in 1..Len(g2l) : g2l'[i] = g2l[i]
        <4>1. g2l' \in Seq(Observation) /\ Len(g2l') = Len(g2l) + 1
          BY <2>1, <3>1, AppendProperties
        <4>2. DOMAIN g2l' = 1..Len(g2l')
          BY <4>1, LenProperties
        <4>3. QED
          BY <2>1, <3>1, <4>1, <4>2, AppendProperties
      <3>4. \A i \in 1..(Len(g2l) + 1) : i \in 1..Len(g2l) \/ i = Len(g2l) + 1
        BY <3>1
      <3>5. \A i \in DOMAIN g2l' : g2l'[i].by = logicCrashes => Credited(g2l'[i])
        BY <1>1, <3>1, <3>2, <3>3, <3>4 DEF OwnAttribution
      <3>6. QED
        BY <1>2, <3>5 DEF OwnAttribution, Credited
    <2>3. Matched(net, inflight, gkId, logicCrashes)'
      <3> SUFFICES ASSUME NEW a \in net', a.by = logicCrashes, a.id = gkId, Matches(inflight', a.seq)
                   PROVE  inflight'[Slot(a.seq)].ttl = a.ttl /\ inflight'[Slot(a.seq)].at = a.at
        BY <1>2 DEF Matched, Matches
      <3>1. a \in net /\ Slot(a.seq) \in 0..(Slots - 1)
        BY <1>2, SlotType DEF PathInv, TypeOK
      <3>2. /\ inflight'[Slot(a.seq)].ttl = inflight[Slot(a.seq)].ttl
            /\ inflight'[Slot(a.seq)].at = inflight[Slot(a.seq)].at
            /\ Matches(inflight, a.seq)
        BY <2>1, <3>1 DEF Matches, Weakened
      <3>3. QED
        BY <1>1, <3>1, <3>2 DEF Matched
    <2>4. QED
      BY <1>1, <1>3, <1>4, <2>2, <2>3 DEF OwnInv
  <1>7. QED
    BY <1>5, <1>6

LEMMA OwnOthers ==
    ASSUME PathInv, OwnInv, LogicDrain \/ LogicCrash \/ GkCrash \/ Tick \/ UNCHANGED vars
    PROVE  OwnInv'
  <1>1. /\ NoWrap /\ Waiting(l2g, seq, logicCrashes, now, lastProbe)
        /\ Numbered(net, Len(l2g), seq, logicCrashes, lastProbe)
        /\ Matched(net, inflight, gkId, logicCrashes) /\ OwnAttribution
    BY DEF OwnInv
  <1>2. CASE LogicDrain
    <2>1. UNCHANGED <<now, seq, lastProbe, l2g, inflight, gkId, net, logicCrashes>> /\ g2l' = <<>>
      BY <1>2 DEF LogicDrain, gkVars, counters
    <2>2. OwnAttribution'
      BY <2>1 DEF OwnAttribution
    <2>3. QED
      BY <1>1, <2>1, <2>2 DEF OwnInv, Matched, Matches
  <1>3. CASE LogicCrash
    <2>1. UNCHANGED <<l2g, g2l, net>> /\ logicCrashes' = logicCrashes + 1
      BY <1>3 DEF LogicCrash
    <2>2. logicCrashes \in Nat /\ DOMAIN g2l = 1..Len(g2l)
      BY LenProperties DEF PathInv, TypeOK
    <2>3. /\ \A i \in 1..Len(l2g) : l2g[i].by <= logicCrashes
          /\ \A r \in net : r.by <= logicCrashes
          /\ \A i \in 1..Len(g2l) : g2l[i].by <= logicCrashes
      BY DEF PathInv, Ordered
    <2>4. /\ \A i \in 1..Len(l2g) : l2g[i].by # logicCrashes + 1
          /\ \A r \in net : r.by # logicCrashes + 1
          /\ \A i \in 1..Len(g2l) : g2l[i].by # logicCrashes + 1
      BY <2>2, <2>3
    <2>5. OwnAttribution'
      BY <2>1, <2>2, <2>4 DEF OwnAttribution
    <2>6. /\ Waiting(l2g, seq, logicCrashes, now, lastProbe)'
          /\ Numbered(net, Len(l2g), seq, logicCrashes, lastProbe)'
          /\ Matched(net, inflight, gkId, logicCrashes)'
      BY <2>1, <2>4 DEF Waiting, Numbered, Matched
    <2>7. QED
      BY <1>1, <2>5, <2>6 DEF OwnInv
  <1>4. CASE GkCrash
    <2>1. /\ UNCHANGED <<now, seq, lastProbe, l2g, g2l, net, logicCrashes>>
          /\ inflight' = [i \in 0..(Slots - 1) |-> Inactive]
      BY <1>4 DEF GkCrash, logicVars
    <2>2. \A r \in net : ~Matches(inflight', r.seq)
      <3>1. \A r \in net : Slot(r.seq) \in 0..(Slots - 1)
        BY SlotType DEF PathInv, TypeOK
      <3>2. QED
        BY <2>1, <3>1 DEF Matches, Inactive
    <2>3. Matched(net, inflight, gkId, logicCrashes)' /\ OwnAttribution'
      BY <1>1, <2>1, <2>2 DEF Matched, Matches, OwnAttribution
    <2>4. QED
      BY <1>1, <2>1, <2>3 DEF OwnInv
  <1>5. CASE Tick
    <2>1. /\ UNCHANGED <<seq, lastProbe, l2g, g2l, inflight, gkId, logicCrashes>>
          /\ l2g = <<>> /\ net' \subseteq net
      BY <1>5 DEF Tick, logicVars, gkVars, counters
    <2>2. Waiting(l2g, seq, logicCrashes, now, lastProbe)'
      BY <2>1 DEF Waiting
    <2>3. Numbered(net, Len(l2g), seq, logicCrashes, lastProbe)' /\ Matched(net, inflight, gkId, logicCrashes)'
      BY <1>1, <2>1 DEF Numbered, Matched, Matches
    <2>4. OwnAttribution'
      BY <1>1, <2>1 DEF OwnAttribution
    <2>5. QED
      BY <1>1, <2>2, <2>3, <2>4 DEF OwnInv
  <1>6. CASE UNCHANGED vars
    BY <1>1, <1>6 DEF vars, logicVars, gkVars, counters, OwnInv, OwnAttribution, Matched, Matches
  <1>7. QED
    BY <1>2, <1>3, <1>4, <1>5, <1>6

(* As long as the rounds that fit into the life of an answer do not use up *)
(* the 16-bit sequence numbers (NoWrap), every answer to a probe of the    *)
(* logic engine at work is reported with the hop and the round-trip time   *)
(* of that probe, although find_probe compares nothing but the number: for *)
(* every table size, burst and timing, with answers lost, doubled and      *)
(* reordered, partial sends, and restarts of both processes.               *)
THEOREM OwnAnswersCredited == NoWrap /\ Spec => []OwnAttribution
  <1>1. PathInv /\ OwnInv /\ [Next]_vars => (PathInv /\ OwnInv)'
    <2> SUFFICES ASSUME PathInv, OwnInv, [Next]_vars PROVE OwnInv'
      BY PathStep
    <2>1. ASSUME NEW burst \in 1..MaxBurst, LogicBurst(burst) PROVE OwnInv'
      BY <2>1, OwnBurst
    <2>2. ASSUME NEW popped \in 0..Len(l2g), NEW taken \in 0..popped, NEW answered \in SUBSET (1..taken),
                 GkLoop(popped, taken, answered)
          PROVE  OwnInv'
      BY <2>2, OwnLoop
    <2>3. ASSUME NEW r \in net, NEW copyLeft \in BOOLEAN, GkRecv(r, copyLeft) PROVE OwnInv'
      BY <2>3, OwnRecv
    <2>4. CASE LogicDrain \/ LogicCrash \/ GkCrash \/ Tick \/ UNCHANGED vars
      BY <2>4, OwnOthers
    <2>5. QED
      BY <2>1, <2>2, <2>3, <2>4 DEF Next
  <1>2. NoWrap /\ Init => PathInv /\ OwnInv
    BY InitPath, InitOwn
  <1>3. OwnInv => OwnAttribution
    BY DEF OwnInv
  <1>4. QED
    BY <1>1, <1>2, <1>3, PTL DEF Spec

=============================================================================
