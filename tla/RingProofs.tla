----------------------------- MODULE RingProofs -----------------------------
(* Proofs about the rings and about the flow of work through them.         *)
EXTENDS ShmRing, Pipeline, SequenceTheorems, TLAPS

(***************************************************************************)
(* Proofs about ShmRing for every ring size, batch size and item set.      *)
(*                                                                         *)
(* All index arithmetic goes through the three lemmas on Mask, Used and    *)
(* Visible, which turn the remainder into a case distinction; below them   *)
(* the two operators stay opaque.                                          *)
(***************************************************************************)

LEMMA MaskFacts ==
    ASSUME NEW x \in 0..(2 * Size - 1)
    PROVE  /\ x < Size => Mask(x) = x
           /\ x >= Size => Mask(x) = x - Size
           /\ Mask(x) \in Index
  <1>1. Size \in Nat \ {0}
    BY RingAssumption
  <1>2. CASE x < Size
    BY <1>1, <1>2, SMT DEF Mask, Index
  <1>3. CASE ~(x < Size)
    BY <1>1, <1>3, SMT DEF Mask, Index
  <1>4. QED
    BY <1>2, <1>3

LEMMA UsedFacts ==
    ASSUME NEW h \in Index, NEW t \in Index
    PROVE  /\ Used(h, t) = IF t <= h THEN h - t ELSE h - t + Size
           /\ Used(h, t) \in 0..(Size - 1)
  <1>1. Size \in Nat \ {0}
    BY RingAssumption
  <1>2. CASE t <= h
    BY <1>1, <1>2, SMT DEF Used, Index
  <1>3. CASE ~(t <= h)
    BY <1>1, <1>3, SMT DEF Used, Index
  <1>4. QED
    BY <1>2, <1>3

(* A loaded index lies between the one seen before and the current one.    *)
LEMMA VisibleFacts ==
    ASSUME NEW seen \in Index, NEW now \in Index, NEW v \in Visible(seen, now)
    PROVE  /\ v \in Index
           /\ Used(v, seen) + Used(now, v) = Used(now, seen)
  <1>1. PICK k \in 0..Used(now, seen) : v = Mask(seen + k)
    BY DEF Visible
  <1>2. /\ Size \in Nat /\ Size >= 3
        /\ Used(now, seen) \in 0..(Size - 1)
    BY UsedFacts, RingAssumption
  <1>3. /\ seen + k \in 0..(2 * Size - 1)
        /\ k \in Int
    BY <1>2 DEF Index
  <1>4. /\ seen + k < Size => v = seen + k
        /\ seen + k >= Size => v = seen + k - Size
        /\ v \in Index
    <2>1. \A x \in 0..(2 * Size - 1) :
             /\ x < Size => Mask(x) = x
             /\ x >= Size => Mask(x) = x - Size
             /\ Mask(x) \in Index
      BY MaskFacts
    <2>2. QED
      BY <1>1, <1>2, <2>1, <1>3 DEF Index
  <1>5. /\ Used(v, seen) = IF seen <= v THEN v - seen ELSE v - seen + Size
        /\ Used(now, v) = IF v <= now THEN now - v ELSE now - v + Size
        /\ Used(now, seen) = IF seen <= now THEN now - seen ELSE now - seen + Size
    BY <1>4, UsedFacts
  <1>6. QED
    BY <1>2, <1>3, <1>4, <1>5 DEF Index

(* A newer copy of an index is still on the safe side of the current one.  *)
LEMMA ViewMoves ==
    ASSUME NEW h \in Index, NEW old \in Index, NEW now \in Index,
           NEW v \in Visible(old, now)
    PROVE  /\ v \in Index
           /\ Used(h, now) <= Used(h, old)
                 => Used(h, now) <= Used(h, v) /\ Used(h, v) <= Used(h, old)
           /\ Used(old, h) <= Used(now, h)
                 => Used(old, h) <= Used(v, h) /\ Used(v, h) <= Used(now, h)
  <1>1. v \in Index /\ Used(v, old) + Used(now, v) = Used(now, old)
    BY VisibleFacts
  <1>2. /\ Used(v, old) = IF old <= v THEN v - old ELSE v - old + Size
        /\ Used(now, v) = IF v <= now THEN now - v ELSE now - v + Size
        /\ Used(now, old) = IF old <= now THEN now - old ELSE now - old + Size
    BY <1>1, UsedFacts
  <1>3. /\ Used(h, now) = IF now <= h THEN h - now ELSE h - now + Size
        /\ Used(h, old) = IF old <= h THEN h - old ELSE h - old + Size
        /\ Used(h, v) = IF v <= h THEN h - v ELSE h - v + Size
    BY <1>1, UsedFacts
  <1>4. /\ Used(now, h) = IF h <= now THEN now - h ELSE now - h + Size
        /\ Used(old, h) = IF h <= old THEN old - h ELSE old - h + Size
        /\ Used(v, h) = IF h <= v THEN v - h ELSE v - h + Size
    BY <1>1, UsedFacts
  <1>5. Size \in Nat
    BY RingAssumption
  <1>6. Used(h, now) <= Used(h, old)
           => Used(h, now) <= Used(h, v) /\ Used(h, v) <= Used(h, old)
    BY <1>1, <1>2, <1>3, <1>5 DEF Index
  <1>7. Used(old, h) <= Used(now, h)
           => Used(old, h) <= Used(v, h) /\ Used(v, h) <= Used(now, h)
    BY <1>1, <1>2, <1>4, <1>5 DEF Index
  <1>8. QED
    BY <1>1, <1>6, <1>7

(* Moving an index forward by n.                                           *)
LEMMA IndexMoves ==
    ASSUME NEW h \in Index, NEW t \in Index, NEW n \in Nat
    PROVE  /\ n < Size => Mask(h + n) \in Index
           /\ Used(h, t) + n < Size => Used(Mask(h + n), t) = Used(h, t) + n
           /\ n <= Used(h, t) => Used(h, Mask(t + n)) = Used(h, t) - n
           /\ \A i \in Nat : n + i < Size => Mask(Mask(h + n) + i) = Mask(h + (n + i))
  <1>1. \A a, b \in Index : /\ Used(a, b) = IF b <= a THEN a - b ELSE a - b + Size
                            /\ Used(a, b) \in 0..(Size - 1)
    BY UsedFacts
  <1>2. \A x \in 0..(2 * Size - 1) : /\ x < Size => Mask(x) = x
                                     /\ x >= Size => Mask(x) = x - Size
                                     /\ Mask(x) \in Index
    BY MaskFacts
  <1>3. Size \in Nat
    BY RingAssumption
  <1>4. n < Size => Mask(h + n) \in Index
    BY <1>2, <1>3 DEF Index
  <1>5. Used(h, t) + n < Size => Used(Mask(h + n), t) = Used(h, t) + n
    <2> SUFFICES ASSUME Used(h, t) + n < Size
                 PROVE  Used(Mask(h + n), t) = Used(h, t) + n
      OBVIOUS
    <2>1. n < Size /\ h + n \in 0..(2 * Size - 1)
      BY <1>1, <1>3 DEF Index
    <2>2. PICK m \in Index : /\ m = Mask(h + n)
                             /\ h + n < Size => m = h + n
                             /\ h + n >= Size => m = h + n - Size
      BY <1>2, <1>3, <2>1 DEF Index
    <2>3. /\ Used(m, t) = IF t <= m THEN m - t ELSE m - t + Size
          /\ Used(h, t) = IF t <= h THEN h - t ELSE h - t + Size
      BY <1>1
    <2>4. Used(m, t) = Used(h, t) + n
      BY <1>3, <2>1, <2>2, <2>3 DEF Index
    <2>5. QED
      BY <2>2, <2>4
  <1>6. n <= Used(h, t) => Used(h, Mask(t + n)) = Used(h, t) - n
    <2> SUFFICES ASSUME n <= Used(h, t)
                 PROVE  Used(h, Mask(t + n)) = Used(h, t) - n
      OBVIOUS
    <2>1. n < Size /\ t + n \in 0..(2 * Size - 1)
      <3>1. Used(h, t) \in 0..(Size - 1)
        BY UsedFacts
      <3>2. QED
        BY <1>3, <3>1 DEF Index
    <2>2. PICK m \in Index : /\ m = Mask(t + n)
                             /\ t + n < Size => m = t + n
                             /\ t + n >= Size => m = t + n - Size
      BY <1>2, <1>3, <2>1 DEF Index
    <2>3. /\ Used(h, m) = IF m <= h THEN h - m ELSE h - m + Size
          /\ Used(h, t) = IF t <= h THEN h - t ELSE h - t + Size
      BY <1>1
    <2>4. Used(h, m) = Used(h, t) - n
      BY <1>3, <2>1, <2>2, <2>3 DEF Index
    <2>5. QED
      BY <2>2, <2>4
  <1>7. \A i \in Nat : n + i < Size => Mask(Mask(h + n) + i) = Mask(h + (n + i))
    BY <1>2, <1>3, <1>4 DEF Index
  <1>8. QED
    BY <1>4, <1>5, <1>6, <1>7

LEMMA TailReachesHead ==
    ASSUME NEW h \in Index, NEW t \in Index
    PROVE  Mask(t + Used(h, t)) = h
  <1>1. /\ Used(h, t) = IF t <= h THEN h - t ELSE h - t + Size
        /\ Used(h, t) \in 0..(Size - 1)
    BY UsedFacts
  <1>2. \A x \in 0..(2 * Size - 1) : /\ x < Size => Mask(x) = x
                                     /\ x >= Size => Mask(x) = x - Size
    BY MaskFacts
  <1>3. Size \in Nat
    BY RingAssumption
  <1>4. QED
    BY <1>1, <1>2, <1>3 DEF Index

(* The slots between tail and head, and those a push may take behind head, *)
(* are all different as long as one slot stays free.                       *)
LEMMA SlotsDiffer ==
    ASSUME NEW h \in Index, NEW t \in Index, NEW i \in Nat, NEW j \in Nat,
           Used(h, t) + j < Size
    PROVE  /\ i < Used(h, t) => Mask(t + i) # Mask(h + j)
           /\ i < j => Mask(h + i) # Mask(h + j)
           /\ Mask(h + j) \in Index
  <1>1. /\ Used(h, t) = IF t <= h THEN h - t ELSE h - t + Size
        /\ Used(h, t) \in 0..(Size - 1)
    BY UsedFacts
  <1>2. \A x \in 0..(2 * Size - 1) : /\ x < Size => Mask(x) = x
                                     /\ x >= Size => Mask(x) = x - Size
                                     /\ Mask(x) \in Index
    BY MaskFacts
  <1>3. Size \in Nat
    BY RingAssumption
  <1>4. QED
    BY <1>1, <1>2, <1>3 DEF Index

LEMMA BatchFacts ==
    ASSUME NEW batch \in Batches
    PROVE  /\ batch \in Seq(Item)
           /\ Len(batch) \in 1..MaxBatch
           /\ batch # <<>>
  BY RingAssumption DEF Batches

-----------------------------------------------------------------------------
(* The inductive invariant.                                                *)

(* Each side's copy of the other's index is old, never too new: the writer *)
(* believes at least as many slots taken, the reader at most as many       *)
(* filled, as there are.                                                   *)
ViewsSafe ==
    /\ Used(head, tail) <= Used(head, pview)
    /\ Used(cview, tail) <= Used(head, tail)
    /\ cn <= Used(cview, tail)
    /\ Used(head, pview) + Len(pbatch) <= Capacity

(* Every queued slot has been written, and the copied part of the push     *)
(* under way stands behind them.                                           *)
SlotsFilled ==
    /\ \A i \in 0..(Used(head, tail) - 1) : data[Mask(tail + i)] \in Item
    /\ \A i \in 0..(pi - 1) : data[Mask(head + i)] = pbatch[i + 1]

IInv == TypeOK /\ ViewsSafe /\ SlotsFilled /\ CopiedOldest

(* Typing facts that every step below needs.                               *)
LEMMA Types ==
    ASSUME TypeOK
    PROVE  /\ Size \in Nat /\ Size >= 3
           /\ head \in Index /\ tail \in Index /\ pview \in Index /\ cview \in Index
           /\ pbatch \in Seq(Item) /\ Len(pbatch) \in Nat
           /\ pi \in Nat /\ cn \in Nat /\ Len(cout) \in Nat
           /\ Capacity \in Nat /\ Capacity < Size
           /\ Used(head, tail) \in Nat /\ Used(head, pview) \in Nat
           /\ Used(cview, tail) \in Nat
  <1>1. /\ Size \in Nat /\ Size >= 3 /\ MaxPop \in Nat
        /\ Capacity \in Nat /\ Capacity < Size
    BY RingAssumption DEF Capacity
  <1>2. pbatch \in Seq(Item) /\ Len(pbatch) \in Nat
    <2>1. CASE pbatch \in Batches
      BY <2>1, BatchFacts
    <2>2. CASE pbatch = <<>>
      BY <2>2
    <2>3. QED
      BY <2>1, <2>2 DEF TypeOK
  <1>3. /\ Used(head, tail) \in Nat /\ Used(head, pview) \in Nat
        /\ Used(cview, tail) \in Nat
    BY <1>1, UsedFacts DEF TypeOK
  <1>4. pi \in Nat /\ cn \in Nat /\ Len(cout) \in Nat
    BY <1>1, <1>2 DEF TypeOK
  <1>5. QED
    BY <1>1, <1>2, <1>3, <1>4 DEF TypeOK

-----------------------------------------------------------------------------
LEMMA InitInv == Init => IInv
  <1> SUFFICES ASSUME Init PROVE IInv
    OBVIOUS
  <1>1. Used(0, 0) = 0 /\ Size \in Nat /\ Size >= 3
    BY RingAssumption, UsedFacts DEF Index
  <1>2. TypeOK
    BY RingAssumption DEF Init, TypeOK, Index
  <1>3. ViewsSafe
    BY <1>1, RingAssumption DEF Init, ViewsSafe, Capacity
  <1>4. SlotsFilled /\ CopiedOldest
    BY <1>1 DEF Init, SlotsFilled, CopiedOldest
  <1>5. QED
    BY <1>2, <1>3, <1>4 DEF IInv
(* A step of either call, or a crash, keeps the invariant.                 *)
LEMMA PushBeginInv ==
    ASSUME IInv, NEW batch \in Batches, PushBegin(batch)
    PROVE  IInv'
  <1>1. PICK t \in Visible(pview, tail) : ~Overflows(t, Len(batch)) /\ pview' = t
    BY DEF PushBegin
  <1>2. UNCHANGED <<head, tail, data, cn, cout, cview, delivered>>
    BY DEF PushBegin, mem, reader
  <1>3. /\ TypeOK /\ pview \in Index /\ tail \in Index /\ head \in Index
        /\ Size \in Nat /\ Used(head, tail) \in Nat
    BY Types DEF IInv
  <1>4. t \in Index /\ Used(head, tail) <= Used(head, t)
    BY <1>3, ViewMoves DEF IInv, ViewsSafe
  <1>5. batch \in Seq(Item) /\ Len(batch) \in 1..MaxBatch
    BY BatchFacts
  <1>6. Used(head, t) + Len(batch) <= Capacity
    <2>1. /\ Used(head, t) \in 0..(Size - 1)
          /\ Used(head, t) = IF t <= head THEN head - t ELSE head - t + Size
      BY <1>3, <1>4, UsedFacts
    <2>2. CASE ~Large
      BY <1>1, <1>3, <1>5, <2>1, <2>2, RingAssumption DEF Overflows, Capacity
    <2>3. CASE Large
      <3>1. Len(batch) = 1 /\ Mask(head + 1) # t
        <4>1. MaxBatch = 1
          BY <2>3, RingAssumption
        <4>2. Len(batch) = 1
          BY <1>5, <4>1
        <4>3. Mask(head + 1) # t
          BY <1>1, <2>3 DEF Overflows
        <4>4. QED
          BY <4>2, <4>3
      <3>2. /\ head + 1 < Size => Mask(head + 1) = head + 1
            /\ head + 1 >= Size => Mask(head + 1) = head + 1 - Size
        <4>1. head + 1 \in 0..(2 * Size - 1)
          BY <1>3 DEF Index
        <4>2. \A x \in 0..(2 * Size - 1) : /\ x < Size => Mask(x) = x
                                           /\ x >= Size => Mask(x) = x - Size
          BY MaskFacts
        <4>3. QED
          BY <1>3, <4>1, <4>2 DEF Index
      <3>3. QED
        BY <1>3, <1>4, <2>1, <2>3, <3>1, <3>2, RingAssumption DEF Capacity, Index
    <2>4. QED
      BY <2>2, <2>3
  <1>7. TypeOK'
    BY <1>1, <1>2, <1>3, <1>4, <1>5 DEF TypeOK, PushBegin
  <1>8. ViewsSafe'
    BY <1>1, <1>2, <1>4, <1>6 DEF IInv, ViewsSafe, PushBegin, Capacity
  <1>9. SlotsFilled' /\ CopiedOldest'
    BY <1>2 DEF IInv, SlotsFilled, CopiedOldest, PushBegin
  <1>10. QED
    BY <1>7, <1>8, <1>9 DEF IInv

LEMMA PushFullInv ==
    ASSUME IInv, NEW count \in 1..MaxBatch, PushFull(count)
    PROVE  IInv'
  <1>1. PICK t \in Visible(pview, tail) : pview' = t
    BY DEF PushFull
  <1>2. UNCHANGED <<head, tail, data, pbatch, pi, cn, cout, cview, delivered>>
    BY DEF PushFull, mem, reader
  <1>3. /\ TypeOK /\ pview \in Index /\ tail \in Index /\ head \in Index
        /\ pbatch = <<>> /\ Len(pbatch) = 0
        /\ Size \in Nat /\ Capacity \in Nat /\ Used(head, pview) \in Nat
    BY Types DEF IInv, PushFull
  <1>4. /\ t \in Index
        /\ Used(head, tail) <= Used(head, t) /\ Used(head, t) <= Used(head, pview)
    BY <1>3, ViewMoves DEF IInv, ViewsSafe
  <1>5. Used(head, t) \in Int
    BY <1>3, <1>4, UsedFacts
  <1>6. TypeOK'
    BY <1>1, <1>2, <1>3, <1>4 DEF TypeOK
  <1>7. ViewsSafe'
    BY <1>1, <1>2, <1>3, <1>4, <1>5 DEF IInv, ViewsSafe, Capacity
  <1>8. SlotsFilled' /\ CopiedOldest'
    BY <1>2 DEF IInv, SlotsFilled, CopiedOldest
  <1>9. QED
    BY <1>6, <1>7, <1>8 DEF IInv

LEMMA PushCopyInv ==
    ASSUME IInv, PushCopy
    PROVE  IInv'
  <1>1. UNCHANGED <<head, tail, pbatch, pview, cn, cout, cview, delivered>>
    BY DEF PushCopy, reader
  <1>2. /\ TypeOK /\ tail \in Index /\ head \in Index
        /\ Size \in Nat /\ Used(head, tail) \in Nat /\ pi \in Nat
        /\ pbatch \in Seq(Item) /\ Len(pbatch) \in Nat /\ pi < Len(pbatch)
        /\ cn \in Nat /\ Len(cout) \in Nat
    BY Types DEF IInv, PushCopy
  <1>3. Used(head, tail) + pi < Size
    BY <1>2, Types DEF IInv, ViewsSafe
  <1>4. /\ Mask(head + pi) \in Index
        /\ \A i \in Nat : i < Used(head, tail) => Mask(tail + i) # Mask(head + pi)
        /\ \A i \in Nat : i < pi => Mask(head + i) # Mask(head + pi)
    BY <1>2, <1>3, SlotsDiffer
  <1>5. /\ data \in [Index -> Item \cup {NoItem}]
        /\ data' = [data EXCEPT ![Mask(head + pi)] = pbatch[pi + 1]]
        /\ pi' = pi + 1
        /\ pbatch[pi + 1] \in Item
    BY <1>2 DEF TypeOK, PushCopy
  <1>6. TypeOK'
    BY <1>1, <1>2, <1>4, <1>5 DEF TypeOK
  <1>7. ViewsSafe'
    BY <1>1 DEF IInv, ViewsSafe, Capacity
  <1>8. \A i \in Nat : i < Used(head, tail) =>
                          data'[Mask(tail + i)] = data[Mask(tail + i)]
    BY <1>4, <1>5
  <1>9. SlotsFilled'
    <2>1. \A i \in 0..(Used(head, tail) - 1) : data'[Mask(tail + i)] \in Item
      BY <1>2, <1>8 DEF IInv, SlotsFilled
    <2>2. ASSUME NEW i \in 0..pi
          PROVE  data'[Mask(head + i)] = pbatch[i + 1]
      <3>1. CASE i = pi
        BY <1>4, <1>5, <3>1
      <3>2. CASE i # pi
        <4>1. i \in Nat /\ i < pi /\ i \in 0..(pi - 1)
          BY <1>2, <3>2
        <4>2. data[Mask(head + i)] = pbatch[i + 1]
          BY <4>1 DEF IInv, SlotsFilled
        <4>3. QED
          BY <1>4, <1>5, <4>1, <4>2
      <3>3. QED
        BY <3>1, <3>2
    <2>3. QED
      BY <1>1, <1>2, <1>5, <2>1, <2>2 DEF SlotsFilled
  <1>10. CopiedOldest'
    <2>1. Len(cout) <= Used(head, tail)
      BY <1>2, Types DEF IInv, TypeOK, ViewsSafe
    <2>2. ASSUME NEW i \in 1..Len(cout)
          PROVE  data'[Mask(tail + (i - 1))] = data[Mask(tail + (i - 1))]
      BY <1>2, <1>8, <2>1
    <2>3. QED
      BY <1>1, <2>2 DEF IInv, CopiedOldest
  <1>11. QED
    BY <1>6, <1>7, <1>9, <1>10 DEF IInv
LEMMA PushCommitInv ==
    ASSUME IInv, PushCommit
    PROVE  IInv'
  <1>1. /\ UNCHANGED <<tail, data, pview, cn, cout, cview, delivered>>
        /\ head' = Mask(head + Len(pbatch)) /\ pbatch' = <<>> /\ pi' = 0
        /\ pi = Len(pbatch) /\ Len(pbatch') = 0
    BY DEF PushCommit, reader
  <1>2. /\ TypeOK /\ tail \in Index /\ head \in Index /\ pview \in Index
        /\ cview \in Index /\ Size \in Nat /\ Capacity \in Nat /\ Capacity < Size
        /\ Used(head, tail) \in Nat /\ Used(head, pview) \in Nat
        /\ Used(cview, tail) \in Nat /\ cn \in Nat
        /\ pbatch \in Seq(Item) /\ Len(pbatch) \in Nat
    BY Types DEF IInv
  <1>3. /\ Used(head, tail) + Len(pbatch) < Size
        /\ Used(head, pview) + Len(pbatch) < Size
        /\ Len(pbatch) < Size
    BY <1>2 DEF IInv, ViewsSafe
  <1>4. /\ head' \in Index
        /\ Used(head', tail) = Used(head, tail) + Len(pbatch)
        /\ Used(head', pview) = Used(head, pview) + Len(pbatch)
    BY <1>1, <1>2, <1>3, IndexMoves
  <1>5. TypeOK'
    BY <1>1, <1>2, <1>4 DEF TypeOK
  <1>6. ViewsSafe'
    BY <1>1, <1>2, <1>4 DEF IInv, ViewsSafe, Capacity
  <1>7. SlotsFilled'
    <2>1. ASSUME NEW i \in 0..(Used(head, tail) + Len(pbatch) - 1)
          PROVE  data[Mask(tail + i)] \in Item
      <3>1. CASE i < Used(head, tail)
        BY <1>2, <3>1 DEF IInv, SlotsFilled
      <3>2. CASE i >= Used(head, tail)
        <4>1. PICK j \in 0..(Len(pbatch) - 1) : i = Used(head, tail) + j
          <5>1. i - Used(head, tail) \in 0..(Len(pbatch) - 1)
            BY <1>2, <3>2
          <5>2. i = Used(head, tail) + (i - Used(head, tail))
            BY <1>2
          <5>3. QED
            BY <5>1, <5>2
        <4>2. Mask(tail + Used(head, tail)) = head
          BY <1>2, TailReachesHead
        <4>3. Mask(Mask(tail + Used(head, tail)) + j) = Mask(tail + (Used(head, tail) + j))
          <5>1. /\ j \in Nat /\ Used(head, tail) + j < Size
            BY <1>2, <1>3, <4>1
          <5>2. QED
            BY <1>2, <5>1, IndexMoves
        <4>4. data[Mask(head + j)] = pbatch[j + 1]
          BY <1>1, <4>1 DEF IInv, SlotsFilled
        <4>5. pbatch[j + 1] \in Item
          BY <1>2, <4>1
        <4>6. QED
          BY <4>1, <4>2, <4>3, <4>4, <4>5
      <3>3. QED
        BY <1>2, <3>1, <3>2
    <2>2. \A i \in 0..(Used(head', tail) - 1) : data[Mask(tail + i)] \in Item
      BY <1>2, <1>4, <2>1
    <2>3. QED
      BY <1>1, <2>2 DEF SlotsFilled
  <1>8. CopiedOldest'
    BY <1>1 DEF IInv, CopiedOldest
  <1>9. QED
    BY <1>5, <1>6, <1>7, <1>8 DEF IInv

LEMMA PopBeginInv ==
    ASSUME IInv, NEW max \in 1..MaxPop, PopBegin(max)
    PROVE  IInv'
  <1>1. PICK h \in Visible(cview, head) :
           /\ Used(h, tail) # 0
           /\ cview' = h
           /\ cn' = IF Used(h, tail) < max THEN Used(h, tail) ELSE max
    BY DEF PopBegin
  <1>2. /\ UNCHANGED <<head, tail, data, pbatch, pi, pview, delivered>>
        /\ cout' = <<>> /\ Len(cout') = 0
    BY DEF PopBegin, mem, writer
  <1>3. /\ TypeOK /\ cview \in Index /\ tail \in Index /\ head \in Index
        /\ Size \in Nat /\ MaxPop \in Nat
    BY Types, RingAssumption DEF IInv
  <1>4. h \in Index /\ Used(h, tail) <= Used(head, tail)
    BY <1>3, ViewMoves DEF IInv, ViewsSafe
  <1>5. Used(h, tail) \in 0..(Size - 1)
    BY <1>3, <1>4, UsedFacts
  <1>6. cn' \in 0..MaxPop /\ cn' <= Used(h, tail)
    BY <1>1, <1>3, <1>5
  <1>7. TypeOK'
    BY <1>1, <1>2, <1>3, <1>4, <1>6 DEF TypeOK
  <1>8. ViewsSafe'
    BY <1>1, <1>2, <1>4, <1>6 DEF IInv, ViewsSafe, Capacity
  <1>9. SlotsFilled' /\ CopiedOldest'
    BY <1>2 DEF IInv, SlotsFilled, CopiedOldest
  <1>10. QED
    BY <1>7, <1>8, <1>9 DEF IInv

LEMMA PopEmptyInv ==
    ASSUME IInv, PopEmpty
    PROVE  IInv'
  <1>1. PICK h \in Visible(cview, head) : Used(h, tail) = 0 /\ cview' = h
    BY DEF PopEmpty
  <1>2. UNCHANGED <<head, tail, data, pbatch, pi, pview, cn, cout, delivered>> /\ cn = 0
    BY DEF PopEmpty, mem, writer
  <1>3. /\ TypeOK /\ cview \in Index /\ tail \in Index /\ head \in Index
        /\ Used(head, tail) \in Nat
    BY Types DEF IInv
  <1>4. h \in Index
    BY <1>3, ViewMoves DEF IInv, ViewsSafe
  <1>5. TypeOK'
    BY <1>1, <1>2, <1>3, <1>4 DEF TypeOK
  <1>6. ViewsSafe'
    BY <1>1, <1>2, <1>3 DEF IInv, ViewsSafe, Capacity
  <1>7. SlotsFilled' /\ CopiedOldest'
    BY <1>2 DEF IInv, SlotsFilled, CopiedOldest
  <1>8. QED
    BY <1>5, <1>6, <1>7 DEF IInv

LEMMA PopCopyInv ==
    ASSUME IInv, PopCopy
    PROVE  IInv'
  <1>1. UNCHANGED <<head, tail, data, pbatch, pi, pview, cn, cview, delivered>>
    BY DEF PopCopy, mem, writer
  <1>2. /\ TypeOK /\ tail \in Index /\ head \in Index
        /\ cn \in Nat /\ Len(cout) \in Nat /\ Len(cout) < cn
        /\ Used(head, tail) \in Nat /\ Used(cview, tail) \in Nat
        /\ cout \in Seq(Item \cup {NoItem})
    BY Types DEF IInv, PopCopy, TypeOK
  <1>3. Len(cout) \in 0..(Used(head, tail) - 1)
    BY <1>2 DEF IInv, ViewsSafe
  <1>4. PICK x \in Item : x = data[Mask(tail + Len(cout))]
    BY <1>3 DEF IInv, SlotsFilled
  <1>5. cout' = Append(cout, x)
    BY <1>4 DEF PopCopy
  <1>6. /\ cout' \in Seq(Item \cup {NoItem}) /\ Len(cout') = Len(cout) + 1
        /\ \A i \in 1..Len(cout) : cout'[i] = cout[i]
        /\ cout'[Len(cout) + 1] = x
    BY <1>2, <1>5
  <1>7. TypeOK'
    BY <1>1, <1>2, <1>6 DEF TypeOK
  <1>8. ViewsSafe' /\ SlotsFilled'
    BY <1>1 DEF IInv, ViewsSafe, SlotsFilled, Capacity
  <1>9. CopiedOldest'
    <2>1. ASSUME NEW i \in 1..(Len(cout) + 1)
          PROVE  cout'[i] = data[Mask(tail + (i - 1))] /\ cout'[i] \in Item
      <3>1. CASE i = Len(cout) + 1
        <4>1. i - 1 = Len(cout)
          BY <1>2, <3>1
        <4>2. QED
          BY <1>4, <1>6, <3>1, <4>1
      <3>2. CASE i # Len(cout) + 1
        <4>1. i \in 1..Len(cout)
          BY <1>2, <3>2
        <4>2. QED
          BY <1>6, <4>1 DEF IInv, CopiedOldest
      <3>3. QED
        BY <3>1, <3>2
    <2>2. QED
      BY <1>1, <1>6, <2>1 DEF CopiedOldest
  <1>10. QED
    BY <1>7, <1>8, <1>9 DEF IInv

LEMMA PopCommitInv ==
    ASSUME IInv, PopCommit
    PROVE  IInv'
  <1>1. /\ UNCHANGED <<head, data, pbatch, pi, pview, cview>>
        /\ tail' = Mask(tail + cn) /\ delivered' = cout
        /\ cn' = 0 /\ cout' = <<>> /\ Len(cout') = 0
    BY DEF PopCommit, writer
  <1>2. /\ TypeOK /\ tail \in Index /\ head \in Index /\ pview \in Index
        /\ cview \in Index /\ Size \in Nat /\ cn \in Nat
        /\ Used(head, tail) \in Nat /\ Used(cview, tail) \in Nat
        /\ Used(head, pview) \in Nat
    BY Types DEF IInv
  <1>3. /\ cn <= Used(cview, tail) /\ cn <= Used(head, tail) /\ cn < Size
    <2>1. Used(head, tail) \in 0..(Size - 1)
      BY <1>2, UsedFacts
    <2>2. QED
      BY <1>2, <2>1 DEF IInv, ViewsSafe
  <1>4. /\ tail' \in Index
        /\ Used(head, tail') = Used(head, tail) - cn
        /\ Used(cview, tail') = Used(cview, tail) - cn
        /\ \A i \in Nat : cn + i < Size => Mask(tail' + i) = Mask(tail + (cn + i))
    BY <1>1, <1>2, <1>3, IndexMoves
  <1>5. TypeOK'
    BY <1>1, <1>2, <1>4, RingAssumption DEF TypeOK
  <1>6. ViewsSafe'
    BY <1>1, <1>2, <1>3, <1>4 DEF IInv, ViewsSafe, Capacity
  <1>7. SlotsFilled'
    <2>1. ASSUME NEW i \in 0..(Used(head, tail) - cn - 1)
          PROVE  data[Mask(tail' + i)] \in Item
      <3>1. /\ i \in Nat /\ cn + i < Size /\ cn + i \in 0..(Used(head, tail) - 1)
        BY <1>2, UsedFacts
      <3>2. data[Mask(tail + (cn + i))] \in Item
        BY <3>1 DEF IInv, SlotsFilled
      <3>3. QED
        BY <1>4, <3>1, <3>2
    <2>2. QED
      BY <1>1, <1>4, <2>1 DEF IInv, SlotsFilled
  <1>8. CopiedOldest'
    BY <1>1 DEF CopiedOldest
  <1>9. QED
    BY <1>5, <1>6, <1>7, <1>8 DEF IInv

LEMMA CrashInv ==
    ASSUME IInv, WriterCrash \/ ReaderCrash
    PROVE  IInv'
  <1>1. /\ Size \in Nat /\ Len(pbatch) \in Nat /\ Capacity \in Nat /\ cn \in Nat
        /\ Used(head, pview) \in Nat /\ Used(cview, tail) \in Nat
        /\ MaxPop \in Nat /\ Len(<<>>) = 0
    BY Types, RingAssumption DEF IInv
  <1>2. CASE WriterCrash
    <2>1. /\ UNCHANGED <<head, tail, data, pview, cn, cout, cview, delivered>>
          /\ pbatch' = <<>> /\ pi' = 0
      BY <1>2 DEF WriterCrash, mem, reader
    <2>2. QED
      BY <1>1, <2>1 DEF IInv, TypeOK, ViewsSafe, SlotsFilled, CopiedOldest, Capacity
  <1>3. CASE ReaderCrash
    <2>1. /\ UNCHANGED <<head, tail, data, pbatch, pi, pview, cview, delivered>>
          /\ cn' = 0 /\ cout' = <<>>
      BY <1>3 DEF ReaderCrash, mem, writer
    <2>2. QED
      BY <1>1, <2>1 DEF IInv, TypeOK, ViewsSafe, SlotsFilled, CopiedOldest, Capacity
  <1>4. QED
    BY <1>2, <1>3
LEMMA StepInv == IInv /\ [Next]_vars => IInv'
  <1> SUFFICES ASSUME IInv, [Next]_vars PROVE IInv'
    OBVIOUS
  <1>1. CASE Writer
    BY <1>1, PushBeginInv, PushFullInv, PushCopyInv, PushCommitInv DEF Writer
  <1>2. CASE Reader
    BY <1>2, PopBeginInv, PopEmptyInv, PopCopyInv, PopCommitInv DEF Reader
  <1>3. CASE WriterCrash \/ ReaderCrash
    BY <1>3, CrashInv
  <1>4. CASE UNCHANGED vars
    BY <1>4 DEF vars, mem, writer, reader, IInv, TypeOK, ViewsSafe, SlotsFilled,
                CopiedOldest, Capacity
  <1>5. QED
    BY <1>1, <1>2, <1>3, <1>4 DEF Next

(* The inductive invariant holds in every reachable state of shm_ring.h's  *)
(* ring: loaded indices are old but never too new, queued slots hold       *)
(* pushed items.                                                           *)
THEOREM Invariance == Spec => []IInv
  BY InitInv, StepInv, PTL DEF Spec

(* The mapping and the locals of push and pop always have their types: no  *)
(* index leaves the array data[].                                          *)
THEOREM TypeCorrect == Spec => []TypeOK
  <1>1. IInv => TypeOK
    BY DEF IInv
  <1>2. QED
    BY <1>1, Invariance, PTL

(* What a pop has copied so far is the oldest part of the queue, in order,  *)
(* whatever the pushes did meanwhile in the other process.                  *)
THEOREM CopiesOldest == Spec => []CopiedOldest
  <1>1. IInv => CopiedOldest
    BY DEF IInv
  <1>2. QED
    BY <1>1, Invariance, PTL

LEMMA InvNoSlotRace == IInv => NoSlotRace
  <1> SUFFICES ASSUME IInv,
                      NEW j \in 0..(Len(pbatch) - 1), NEW i \in 0..(cn - 1)
               PROVE  Mask(tail + i) # Mask(head + j)
    BY DEF NoSlotRace, WriteSlots, ReadSlots
  <1>1. /\ tail \in Index /\ head \in Index /\ cn \in Nat /\ Len(pbatch) \in Nat
        /\ Used(head, tail) \in Nat /\ Used(cview, tail) \in Nat
        /\ Used(head, pview) \in Nat
        /\ Size \in Nat /\ Capacity \in Nat /\ Capacity < Size
    BY Types DEF IInv
  <1>2. /\ i \in Nat /\ j \in Nat /\ i < Used(head, tail)
        /\ Used(head, tail) + j < Size
    BY <1>1 DEF IInv, ViewsSafe
  <1>3. QED
    BY <1>1, <1>2, SlotsDiffer

(* The copies of a push and a pop of shm_ring.h that overlap in time never *)
(* touch the same slot.                                                    *)
THEOREM RaceFree == Spec => []NoSlotRace
  BY InvNoSlotRace, Invariance, PTL

(* The ring never holds more than push_batch admits: a full ring is never  *)
(* taken for an empty one, also when the writer dies in the middle of one. *)
THEOREM Bounded == Spec => []WithinCapacity
  <1>1. IInv => WithinCapacity
    <2> SUFFICES ASSUME IInv PROVE WithinCapacity
      OBVIOUS
    <2>1. /\ Used(head, tail) \in Nat /\ Used(head, pview) \in Nat
          /\ Len(pbatch) \in Nat /\ Capacity \in Nat
      BY Types DEF IInv
    <2>2. QED
      BY <2>1 DEF IInv, ViewsSafe, WithinCapacity
  <1>2. QED
    BY <1>1, Invariance, PTL
-----------------------------------------------------------------------------
(* Refinement of the bounded FIFO channel.                                 *)

ContentsOK ==
    /\ Contents \in Seq(Item)
    /\ Len(Contents) = Used(head, tail)
    /\ \A i \in 1..Used(head, tail) : Contents[i] = data[Mask(tail + (i - 1))]

LEMMA ContentsFacts == IInv => ContentsOK
  <1> SUFFICES ASSUME IInv PROVE ContentsOK
    OBVIOUS
  <1>1. Used(head, tail) \in Nat
    BY Types DEF IInv
  <1>2. ASSUME NEW i \in 1..Used(head, tail)
        PROVE  data[Mask(tail + (i - 1))] \in Item
    <2>1. i - 1 \in 0..(Used(head, tail) - 1)
      BY <1>1
    <2>2. QED
      BY <2>1 DEF IInv, SlotsFilled
  <1>3. Contents \in [1..Used(head, tail) -> Item]
    BY <1>2 DEF Contents
  <1>4. QED
    BY <1>1, <1>3 DEF Contents, ContentsOK

LEMMA ContentsFactsPrimed == IInv' => ContentsOK'
  BY ContentsFacts, PTL

LEMMA CopyKeepsContents ==
    ASSUME IInv, PushCopy
    PROVE  Contents' = Contents
  <1>1. /\ tail \in Index /\ head \in Index /\ Size \in Nat /\ pi \in Nat
        /\ Len(pbatch) \in Nat /\ pi < Len(pbatch) /\ Used(head, tail) \in Nat
    BY Types DEF IInv, PushCopy
  <1>2. Used(head, tail) + pi < Size
    BY <1>1, Types DEF IInv, ViewsSafe
  <1>3. /\ data' = [data EXCEPT ![Mask(head + pi)] = pbatch[pi + 1]]
        /\ head' = head /\ tail' = tail
    BY DEF PushCopy
  <1>4. ASSUME NEW i \in 1..Used(head, tail)
        PROVE  data'[Mask(tail + (i - 1))] = data[Mask(tail + (i - 1))]
    <2>1. i - 1 \in Nat /\ i - 1 < Used(head, tail)
      BY <1>1
    <2>2. \A k \in Nat : k < Used(head, tail) =>
              /\ Mask(tail + k) # Mask(head + pi)
              /\ Mask(tail + k) \in Index
      <3> SUFFICES ASSUME NEW k \in Nat, k < Used(head, tail)
                   PROVE  /\ Mask(tail + k) # Mask(head + pi)
                          /\ Mask(tail + k) \in Index
        OBVIOUS
      <3>1. k < Size
        BY <1>1, <1>2
      <3>2. QED
        BY <1>1, <1>2, <3>1, SlotsDiffer, IndexMoves
    <2>3. data \in [Index -> Item \cup {NoItem}]
      BY DEF IInv, TypeOK
    <2>4. QED
      BY <1>3, <2>1, <2>2, <2>3
  <1>5. QED
    BY <1>3, <1>4 DEF Contents

LEMMA CommitPushes ==
    ASSUME IInv, PushCommit
    PROVE  Fifo!ChPush(pbatch) /\ pbatch \in Fifo!Batch(MaxBatch)
  <1>1. /\ TypeOK /\ tail \in Index /\ head \in Index /\ Size \in Nat
        /\ pbatch \in Seq(Item) /\ Len(pbatch) \in Nat
        /\ Used(head, tail) \in Nat /\ Used(head, pview) \in Nat
        /\ Capacity \in Nat /\ Capacity < Size
    BY Types DEF IInv
  <1>2. IInv'
    BY PushCommitInv
  <1>3. /\ Contents \in Seq(Item) /\ Len(Contents) = Used(head, tail)
        /\ \A i \in 1..Used(head, tail) : Contents[i] = data[Mask(tail + (i - 1))]
    BY ContentsFacts DEF ContentsOK
  <1>4. /\ Contents' \in Seq(Item) /\ Len(Contents') = Used(head', tail')
        /\ \A i \in 1..Used(head', tail') :
              Contents'[i] = data'[Mask(tail' + (i - 1))]
    BY <1>2, ContentsFactsPrimed DEF ContentsOK
  <1>5. /\ Used(head, tail) + Len(pbatch) <= Capacity
        /\ Used(head, tail) + Len(pbatch) < Size
    BY <1>1 DEF IInv, ViewsSafe
  <1>6. /\ head' = Mask(head + Len(pbatch)) /\ tail' = tail /\ data' = data
        /\ pi = Len(pbatch) /\ pbatch # <<>> /\ delivered' = delivered
    BY DEF PushCommit
  <1>7. Used(head', tail') = Used(head, tail) + Len(pbatch)
    BY <1>1, <1>5, <1>6, IndexMoves
  <1>8. ASSUME NEW i \in 1..(Used(head, tail) + Len(pbatch))
        PROVE  Contents'[i] = (Contents \o pbatch)[i]
    <2>1. Contents'[i] = data[Mask(tail + (i - 1))]
      BY <1>4, <1>6, <1>7
    <2>2. CASE i <= Used(head, tail)
      BY <1>1, <1>3, <2>1, <2>2
    <2>3. CASE i > Used(head, tail)
      <3>1. PICK j \in 0..(Len(pbatch) - 1) : i - 1 = Used(head, tail) + j
        <4>1. i - 1 - Used(head, tail) \in 0..(Len(pbatch) - 1)
          BY <1>1, <2>3
        <4>2. i - 1 = Used(head, tail) + (i - 1 - Used(head, tail))
          BY <1>1
        <4>3. QED
          BY <4>1, <4>2
      <3>2. Mask(head + j) = Mask(tail + (Used(head, tail) + j))
        <4>1. Mask(tail + Used(head, tail)) = head
          BY <1>1, TailReachesHead
        <4>2. j \in Nat /\ Used(head, tail) + j < Size
          BY <1>1, <1>5, <3>1
        <4>3. Mask(Mask(tail + Used(head, tail)) + j) = Mask(tail + (Used(head, tail) + j))
          BY <1>1, <4>2, IndexMoves
        <4>4. QED
          BY <4>1, <4>3
      <3>3. data[Mask(head + j)] = pbatch[j + 1]
        BY <1>6, <3>1 DEF IInv, SlotsFilled
      <3>4. (Contents \o pbatch)[i] = pbatch[j + 1]
        BY <1>1, <1>3, <2>3, <3>1
      <3>5. QED
        BY <2>1, <3>1, <3>2, <3>3, <3>4
    <2>4. i <= Used(head, tail) \/ i > Used(head, tail)
      BY <1>1
    <2>5. QED
      BY <2>2, <2>3, <2>4, Zenon
  <1>9. Contents' = Contents \o pbatch
    <2>1. /\ Contents \o pbatch \in Seq(Item)
          /\ Len(Contents \o pbatch) = Used(head, tail) + Len(pbatch)
      BY <1>1, <1>3, ConcatProperties
    <2>2. QED
      BY <1>4, <1>7, <1>8, <2>1
  <1>10. pbatch \in Fifo!Batch(MaxBatch)
    BY <1>1, <1>6 DEF TypeOK, Batches, Fifo!Batch
  <1>11. QED
    BY <1>3, <1>5, <1>6, <1>9, <1>10 DEF Fifo!ChPush

LEMMA CommitPops ==
    ASSUME IInv, PopCommit
    PROVE  Fifo!ChPop(cn) /\ cn \in 1..MaxPop
  <1>1. /\ TypeOK /\ tail \in Index /\ head \in Index /\ Size \in Nat
        /\ Used(head, tail) \in Nat /\ Used(cview, tail) \in Nat
        /\ cn \in Nat /\ cn > 0
    BY Types DEF IInv, PopCommit
  <1>2. IInv'
    BY PopCommitInv
  <1>3. /\ Contents \in Seq(Item) /\ Len(Contents) = Used(head, tail)
        /\ \A i \in 1..Used(head, tail) : Contents[i] = data[Mask(tail + (i - 1))]
    BY ContentsFacts DEF ContentsOK
  <1>4. /\ Contents' \in Seq(Item) /\ Len(Contents') = Used(head', tail')
        /\ \A i \in 1..Used(head', tail') :
              Contents'[i] = data'[Mask(tail' + (i - 1))]
    BY <1>2, ContentsFactsPrimed DEF ContentsOK
  <1>5. /\ tail' = Mask(tail + cn) /\ head' = head /\ data' = data
        /\ Len(cout) = cn /\ delivered' = cout
        /\ cout \in Seq(Item \cup {NoItem})
    BY DEF PopCommit, IInv, TypeOK
  <1>6. cn <= Used(head, tail) /\ Used(head, tail) < Size
    <2>1. Used(head, tail) \in 0..(Size - 1)
      BY <1>1, UsedFacts
    <2>2. QED
      BY <1>1, <2>1 DEF IInv, ViewsSafe
  <1>7. /\ Used(head', tail') = Used(head, tail) - cn
        /\ \A i \in Nat : cn + i < Size => Mask(tail' + i) = Mask(tail + (cn + i))
    BY <1>1, <1>5, <1>6, IndexMoves
  <1>8. delivered' = SubSeq(Contents, 1, cn)
    <2>1. \A i \in 1..cn : cout[i] = Contents[i]
      BY <1>1, <1>3, <1>5, <1>6 DEF IInv, CopiedOldest
    <2>2. /\ SubSeq(Contents, 1, cn) \in Seq(Item)
          /\ Len(SubSeq(Contents, 1, cn)) = cn
          /\ \A i \in 1..cn : SubSeq(Contents, 1, cn)[i] = Contents[i]
      BY <1>1, <1>3, <1>6
    <2>3. QED
      BY <1>5, <2>1, <2>2
  <1>9. Contents' = SubSeq(Contents, cn + 1, Len(Contents))
    <2>1. /\ SubSeq(Contents, cn + 1, Len(Contents)) \in Seq(Item)
          /\ Len(SubSeq(Contents, cn + 1, Len(Contents))) = Used(head, tail) - cn
          /\ \A i \in 1..(Used(head, tail) - cn) :
                SubSeq(Contents, cn + 1, Len(Contents))[i] = Contents[cn + i]
      BY <1>1, <1>3, <1>6
    <2>2. ASSUME NEW i \in 1..(Used(head, tail) - cn)
          PROVE  Contents'[i] = Contents[cn + i]
      <3>1. Contents'[i] = data[Mask(tail' + (i - 1))]
        BY <1>4, <1>5, <1>7
      <3>2. /\ i - 1 \in Nat /\ cn + (i - 1) < Size
            /\ cn + i \in 1..Used(head, tail) /\ cn + (i - 1) = (cn + i) - 1
        BY <1>1, <1>6
      <3>3. Mask(tail' + (i - 1)) = Mask(tail + (cn + (i - 1)))
        BY <1>7, <3>2
      <3>4. Contents[cn + i] = data[Mask(tail + ((cn + i) - 1))]
        BY <1>3, <3>2
      <3>5. QED
        BY <3>1, <3>2, <3>3, <3>4
    <2>3. QED
      BY <1>4, <1>7, <2>1, <2>2
  <1>10. QED
    BY <1>1, <1>3, <1>6, <1>8, <1>9 DEF Fifo!ChPop, TypeOK

(* The ring of shm_ring.h, with all its interleavings, stale loads and     *)
(* crashes, implements the bounded FIFO channel: batches appear whole, in  *)
(* order, once, and what pop returns is what push was given.               *)
THEOREM Refinement == Spec => FifoSpec
  <1>1. Init => Fifo!ChInit
    <2> SUFFICES ASSUME Init PROVE Fifo!ChInit
      OBVIOUS
    <2>1. IInv
      BY InitInv
    <2>2. Used(head, tail) = 0
      BY UsedFacts, RingAssumption DEF Init, Index
    <2>3. Contents = <<>>
      BY <2>1, <2>2, ContentsFacts DEF ContentsOK
    <2>4. QED
      BY <2>3 DEF Init, Fifo!ChInit
  <1>2. IInv /\ [Next]_vars => [Fifo!ChNext]_Fifo!chVars
    <2> SUFFICES ASSUME IInv, [Next]_vars
                 PROVE  Fifo!ChNext \/ UNCHANGED <<Contents, delivered>>
      BY DEF Fifo!chVars
    <2>1. CASE PushCopy
      BY <2>1, CopyKeepsContents DEF PushCopy
    <2>2. CASE PushCommit
      BY <2>2, CommitPushes DEF Fifo!ChNext
    <2>3. CASE PopCommit
      BY <2>3, CommitPops DEF Fifo!ChNext
    <2>4. CASE UNCHANGED <<mem, delivered>>
      BY <2>4 DEF mem, Contents
    <2>5. QED
      BY <2>1, <2>2, <2>3, <2>4 DEF Next, Writer, Reader, PushBegin, PushFull,
         PopBegin, PopEmpty, PopCopy, WriterCrash, ReaderCrash, vars
  <1>3. QED
    BY <1>1, <1>2, Invariance, PTL DEF Spec, FifoSpec, Fifo!ChSpec

-----------------------------------------------------------------------------
(***************************************************************************)
(* The session cannot lock up, for every ring capacity, table size, burst  *)
(* and batch size with RoomAssumption.  WorkBounded is inductive together  *)
(* with FlowTypeOK: the gatekeeper only moves work from l2g to the table,  *)
(* to its batch and to g2l, or loses it; a push of the logic engine adds   *)
(* one unit and owes one less; a completed drain leaves g2l empty, so that *)
(* all work is in l2g and the table.  If both sides were blocked, both     *)
(* rings would be full: more work than that.                               *)
(***************************************************************************)

FlowInv == FlowTypeOK /\ WorkBounded

LEMMA Constants ==
    /\ Cap \in Nat /\ MaxInflight \in Nat /\ MaxBurst \in Nat /\ Batch \in Nat
    /\ MaxCrashes \in Nat /\ Batch <= Cap
    /\ MaxInflight > 0 /\ MaxBurst > 0 /\ Batch > 0
  BY PipelineAssumption

(* What c crashes may add grows by one burst per crash.                    *)
LEMMA CrashTerm ==
    ASSUME NEW c \in 0..MaxCrashes
    PROVE  /\ c * MaxBurst \in Nat
           /\ (c + 1) * MaxBurst = c * MaxBurst + MaxBurst
           /\ c * MaxBurst <= MaxCrashes * MaxBurst
           /\ 0 * MaxBurst = 0
  <1>1. PICK d \in Nat : c + d = MaxCrashes
    <2>1. MaxCrashes - c \in Nat
      BY Constants
    <2>2. QED
      BY <2>1, Constants
  <1>2. c * MaxBurst \in Nat /\ d * MaxBurst \in Nat
    BY Constants
  <1>3. (c + d) * MaxBurst = c * MaxBurst + d * MaxBurst
    BY Constants
  <1>4. QED
    BY <1>1, <1>2, <1>3, Constants

LEMMA FlowInvInit == FlowInit => FlowInv
  BY Constants, CrashTerm DEF FlowInit, FlowInv, FlowTypeOK, WorkBounded, Work, Owed

(* The steps of the logic engine.                                          *)
LEMMA LogicInv ==
    ASSUME FlowInv, LogicStep
    PROVE  FlowInv'
  <1> DEFINE crashWork == crashes * MaxBurst
  <1>1. crashWork \in Nat
    BY CrashTerm DEF FlowInv, FlowTypeOK
  <1>2. CASE LogicBurst
    <2>1. UNCHANGED <<l2g, g2l, gpc, pend, inflight, crashes, crashWork>>
      BY <1>2 DEF LogicBurst, gk
    <2>2. toPush' \in 1..MaxBurst /\ lpc = "top" /\ lpc' = "push"
      BY <1>2 DEF LogicBurst
    <2> HIDE DEF crashWork
    <2>3. Work <= Cap + MaxInflight + crashWork
      BY <2>2, <1>1, Constants DEF FlowInv, FlowTypeOK, WorkBounded, Owed, crashWork
    <2>4. Owed' = MaxBurst - toPush' + crashWork /\ Work' = Work
      BY <2>1, <2>2 DEF Owed, Work, crashWork
    <2>5. Work' <= Cap + MaxInflight + Owed'
      BY <2>2, <2>3, <2>4, <1>1, Constants DEF FlowInv, FlowTypeOK, Work
    <2>6. QED
      BY <2>1, <2>2, <2>5, Constants DEF FlowInv, FlowTypeOK, WorkBounded
  <1>3. CASE LogicSkip
    <2>1. /\ UNCHANGED <<l2g, g2l, gpc, pend, inflight, crashes, toPush, crashWork>>
          /\ lpc = "top" /\ lpc' = "drain"
      BY <1>3 DEF LogicSkip, gk
    <2> HIDE DEF crashWork
    <2>2. Work <= Cap + MaxInflight + crashWork
      BY <2>1, <1>1, Constants DEF FlowInv, FlowTypeOK, WorkBounded, Owed, crashWork
    <2>3. Owed' = MaxBurst + crashWork /\ Work' = Work
      BY <2>1, <1>1, Constants DEF Owed, Work, crashWork
    <2>4. Work' <= Cap + MaxInflight + Owed'
      BY <2>2, <2>3, <1>1, Constants DEF FlowInv, FlowTypeOK, Work
    <2>5. QED
      BY <2>1, <2>4 DEF FlowInv, FlowTypeOK, WorkBounded
  <1>4. CASE LogicPush
    <2>1. /\ UNCHANGED <<g2l, gpc, pend, inflight, crashes, crashWork>>
          /\ lpc = "push" /\ l2g + 1 <= Cap /\ l2g' = l2g + 1 /\ toPush' = toPush - 1
          /\ lpc' = IF toPush = 1 THEN "drain" ELSE "push"
      BY <1>4 DEF LogicPush, gk
    <2>2. toPush \in 1..MaxBurst
      BY <2>1, Constants DEF FlowInv, FlowTypeOK, WorkBounded
    <2> HIDE DEF crashWork
    <2>3. Work <= Cap + MaxInflight + (MaxBurst - toPush + crashWork)
      BY <2>1, <1>1, Constants DEF FlowInv, FlowTypeOK, WorkBounded, Owed, crashWork
    <2>4. Owed' = MaxBurst - toPush + 1 + crashWork /\ Work' = Work + 1
      BY <2>1, <2>2, <1>1, Constants DEF Owed, Work, crashWork, FlowInv, FlowTypeOK
    <2>5. Work' <= Cap + MaxInflight + Owed'
      BY <2>2, <2>3, <2>4, <1>1, Constants DEF FlowInv, FlowTypeOK, Work
    <2>6. FlowTypeOK' /\ (lpc' = "push" => toPush' > 0)
      BY <2>1, <2>2, Constants DEF FlowInv, FlowTypeOK
    <2>7. QED
      BY <2>1, <2>5, <2>6 DEF FlowInv, WorkBounded
  <1>5. CASE LogicDrain
    <2>1. /\ UNCHANGED <<l2g, lpc, toPush, gpc, pend, inflight, crashes>>
          /\ g2l' = IF g2l < Batch THEN 0 ELSE g2l - Batch
      BY <1>5 DEF LogicDrain, logic, gk
    <2>2. g2l' \in 0..Cap /\ g2l' <= g2l
      BY <2>1, Constants DEF FlowInv, FlowTypeOK
    <2>3. Owed' = Owed /\ Work' <= Work
      BY <2>1, <2>2 DEF Owed, Work, FlowInv, FlowTypeOK
    <2>4. Owed \in Int
      BY <1>1, Constants DEF Owed, FlowInv, FlowTypeOK
    <2>5. Work \in Int /\ Work' \in Int
      BY <2>1, <2>2 DEF Work, FlowInv, FlowTypeOK
    <2>6. Work' <= Cap + MaxInflight + Owed'
      BY <2>3, <2>4, <2>5, Constants DEF FlowInv, WorkBounded
    <2>7. QED
      BY <2>1, <2>2, <2>6 DEF FlowInv, FlowTypeOK, WorkBounded
  <1>6. CASE LogicDrained
    <2>1. /\ UNCHANGED <<l2g, g2l, toPush, gpc, pend, inflight>>
          /\ g2l = 0 /\ crashes' = 0 /\ lpc' = "top"
      BY <1>6 DEF LogicDrained, gk
    <2>2. Owed' = 0
      BY <2>1, CrashTerm, Constants DEF Owed
    <2>3. Work' <= Cap + MaxInflight
      BY <2>1, Constants DEF FlowInv, FlowTypeOK, WorkBounded, Work
    <2>4. QED
      BY <2>1, <2>2, <2>3, Constants DEF FlowInv, FlowTypeOK, WorkBounded
  <1>7. QED
    BY <1>2, <1>3, <1>4, <1>5, <1>6 DEF LogicStep

(* The steps of the gatekeeper move work on, or lose it.                   *)
LEMMA GkInv ==
    ASSUME FlowInv, GkStep
    PROVE  FlowInv'
  <1>1. /\ UNCHANGED <<lpc, toPush, crashes>>
        /\ FlowTypeOK'
        /\ pend' + inflight' <= MaxInflight
        /\ gpc' # "push" => pend' = 0
        /\ Work' <= Work
    <2>1. CASE GkPop
      <3>1. /\ UNCHANGED <<g2l, pend, lpc, toPush, crashes>> /\ gpc' = "recv"
        BY <2>1 DEF GkPop, logic
      <3>2. PICK n \in 0..Batch, reaped \in 0..inflight, fresh \in 0..Batch, dropped \in 0..Batch :
               /\ n = IF l2g < Batch THEN l2g ELSE Batch
               /\ fresh <= n /\ dropped <= n
               /\ inflight - reaped + fresh <= MaxInflight
               /\ inflight - reaped + fresh - dropped >= 0
               /\ l2g' = l2g - n
               /\ inflight' = inflight - reaped + fresh - dropped
        BY <2>1 DEF GkPop
      <3>3. pend = 0
        BY <2>1 DEF GkPop, FlowInv, WorkBounded
      <3>4. QED
        BY <3>1, <3>2, <3>3, Constants DEF FlowInv, FlowTypeOK, Work
    <2>2. CASE GkRecv
      BY <2>2, Constants DEF GkRecv, logic, FlowInv, FlowTypeOK, WorkBounded, Work
    <2>3. CASE GkRecvEmpty
      BY <2>3 DEF GkRecvEmpty, logic, FlowInv, FlowTypeOK, WorkBounded, Work
    <2>4. CASE GkPush
      BY <2>4, Constants DEF GkPush, logic, FlowInv, FlowTypeOK, WorkBounded, Work
    <2>5. QED
      BY <2>1, <2>2, <2>3, <2>4 DEF GkStep
  <1>2. Owed' = Owed
    BY <1>1 DEF Owed
  <1>3. Owed \in Int
    <2>1. crashes * MaxBurst \in Nat
      BY CrashTerm DEF FlowInv, FlowTypeOK
    <2>2. QED
      BY <2>1, Constants DEF Owed, FlowInv, FlowTypeOK
  <1>4. Work \in Int /\ Work' \in Int
    BY <1>1 DEF Work, FlowInv, FlowTypeOK
  <1>5. Work' <= Cap + MaxInflight + Owed'
    BY <1>1, <1>2, <1>3, <1>4, Constants DEF FlowInv, WorkBounded
  <1>6. QED
    BY <1>1, <1>5 DEF FlowInv, WorkBounded

LEMMA FlowCrashStep ==
    ASSUME FlowInv, LogicCrash \/ GkCrash
    PROVE  FlowInv'
  <1>1. /\ crashes < MaxCrashes /\ crashes' = crashes + 1
        /\ crashes \in 0..MaxCrashes /\ crashes' \in 0..MaxCrashes
    BY Constants DEF LogicCrash, GkCrash, FlowInv, FlowTypeOK
  <1>2. PICK c \in Nat : /\ c = crashes * MaxBurst
                         /\ crashes' * MaxBurst = c + MaxBurst
    BY <1>1, CrashTerm
  <1>3. CASE LogicCrash
    <2>1. /\ UNCHANGED <<l2g, g2l, gpc, pend, inflight>>
          /\ lpc' = "top" /\ toPush' = 0
      BY <1>3 DEF LogicCrash, gk
    <2>2. Owed <= c + MaxBurst /\ Owed \in Int
      BY <1>2, Constants DEF Owed, FlowInv, FlowTypeOK
    <2>3. Owed' = c + MaxBurst
      BY <1>2, <2>1, Constants DEF Owed
    <2>4. Work' = Work /\ Work \in Int
      BY <2>1 DEF Work, FlowInv, FlowTypeOK
    <2>5. Work' <= Cap + MaxInflight + Owed'
      BY <1>2, <2>2, <2>3, <2>4, Constants DEF FlowInv, WorkBounded
    <2>6. QED
      BY <1>1, <2>1, <2>5, Constants DEF FlowInv, FlowTypeOK, WorkBounded
  <1>4. CASE GkCrash
    <2>1. /\ UNCHANGED <<l2g, g2l, lpc, toPush>>
          /\ gpc' = "pop" /\ pend' = 0 /\ inflight' = 0
      BY <1>4 DEF GkCrash, logic
    <2>2. Owed \in Int /\ Owed' = Owed + MaxBurst
      BY <1>2, <2>1, Constants DEF Owed, FlowInv, FlowTypeOK
    <2>3. Work' <= Work /\ Work \in Int /\ Work' \in Int
      BY <2>1 DEF Work, FlowInv, FlowTypeOK
    <2>4. Work' <= Cap + MaxInflight + Owed'
      BY <2>2, <2>3, Constants DEF FlowInv, WorkBounded
    <2>5. QED
      BY <1>1, <2>1, <2>4, Constants DEF FlowInv, FlowTypeOK, WorkBounded
  <1>5. QED
    BY <1>3, <1>4

LEMMA FlowInvStep == FlowInv /\ [FlowNext]_flowVars => FlowInv'
  <1> SUFFICES ASSUME FlowInv, [FlowNext]_flowVars PROVE FlowInv'
    OBVIOUS
  <1>1. CASE UNCHANGED flowVars
    BY <1>1 DEF flowVars, logic, gk, FlowInv, FlowTypeOK, WorkBounded, Work, Owed
  <1>2. QED
    BY <1>1, LogicInv, GkInv, FlowCrashStep DEF FlowNext

LEMMA InvNoCircularWait == FlowInv => NoCircularWait
  <1> SUFFICES ASSUME FlowInv, LogicBlocked, GkBlocked PROVE FALSE
    BY DEF NoCircularWait
  <1>1. PICK c \in Nat : c = crashes * MaxBurst
    BY CrashTerm DEF FlowInv, FlowTypeOK
  <1>2. PICK m \in Nat : m = MaxCrashes * MaxBurst
    BY Constants
  <1>3. c <= m
    BY <1>1, <1>2, CrashTerm DEF FlowInv, FlowTypeOK
  <1>4. Cap >= MaxInflight + m + MaxBurst
    <2>1. (MaxCrashes + 1) * MaxBurst = MaxCrashes * MaxBurst + MaxBurst
      BY Constants
    <2>2. QED
      BY <1>2, <2>1, RoomAssumption, Constants
  <1>5. Owed = MaxBurst - toPush + c
    BY <1>1 DEF LogicBlocked, Owed
  <1>6. Work <= Cap + MaxInflight + (MaxBurst - toPush + c)
    BY <1>5 DEF FlowInv, WorkBounded
  <1>7. /\ toPush \in Nat /\ toPush > 0
        /\ l2g \in Nat /\ g2l \in Nat /\ pend \in Nat /\ inflight \in Nat
        /\ l2g + 1 > Cap /\ g2l + pend > Cap
    BY Constants DEF LogicBlocked, GkBlocked, FlowInv, FlowTypeOK, WorkBounded
  <1>8. QED
    BY <1>3, <1>4, <1>6, <1>7, Constants DEF Work

(* The rings, the table and the burst of a session stay within their       *)
(* bounds (ring guards of shm_ring.h, MAX_BURST, NSR_GK_MAX_INFLIGHT).     *)
THEOREM FlowTypeCorrect == FlowSpec => []FlowTypeOK
  <1>1. FlowInv => FlowTypeOK
    BY DEF FlowInv
  <1>2. QED
    BY <1>1, FlowInvInit, FlowInvStep, PTL DEF FlowSpec

(* The amount of work in a session is bounded by one full ring, one full   *)
(* table and the bursts since the last completed drain of logic.c.         *)
THEOREM WorkIsBounded == FlowSpec => []WorkBounded
  <1>1. FlowInv => WorkBounded
    BY DEF FlowInv
  <1>2. QED
    BY <1>1, FlowInvInit, FlowInvStep, PTL DEF FlowSpec

(* The spin loops of logic.c:247 and gatekeeper.c:390 never wait for each  *)
(* other, whatever the sizes, as long as RoomAssumption holds.             *)
THEOREM DeadlockFree == FlowSpec => []NoCircularWait
  BY InvNoCircularWait, FlowInvInit, FlowInvStep, PTL DEF FlowSpec
=============================================================================
