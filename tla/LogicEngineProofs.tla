-------------------------- MODULE LogicEngineProofs --------------------------
(***************************************************************************)
(* Proofs about LogicEngine for any number of hops and aliases, any burst  *)
(* limits and any timing constants: EvenProbing, TimeoutMeansSilence and   *)
(* HopsSound.                                                              *)
(*                                                                         *)
(* EvenProbing needs to know where in the round current_ttl is; HopsSound  *)
(* needs to know what the sums of the counters are after one of them has   *)
(* changed, which is what the lemmas on SumOf are for.                     *)
(***************************************************************************)
EXTENDS LogicEngine, SequenceTheorems, SetInduction

-----------------------------------------------------------------------------
(* What SumOf computes: the recursive definition has a solution, and the   *)
(* sum follows it.                                                         *)

LEMMA SumUnfolds ==
    ASSUME NEW f
    PROVE  /\ SumOf(f, 0) = 0
           /\ \A n \in Nat : SumOf(f, n + 1) = SumOf(f, n) + f[n + 1]
  <1> DEFINE Solves(g) == g = [n \in Nat |-> IF n = 0 THEN 0 ELSE g[n - 1] + f[n]]
             UpTo(h, n) == /\ h = [i \in 0..n |-> h[i]]
                           /\ h[0] = 0
                           /\ \A i \in 1..n : h[i] = h[i - 1] + f[i]
             Sum == CHOOSE g : Solves(g)
  <1>1. \A m : SumOf(f, m) = Sum[m]
    BY DEF SumOf
  <1>2. \A n \in Nat : \E h : UpTo(h, n)
    <2> DEFINE E == {n \in Nat : \E h : UpTo(h, n)}
    <2>1. 0 \in E
      <3>1. UpTo([i \in 0..0 |-> 0], 0)
        OBVIOUS
      <3>2. QED
        BY <3>1
    <2>2. ASSUME NEW n \in E PROVE n + 1 \in E
      <3>1. n \in Nat /\ n + 1 \in Nat
        OBVIOUS
      <3>2. PICK h : UpTo(h, n)
        OBVIOUS
      <3> DEFINE k == [i \in 0..(n + 1) |-> IF i <= n THEN h[i] ELSE h[n] + f[n + 1]]
      <3>3. k[0] = 0 /\ k[n + 1] = k[n] + f[n + 1]
        BY <3>1, <3>2
      <3>4. ASSUME NEW i \in 1..n PROVE k[i] = k[i - 1] + f[i]
        <4>1. i \in 0..(n + 1) /\ i - 1 \in 0..(n + 1) /\ i <= n /\ i - 1 <= n
          BY <3>1
        <4>2. k[i] = h[i] /\ k[i - 1] = h[i - 1]
          BY <4>1
        <4>3. QED
          BY <4>2, <3>2
      <3>5. k = [i \in 0..(n + 1) |-> k[i]]
        OBVIOUS
      <3>6. UpTo(k, n + 1)
        <4> HIDE DEF k
        <4>1. \A i \in 1..(n + 1) : i \in 1..n \/ (i = n + 1 /\ i - 1 = n)
          BY <3>1
        <4>2. \A i \in 1..(n + 1) : k[i] = k[i - 1] + f[i]
          BY <4>1, <3>3, <3>4
        <4>3. QED
          BY <3>3, <3>5, <4>2
      <3>7. QED
        BY <3>1, <3>6
    <2>3. E = Nat
      <3> HIDE DEF E
      <3>1. E \subseteq Nat
        BY DEF E
      <3>2. QED
        BY <2>1, <2>2, <3>1, NatSetInduction
    <2>4. QED
      BY <2>3
  <1>3. ASSUME NEW g, NEW h, NEW n \in Nat, NEW k \in Nat, UpTo(g, n), UpTo(h, k)
        PROVE  \A i \in Nat : i <= n /\ i <= k => g[i] = h[i]
    <2> DEFINE E == {i \in Nat : i <= n /\ i <= k => g[i] = h[i]}
    <2>1. 0 \in E
      BY <1>3
    <2>2. ASSUME NEW i \in E PROVE i + 1 \in E
      <3>1. CASE i + 1 <= n /\ i + 1 <= k
        <4>1. g[i + 1] = g[i] + f[i + 1] /\ h[i + 1] = h[i] + f[i + 1]
          <5>1. i + 1 \in 1..n /\ i + 1 \in 1..k /\ (i + 1) - 1 = i
            BY <3>1
          <5>2. QED
            BY <5>1, <1>3
        <4>2. QED
          BY <3>1, <4>1
      <3>2. QED
        BY <3>1
    <2>3. E = Nat
      <3> HIDE DEF E
      <3>1. E \subseteq Nat
        BY DEF E
      <3>2. QED
        BY <2>1, <2>2, <3>1, NatSetInduction
    <2>4. QED
      BY <2>3
  <1> DEFINE Of(n) == CHOOSE h : UpTo(h, n)
             G == [n \in Nat |-> Of(n)[n]]
  <1>4. \A n \in Nat : UpTo(Of(n), n)
    BY <1>2
  <1>5. Solves(G)
    <2>1. G[0] = 0
      BY <1>4
    <2>2. ASSUME NEW n \in Nat, n # 0 PROVE G[n] = G[n - 1] + f[n]
      <3> HIDE DEF Of
      <3>0. n - 1 \in Nat
        BY <2>2
      <3>1. n - 1 \in Nat /\ UpTo(Of(n), n) /\ UpTo(Of(n - 1), n - 1)
        <4> HIDE DEF UpTo
        <4>1. QED
          BY <1>4, <3>0
      <3>2. Of(n)[n - 1] = Of(n - 1)[n - 1]
        <4> HIDE DEF UpTo
        <4>1. QED
          BY <3>1, <1>3
      <3>3. Of(n)[n] = Of(n)[n - 1] + f[n]
        <4>1. n \in 1..n
          BY <2>2
        <4>2. \A i \in 1..n : Of(n)[i] = Of(n)[i - 1] + f[i]
          BY <3>1
        <4>3. QED
          BY <4>1, <4>2
      <3>4. QED
        BY <3>1, <3>2, <3>3
    <2>3. QED
      <3> HIDE DEF Of
      <3>1. G = [n \in Nat |-> G[n]]
        BY Zenon
      <3> HIDE DEF G
      <3>2. \A n \in Nat : G[n] = IF n = 0 THEN 0 ELSE G[n - 1] + f[n]
        BY <2>1, <2>2
      <3>3. QED
        BY <3>1, <3>2
  <1>6. Solves(Sum)
    <2> HIDE DEF Solves, G
    <2>1. QED
      BY <1>5
  <1>7. ASSUME NEW n \in Nat
        PROVE  Sum[n] = IF n = 0 THEN 0 ELSE Sum[n - 1] + f[n]
    <2> HIDE DEF Sum
    <2>1. QED
      BY <1>6
  <1> HIDE DEF Sum
  <1>8. Sum[0] = 0
    BY <1>7
  <1>9. ASSUME NEW n \in Nat
        PROVE  Sum[n + 1] = Sum[n] + f[n + 1]
    <2>1. n + 1 \in Nat /\ n + 1 # 0 /\ (n + 1) - 1 = n
      OBVIOUS
    <2>2. QED
      BY <2>1, <1>7
  <1>10. QED
    BY <1>1, <1>8, <1>9

(* Two summands that differ in one place give sums that differ by as much. *)
LEMMA SumChange ==
    ASSUME NEW m \in Nat, NEW f, NEW g, NEW k \in Nat \ {0},
           \A i \in 1..m : f[i] \in Nat /\ g[i] \in Nat /\ (i # k => g[i] = f[i])
    PROVE  /\ SumOf(f, m) \in Nat /\ SumOf(g, m) \in Nat
           /\ k \in 1..m => SumOf(g, m) = SumOf(f, m) + g[k] - f[k]
           /\ k \notin 1..m => SumOf(g, m) = SumOf(f, m)
  <1> DEFINE P(n) == /\ SumOf(f, n) \in Nat /\ SumOf(g, n) \in Nat
                     /\ k <= n => SumOf(g, n) = SumOf(f, n) + g[k] - f[k]
                     /\ n < k => SumOf(g, n) = SumOf(f, n)
             E == {n \in Nat : n <= m => P(n)}
  <1>1. 0 \in E
    BY SumUnfolds
  <1>2. ASSUME NEW n \in E PROVE n + 1 \in E
    <2>1. CASE n + 1 <= m
      <3>1. n \in Nat /\ n + 1 \in 1..m /\ n <= m
        BY <2>1
      <3>2. SumOf(f, n + 1) = SumOf(f, n) + f[n + 1] /\ SumOf(g, n + 1) = SumOf(g, n) + g[n + 1]
        BY <3>1, SumUnfolds
      <3>3. P(n)
        BY <3>1
      <3>4. /\ f[n + 1] \in Nat /\ g[n + 1] \in Nat /\ (n + 1 # k => g[n + 1] = f[n + 1])
            /\ k <= m => f[k] \in Nat /\ g[k] \in Nat
        BY <3>1
      <3>5. CASE k <= n
        BY <3>1, <3>2, <3>3, <3>4, <3>5
      <3>6. CASE k = n + 1
        BY <3>1, <3>2, <3>3, <3>4, <3>6
      <3>7. CASE k > n + 1
        BY <3>1, <3>2, <3>3, <3>4, <3>7
      <3>8. QED
        BY <3>1, <3>5, <3>6, <3>7
    <2>2. CASE ~(n + 1 <= m)
      BY <2>2
    <2>3. QED
      BY <2>1, <2>2
  <1>3. E = Nat
    <2> HIDE DEF E
    <2>1. E \subseteq Nat
      BY DEF E
    <2>2. QED
      BY <1>1, <1>2, <2>1, NatSetInduction
  <1>4. P(m)
    BY <1>3
  <1>5. QED
    BY <1>4

(* The total that adjust_pacing compares is a number.                      *)
LEMMA TotalSentNat ==
    ASSUME \A t \in TTL : hops[t].sent \in Nat
    PROVE  TotalSent \in Nat
  <1> DEFINE f == [t \in TTL |-> hops[t].sent]
  <1>1. \A i \in 1..MaxTTL : f[i] \in Nat
    BY DEF TTL
  <1> HIDE DEF f
  <1>2. SumOf(f, MaxTTL) \in Nat
    BY <1>1, SumChange, LogicAssumption
  <1>3. QED
    BY <1>2 DEF TotalSent, f

-----------------------------------------------------------------------------
(* The aliases of a hop.                                                   *)

LEMMA AliasSum ==
    ASSUME NEW al \in Seq(Alias)
    PROVE  AliasRecv(al) \in Nat /\ (al = <<>> => AliasRecv(al) = 0)
  <1> DEFINE f == [i \in DOMAIN al |-> al[i].recv]
  <1>1. Len(al) \in Nat /\ DOMAIN al = 1..Len(al) /\ \A i \in 1..Len(al) : al[i] \in Alias
    BY ElementOfSeq, LenProperties
  <1>2. \A i \in 1..Len(al) : f[i] \in Nat
    BY <1>1 DEF Alias
  <1> HIDE DEF f
  <1>3. SumOf(f, Len(al)) \in Nat /\ (Len(al) = 0 => SumOf(f, Len(al)) = 0)
    BY <1>1, <1>2, SumChange, SumUnfolds
  <1>4. QED
    BY <1>3 DEF AliasRecv, f

LEMMA AliasAppend ==
    ASSUME NEW al \in Seq(Alias), NEW e \in Alias
    PROVE  AliasRecv(Append(al, e)) = AliasRecv(al) + e.recv
  <1> DEFINE b == Append(al, e)
             n == Len(al)
             f == [i \in DOMAIN al |-> al[i].recv]
             g == [i \in DOMAIN b |-> b[i].recv]
  <1>1. n \in Nat /\ DOMAIN al = 1..n /\ \A i \in 1..n : al[i] \in Alias
    BY ElementOfSeq, LenProperties
  <1>2. /\ b \in Seq(Alias) /\ Len(b) = n + 1
        /\ \A i \in 1..n : b[i] = al[i]
        /\ b[n + 1] = e
    BY AppendProperties
  <1>3. DOMAIN b = 1..(n + 1)
    BY <1>2, LenProperties
  <1> HIDE DEF b
  <1>4. \A i \in 1..n : f[i] \in Nat /\ g[i] = f[i]
    BY <1>1, <1>2, <1>3 DEF Alias
  <1>5. g[n + 1] = e.recv
    BY <1>1, <1>2, <1>3
  <1> HIDE DEF f, g, n
  <1>6. SumOf(g, n) = SumOf(f, n)
    <2>1. n + 1 \in Nat \ {0} /\ n + 1 \notin 1..n
      BY <1>1
    <2>2. QED
      BY <1>1, <1>4, <2>1, SumChange
  <1>7. SumOf(g, n + 1) = SumOf(g, n) + e.recv
    BY <1>1, <1>5, SumUnfolds
  <1>8. QED
    BY <1>2, <1>6, <1>7 DEF AliasRecv, f, g, n, b

LEMMA AliasReplace ==
    ASSUME NEW al \in Seq(Alias), NEW b \in Seq(Alias), NEW k \in DOMAIN al,
           Len(b) = Len(al), \A i \in DOMAIN al : i # k => b[i] = al[i]
    PROVE  AliasRecv(b) = AliasRecv(al) + b[k].recv - al[k].recv
  <1> DEFINE n == Len(al)
             f == [i \in DOMAIN al |-> al[i].recv]
             g == [i \in DOMAIN b |-> b[i].recv]
  <1>1. /\ n \in Nat /\ DOMAIN al = 1..n /\ DOMAIN b = 1..n
        /\ \A i \in 1..n : al[i] \in Alias /\ b[i] \in Alias
    BY ElementOfSeq, LenProperties
  <1>2. \A i \in 1..n : f[i] \in Nat /\ g[i] \in Nat /\ (i # k => g[i] = f[i])
    BY <1>1 DEF Alias
  <1>3. k \in 1..n /\ k \in Nat \ {0} /\ f[k] = al[k].recv /\ g[k] = b[k].recv
    BY <1>1
  <1> HIDE DEF f, g, n
  <1>4. SumOf(g, n) = SumOf(f, n) + g[k] - f[k]
    BY <1>1, <1>2, <1>3, SumChange
  <1>5. QED
    BY <1>3, <1>4 DEF AliasRecv, f, g, n

(* There is a first alias with the fewest answers.                         *)
LEMMA LeastSeenExists ==
    ASSUME NEW al \in Seq(Alias), al # <<>>
    PROVE  LeastSeen(al) \in DOMAIN al
  <1>1. Len(al) \in Nat \ {0} /\ DOMAIN al = 1..Len(al) /\ \A i \in DOMAIN al : al[i] \in Alias
    BY ElementOfSeq, LenProperties, EmptySeq
  <1>2. \A i \in DOMAIN al : i \in Nat /\ al[i].recv \in Nat
    BY <1>1 DEF Alias
  <1> DEFINE V == {al[i].recv : i \in DOMAIN al}
  <1>3. PICK v \in V : \A w \in V : v <= w
    <2>1. V \subseteq Nat
      BY <1>2
    <2>2. al[1].recv \in V
      BY <1>1
    <2> HIDE DEF V
    <2>3. QED
      BY <2>1, <2>2, NatSetLeast
  <1> DEFINE I == {i \in DOMAIN al : al[i].recv = v}
  <1>4. PICK k \in I : \A i \in I : k <= i
    <2>1. I \subseteq Nat /\ I # {}
      BY <1>2, <1>3
    <2> HIDE DEF I
    <2>2. QED
      BY <2>1, NatSetLeast
  <1>5. k \in DOMAIN al /\ al[k].recv = v /\ v \in Nat /\ k \in Nat
    BY <1>2
  <1>6. \A j \in DOMAIN al : al[k].recv <= al[j].recv /\ (j < k => al[k].recv < al[j].recv)
    <2> TAKE j \in DOMAIN al
    <2>1. v <= al[j].recv
      BY <1>3
    <2>2. j < k => al[j].recv # v
      BY <1>2, <1>4, <1>5
    <2>3. QED
      BY <1>2, <1>5, <2>1, <2>2
  <1>7. QED
    BY <1>5, <1>6, Zenon DEF LeastSeen

Hop == [sent : Nat, recv : Nat, addr : Addr \cup {NoAddr}, primary_recv : Nat,
        aliases : Seq(Alias), status : Answers \cup {"NONE", "TIMEOUT"}]

(* HopsSound for one hop of which `lag' answers are counted in recv and    *)
(* not yet with an address; a hop without an address has counted none.     *)
HopSound(h, lag) ==
    /\ h \in Hop
    /\ Len(h.aliases) <= MaxAliases
    /\ h.aliases # <<>> => h.addr # NoAddr
    /\ h.addr = NoAddr => h.primary_recv = 0
    /\ \A i \in DOMAIN h.aliases : h.aliases[i].addr # h.addr
    /\ \A i, j \in DOMAIN h.aliases : h.aliases[i].addr = h.aliases[j].addr => i = j
    /\ h.primary_recv + AliasRecv(h.aliases) + lag <= h.recv
    /\ Len(h.aliases) < MaxAliases => h.primary_recv + AliasRecv(h.aliases) + lag = h.recv

(* Entering an answer restores it: the one alias of that address, a new    *)
(* one, or the one it displaces is all that changes.                       *)
LEMMA AliasStep ==
    ASSUME NEW h, NEW a \in Addr, HopSound(h, 1)
    PROVE  /\ HopSound(add_or_update_alias(h, a), 0)
           /\ add_or_update_alias(h, a).sent = h.sent
           /\ add_or_update_alias(h, a).status = h.status
  <1> DEFINE al == h.aliases
             k  == add_or_update_alias(h, a)
             e  == [addr |-> a, recv |-> 1]
  <1>1. /\ h \in Hop /\ al \in Seq(Alias) /\ h.recv \in Nat /\ h.primary_recv \in Nat
        /\ h.addr \in Addr \cup {NoAddr} /\ a # NoAddr
        /\ MaxAliases \in Nat \ {0} /\ Len(al) <= MaxAliases
    BY LogicAssumption DEF HopSound, Hop
  <1>2. /\ Len(al) \in Nat /\ DOMAIN al = 1..Len(al) /\ AliasRecv(al) \in Nat
        /\ \A i \in DOMAIN al : al[i] \in Alias
    BY <1>1, ElementOfSeq, LenProperties, AliasSum
  <1>3. \A i \in DOMAIN al : al[i].recv \in Nat \ {0} /\ al[i].addr \in Addr
    BY <1>2 DEF Alias
  <1>4. e \in Alias /\ e.addr = a /\ e.recv = 1
    BY DEF Alias
  <1> HIDE DEF e
  <1>0. /\ h.primary_recv + AliasRecv(al) + 1 <= h.recv
        /\ Len(al) < MaxAliases => h.primary_recv + AliasRecv(al) + 1 = h.recv
        /\ \A i \in DOMAIN al : al[i].addr # h.addr
        /\ \A i, j \in DOMAIN al : al[i].addr = al[j].addr => i = j
    BY DEF HopSound
  <1>5. CASE h.addr = NoAddr
    <2>1. k = [h EXCEPT !.addr = a, !.primary_recv = 1]
      BY <1>5 DEF add_or_update_alias
    <2>2. al = <<>> /\ h.primary_recv = 0
      BY <1>5 DEF HopSound
    <2>3. /\ k \in Hop /\ k.addr = a /\ k.primary_recv = 1 /\ k.aliases = al
          /\ k.recv = h.recv /\ k.sent = h.sent /\ k.status = h.status
      <3>1. 1 \in Nat /\ a \in Addr \cup {NoAddr}
        OBVIOUS
      <3>2. QED
        BY <1>1, <2>1, <3>1 DEF Hop
    <2> HIDE DEF k
    <2>4. AliasRecv(al) = 0
      BY <1>1, <2>2, AliasSum
    <2>5. Len(al) = 0 /\ DOMAIN al = {}
      <3>1. Len(al) = 0
        BY <2>2
      <3>2. QED
        BY <1>2, <3>1
    <2>6. h.recv = 1
      BY <1>0, <1>1, <2>2, <2>4, <2>5
    <2> HIDE DEF al
    <2>8. HopSound(k, 0)
      BY <1>1, <2>2, <2>3, <2>4, <2>5, <2>6 DEF HopSound
    <2>7. QED
      BY <2>3, <2>8 DEF k
  <1>6. CASE h.addr # NoAddr /\ h.addr = a
    <2>1. k = [h EXCEPT !.primary_recv = @ + 1]
      BY <1>6 DEF add_or_update_alias
    <2>2. /\ k \in Hop /\ k.addr = a /\ k.primary_recv = h.primary_recv + 1 /\ k.aliases = al
          /\ k.recv = h.recv /\ k.sent = h.sent /\ k.status = h.status
      BY <1>1, <1>6, <2>1 DEF Hop
    <2> HIDE DEF k
    <2>3. HopSound(k, 0)
      <3> HIDE DEF al
      <3>1. k.primary_recv + AliasRecv(al) + 0 = h.primary_recv + AliasRecv(al) + 1
        BY <1>1, <1>2, <2>2
      <3>2. QED
        BY <1>0, <1>1, <1>6, <2>2, <3>1 DEF HopSound
    <2>4. QED
      BY <2>2, <2>3 DEF k
  <1>7. CASE h.addr \notin {NoAddr, a}
    <2>1. ASSUME NEW b \in Seq(Alias), k = [h EXCEPT !.aliases = b],
                 Len(b) <= MaxAliases, Len(al) <= Len(b),
                 \A i \in DOMAIN b : b[i].addr # h.addr,
                 \A i, j \in DOMAIN b : b[i].addr = b[j].addr => i = j,
                 AliasRecv(b) <= AliasRecv(al) + 1,
                 Len(b) < MaxAliases => AliasRecv(b) = AliasRecv(al) + 1
          PROVE  HopSound(k, 0) /\ k.sent = h.sent /\ k.status = h.status
      <3>1. /\ k \in Hop /\ k.addr = h.addr /\ k.primary_recv = h.primary_recv /\ k.aliases = b
            /\ k.recv = h.recv /\ k.sent = h.sent /\ k.status = h.status
        BY <1>1, <2>1 DEF Hop
      <3>2. Len(b) \in Nat /\ AliasRecv(b) \in Nat
        BY AliasSum, LenProperties
      <3> HIDE DEF k
      <3>3. h.primary_recv + AliasRecv(b) + 0 <= h.recv
        BY <1>0, <1>1, <1>2, <2>1, <3>2
      <3>4. Len(b) < MaxAliases => h.primary_recv + AliasRecv(b) + 0 = h.recv
        <4>1. Len(b) < MaxAliases => Len(al) < MaxAliases
          BY <1>1, <1>2, <2>1, <3>2
        <4>2. Len(b) < MaxAliases => /\ AliasRecv(b) = AliasRecv(al) + 1
                                     /\ h.primary_recv + AliasRecv(al) + 1 = h.recv
          BY <1>0, <2>1, <4>1
        <4> HIDE DEF al
        <4>3. QED
          BY <1>1, <1>2, <3>2, <4>2
      <3>5. HopSound(k, 0)
        BY <1>7, <2>1, <3>1, <3>3, <3>4 DEF HopSound
      <3>6. QED
        BY <3>1, <3>5
    <2>2. CASE \E i \in DOMAIN al : al[i].addr = a
      <3>1. PICK n \in DOMAIN al : al[n].addr = a
        BY <2>2
      <3> DEFINE c == [al[n] EXCEPT !.recv = @ + 1]
                 b == [al EXCEPT ![n] = c]
      <3>2. \A i \in DOMAIN al : al[i].addr = a => i = n
        BY <3>1 DEF HopSound
      <3>3. b = [i \in DOMAIN al |-> IF al[i].addr = a THEN [al[i] EXCEPT !.recv = @ + 1] ELSE al[i]]
        BY <3>1, <3>2
      <3>4. k = [h EXCEPT !.aliases = b]
        <4>1. k = [h EXCEPT !.aliases = [i \in DOMAIN al |->
                        IF al[i].addr = a THEN [al[i] EXCEPT !.recv = @ + 1] ELSE al[i]]]
          BY <1>7, <2>2 DEF add_or_update_alias
        <4>2. QED
          BY <3>3, <4>1
      <3>5. c \in Alias /\ c.addr = a /\ c.recv = al[n].recv + 1
        BY <1>2, <1>3, <3>1 DEF Alias
      <3> HIDE DEF c
      <3>6. /\ b \in Seq(Alias) /\ Len(b) = Len(al) /\ DOMAIN b = DOMAIN al /\ b[n] = c
            /\ \A i \in DOMAIN al : i # n => b[i] = al[i]
        BY <1>1, <1>2, <3>5, ExceptSeq, LenProperties
      <3> HIDE DEF b, k
      <3>7. AliasRecv(b) = AliasRecv(al) + 1
        <4>1. AliasRecv(b) = AliasRecv(al) + b[n].recv - al[n].recv
          BY <1>1, <3>6, AliasReplace
        <4>2. QED
          BY <1>2, <1>3, <3>5, <3>6, <4>1
      <3>8. \A i \in DOMAIN b : b[i].addr = al[i].addr
        BY <3>1, <3>5, <3>6
      <3>9. /\ \A i \in DOMAIN b : b[i].addr # h.addr
            /\ \A i, j \in DOMAIN b : b[i].addr = b[j].addr => i = j
        BY <3>6, <3>8 DEF HopSound
      <3>10. Len(b) <= MaxAliases /\ Len(al) <= Len(b)
        BY <1>1, <1>2, <2>1, <3>6
      <3>11. HopSound(k, 0) /\ k.sent = h.sent /\ k.status = h.status
        <4>1. AliasRecv(b) <= AliasRecv(al) + 1
          BY <1>2, <3>7
        <4>2. QED
          BY <2>1, <3>4, <3>6, <3>7, <3>9, <3>10, <4>1
      <3>12. QED
        BY <3>11 DEF k
    <2>3. CASE (\A i \in DOMAIN al : al[i].addr # a) /\ Len(al) < MaxAliases
      <3> DEFINE b == Append(al, e)
      <3>1. k = [h EXCEPT !.aliases = b]
        BY <1>7, <2>3 DEF add_or_update_alias, e
      <3>2. /\ b \in Seq(Alias) /\ Len(b) = Len(al) + 1
            /\ \A i \in 1..Len(al) : b[i] = al[i]
            /\ b[Len(al) + 1] = e
        BY <1>1, <1>4, AppendProperties
      <3>3. DOMAIN b = 1..(Len(al) + 1)
        BY <3>2, LenProperties
      <3>4. AliasRecv(b) = AliasRecv(al) + 1
        BY <1>1, <1>4, AliasAppend
      <3> HIDE DEF b, k
      <3>5. \A i \in DOMAIN b : (i \in DOMAIN al /\ b[i] = al[i]) \/ (i = Len(al) + 1 /\ b[i] = e)
        BY <1>2, <3>2, <3>3
      <3>6. \A i \in DOMAIN b : b[i].addr # h.addr
        BY <1>4, <1>7, <3>5 DEF HopSound
      <3>7. \A i, j \in DOMAIN b : b[i].addr = b[j].addr => i = j
        BY <1>4, <2>3, <3>5 DEF HopSound
      <3>8. Len(b) <= MaxAliases /\ Len(al) <= Len(b)
        BY <1>1, <1>2, <2>3, <3>2
      <3>9. HopSound(k, 0) /\ k.sent = h.sent /\ k.status = h.status
        <4>1. AliasRecv(b) <= AliasRecv(al) + 1
          BY <1>2, <3>4
        <4>2. QED
          BY <2>1, <3>1, <3>2, <3>4, <3>6, <3>7, <3>8, <4>1
      <3>10. QED
        BY <3>9 DEF k
    <2>4. CASE (\A i \in DOMAIN al : al[i].addr # a) /\ ~(Len(al) < MaxAliases)
      <3> DEFINE n == LeastSeen(al)
                 b == [al EXCEPT ![n] = e]
      <3>1. k = [h EXCEPT !.aliases = b]
        BY <1>1, <1>7, <2>4 DEF add_or_update_alias, e, Hop
      <3>2. n \in DOMAIN al
        <4>1. al # <<>>
          BY <1>1, <1>2, <2>4
        <4>2. QED
          BY <1>1, <4>1, LeastSeenExists
      <3> HIDE DEF n
      <3>3. /\ b \in Seq(Alias) /\ Len(b) = Len(al) /\ DOMAIN b = DOMAIN al /\ b[n] = e
            /\ \A i \in DOMAIN al : i # n => b[i] = al[i]
        BY <1>1, <1>2, <1>4, <3>2, ExceptSeq, LenProperties
      <3> HIDE DEF b, k
      <3>4. AliasRecv(b) <= AliasRecv(al) + 1
        <4>1. AliasRecv(b) = AliasRecv(al) + b[n].recv - al[n].recv
          BY <1>1, <3>2, <3>3, AliasReplace
        <4>2. QED
          BY <1>2, <1>3, <1>4, <3>2, <3>3, <4>1
      <3>5. \A i \in DOMAIN b : b[i].addr # h.addr
        BY <1>4, <1>7, <3>3 DEF HopSound
      <3>6. \A i, j \in DOMAIN b : b[i].addr = b[j].addr => i = j
        BY <1>4, <2>4, <3>3 DEF HopSound
      <3>7. Len(b) <= MaxAliases /\ Len(al) <= Len(b)
        BY <1>1, <1>2, <2>1, <3>3
      <3>8. HopSound(k, 0) /\ k.sent = h.sent /\ k.status = h.status
        <4>1. ~(Len(b) < MaxAliases)
          BY <2>4, <3>3
        <4>2. QED
          BY <2>1, <3>1, <3>3, <3>4, <3>5, <3>6, <3>7, <4>1
      <3>9. QED
        BY <3>8 DEF k
    <2>5. QED
      BY <2>2, <2>3, <2>4 DEF k
  <1>8. QED
    BY <1>5, <1>6, <1>7

-----------------------------------------------------------------------------
(* The invariant.                                                          *)

(* TypeOK without the hops.                                                *)
Counters ==
    /\ now \in Nat /\ nowUs \in Nat /\ start \in Nat /\ lastProbe \in Nat
    /\ pc \in {"top", "build", "drain"}
    /\ lastRecv \in [TTL -> Nat]
    /\ ttl \in TTL /\ left \in 0..MaxBurst
    /\ burst \in MinBurst..MaxBurst /\ lastAdjust \in Nat /\ lastSent \in Nat
    /\ paused \in BOOLEAN

Hops == hops \in [TTL -> Hop] /\ \A t \in TTL : HopSound(hops[t], 0)

(* The hops before current_ttl have had their probe of this round.         *)
InRound == \E n \in Nat : \A t \in TTL : hops[t].sent = IF t < ttl THEN n + 1 ELSE n

(* Nothing is stamped with a time to come.                                 *)
Stamped == start <= now /\ \A t \in TTL : lastRecv[t] <= now

LogicInv == Counters /\ Hops /\ InRound /\ Stamped /\ TimeoutMeansSilence

LEMMA InitInv == Init => LogicInv
  <1> SUFFICES ASSUME Init PROVE LogicInv
    OBVIOUS
  <1>1. /\ MaxTTL \in Nat \ {0} /\ MinBurst \in Nat \ {0} /\ MaxAliases \in Nat \ {0}
        /\ MaxBurst \in Nat /\ InitBurst \in MinBurst..MaxBurst
    BY LogicAssumption
  <1>2. Counters
    <2>1. 1 \in TTL /\ 0 \in 0..MaxBurst
      BY <1>1 DEF TTL
    <2>2. now = 1 /\ nowUs = 1 /\ start = 1 /\ pc = "top" /\ lastRecv \in [TTL -> Nat]
      BY DEF Init
    <2>3. /\ ttl = 1 /\ left = 0 /\ lastProbe = 0 /\ burst = InitBurst /\ lastAdjust = 0
          /\ lastSent = 0 /\ paused = FALSE
      BY DEF Init
    <2>4. QED
      BY <1>1, <2>1, <2>2, <2>3 DEF Counters
  <1>3. HopSound(NoHop, 0)
    <2>1. <<>> \in Seq(Alias) /\ Len(<<>>) = 0 /\ DOMAIN <<>> = {}
      BY EmptySeq
    <2>2. AliasRecv(<<>>) = 0
      BY <2>1, AliasSum
    <2>3. /\ NoHop \in Hop /\ NoHop.aliases = <<>> /\ NoHop.addr = NoAddr
          /\ NoHop.primary_recv = 0 /\ NoHop.recv = 0
      BY <2>1 DEF NoHop, Hop
    <2>4. QED
      BY <1>1, <2>1, <2>2, <2>3 DEF HopSound
  <1>4. Hops
    BY <1>3 DEF Init, Hops, HopSound
  <1>5. \A t \in TTL : hops[t].sent = 0 /\ ~(t < ttl) /\ hops[t].status = "NONE"
    BY DEF Init, NoHop, TTL
  <1>6. InRound /\ TimeoutMeansSilence
    BY <1>5 DEF InRound, TimeoutMeansSilence
  <1>7. Stamped
    BY DEF Init, Stamped
  <1>8. QED
    BY <1>2, <1>4, <1>6, <1>7 DEF LogicInv

(* Pacing keeps the burst within its limits; the sweep only marks hops.    *)
LEMMA TopInv ==
    ASSUME LogicInv, Top
    PROVE  LogicInv'
  <1>1. Counters /\ Hops /\ InRound /\ Stamped /\ TimeoutMeansSilence
    BY DEF LogicInv
  <1>2. TotalSent \in Nat
    BY <1>1, TotalSentNat DEF Hops, Hop
  <1>3. burst' \in MinBurst..MaxBurst /\ lastAdjust' \in Nat /\ lastSent' \in Nat
    <2>1. MinBurst \in Nat \ {0} /\ MaxBurst \in Nat
      BY LogicAssumption
    <2>2. Decreased \in MinBurst..MaxBurst /\ Increased \in MinBurst..MaxBurst
      BY <1>1, <2>1 DEF Counters, Decreased, Increased
    <2>3. QED
      BY <1>1, <1>2, <2>2 DEF Top, adjust_pacing, pacing, Counters
  <1>4. left' \in 0..MaxBurst /\ pc' \in {"build", "drain"}
    <2>1. MinBurst \in Nat \ {0} /\ MaxBurst \in Nat
      BY LogicAssumption
    <2>2. QED
      BY <1>1, <1>3, <2>1 DEF Top, Counters
  <1>5. Counters'
    BY <1>1, <1>3, <1>4 DEF Top, Counters
  <1>6. /\ hops' = [t \in TTL |-> IF Expired(t, now) THEN [hops[t] EXCEPT !.status = "TIMEOUT"] ELSE hops[t]]
        /\ now' = now /\ lastRecv' = lastRecv /\ start' = start /\ ttl' = ttl
    BY DEF Top, sweep_timeouts
  <1>7. ASSUME NEW t \in TTL
        PROVE  /\ HopSound(hops'[t], 0) /\ hops'[t].sent = hops[t].sent
               /\ hops'[t] \in Hop
               /\ hops'[t].status = "TIMEOUT" => hops[t].status = "TIMEOUT" \/ now - LastActivity(t) > Window
    <2>1. hops[t] \in Hop /\ HopSound(hops[t], 0)
      BY <1>1 DEF Hops
    <2>2. CASE Expired(t, now)
      <3>1. hops'[t] = [hops[t] EXCEPT !.status = "TIMEOUT"]
        BY <1>6, <2>2
      <3>2. /\ hops'[t] \in Hop /\ hops'[t].sent = hops[t].sent /\ hops'[t].recv = hops[t].recv
            /\ hops'[t].addr = hops[t].addr /\ hops'[t].aliases = hops[t].aliases
            /\ hops'[t].primary_recv = hops[t].primary_recv
        BY <2>1, <3>1 DEF Hop
      <3>3. HopSound(hops'[t], 0)
        BY <2>1, <3>2 DEF HopSound
      <3>4. QED
        BY <2>2, <3>2, <3>3 DEF Expired
    <2>3. CASE ~Expired(t, now)
      BY <1>6, <2>1, <2>3
    <2>4. QED
      BY <2>2, <2>3
  <1>8. Hops'
    BY <1>6, <1>7 DEF Hops
  <1>9. InRound' /\ Stamped'
    BY <1>1, <1>6, <1>7 DEF InRound, Stamped
  <1>10. TimeoutMeansSilence'
    BY <1>1, <1>6, <1>7 DEF TimeoutMeansSilence, LastActivity
  <1>11. QED
    BY <1>5, <1>8, <1>9, <1>10 DEF LogicInv

(* A probe goes to current_ttl, which moves on, or starts the next round.  *)
LEMMA BuildInv ==
    ASSUME LogicInv, Build
    PROVE  LogicInv'
  <1>1. Counters /\ Hops /\ InRound /\ Stamped /\ TimeoutMeansSilence
    BY DEF LogicInv
  <1>2. /\ hops' = [hops EXCEPT ![ttl].sent = @ + 1] /\ ttl' = NextTtl(ttl)
        /\ now' = now /\ lastRecv' = lastRecv /\ start' = start
    BY DEF Build
  <1>3. MaxTTL \in Nat \ {0} /\ ttl \in TTL
    BY <1>1, LogicAssumption DEF Counters
  <1>4. ttl' \in TTL
    BY <1>2, <1>3 DEF NextTtl, TTL
  <1>5. Counters'
    <2>1. left' \in 0..MaxBurst
      BY <1>1, LogicAssumption DEF Build, Counters
    <2>2. QED
      BY <1>1, <1>4, <2>1 DEF Build, Counters, pacing
  <1>6. /\ HopSound(hops'[ttl], 0) /\ hops'[ttl].sent = hops[ttl].sent + 1
        /\ hops'[ttl].status = hops[ttl].status
        /\ \A t \in TTL : t # ttl => hops'[t] = hops[t]
    <2>1. hops[ttl] \in Hop /\ HopSound(hops[ttl], 0)
      BY <1>1, <1>3 DEF Hops
    <2>2. /\ hops'[ttl] = [hops[ttl] EXCEPT !.sent = @ + 1]
          /\ \A t \in TTL : t # ttl => hops'[t] = hops[t]
      BY <1>1, <1>2, <1>3 DEF Hops
    <2>3. /\ hops'[ttl] \in Hop /\ hops'[ttl].sent = hops[ttl].sent + 1 /\ hops'[ttl].recv = hops[ttl].recv
          /\ hops'[ttl].addr = hops[ttl].addr /\ hops'[ttl].aliases = hops[ttl].aliases
          /\ hops'[ttl].primary_recv = hops[ttl].primary_recv
          /\ hops'[ttl].status = hops[ttl].status
      BY <2>1, <2>2 DEF Hop
    <2>4. HopSound(hops'[ttl], 0)
      BY <2>1, <2>3 DEF HopSound
    <2>5. QED
      BY <2>2, <2>3, <2>4
  <1>7. Hops'
    <2>1. \A t \in TTL : HopSound(hops'[t], 0)
      BY <1>1, <1>6 DEF Hops
    <2>2. \A t \in TTL : hops'[t] \in Hop
      BY <2>1 DEF HopSound
    <2>3. QED
      BY <1>1, <1>2, <2>1, <2>2 DEF Hops
  <1>8. InRound'
    <2>1. PICK n \in Nat : \A t \in TTL : hops[t].sent = IF t < ttl THEN n + 1 ELSE n
      BY <1>1 DEF InRound
    <2>2. hops[ttl].sent = n /\ hops'[ttl].sent = n + 1
      BY <1>3, <1>6, <2>1 DEF TTL
    <2>3. CASE ttl + 1 > MaxTTL
      <3>1. ttl' = 1
        BY <1>2, <2>3 DEF NextTtl
      <3>2. \A t \in TTL : hops'[t].sent = n + 1 /\ ~(t < 1)
        BY <1>3, <1>6, <2>1, <2>2, <2>3 DEF TTL
      <3>3. n + 1 \in Nat
        BY <2>1
      <3>4. QED
        BY <3>1, <3>2, <3>3 DEF InRound
    <2>4. CASE ~(ttl + 1 > MaxTTL)
      <3>1. ttl' = ttl + 1
        BY <1>2, <2>4 DEF NextTtl
      <3>2. \A t \in TTL : hops'[t].sent = IF t < ttl + 1 THEN n + 1 ELSE n
        BY <1>3, <1>6, <2>1, <2>2 DEF TTL
      <3>3. QED
        BY <2>1, <3>1, <3>2 DEF InRound
    <2>5. QED
      BY <2>3, <2>4
  <1>9. Stamped' /\ TimeoutMeansSilence'
    BY <1>1, <1>2, <1>6 DEF Stamped, TimeoutMeansSilence, LastActivity
  <1>10. QED
    BY <1>5, <1>7, <1>8, <1>9 DEF LogicInv

(* An answer is stamped with the clock of that moment.                     *)
LEMMA UpdateInv ==
    ASSUME LogicInv, NEW t \in TTL, NEW type \in Answers, NEW a \in Addr, update_state(t, type, a)
    PROVE  LogicInv'
  <1> DEFINE h == [hops[t] EXCEPT !.recv = @ + 1, !.status = type]
  <1>1. Counters /\ Hops /\ InRound /\ Stamped /\ TimeoutMeansSilence
    BY DEF LogicInv
  <1>2. /\ hops' = [hops EXCEPT ![t] = add_or_update_alias(h, a)]
        /\ lastRecv' = [lastRecv EXCEPT ![t] = now]
        /\ now' = now /\ start' = start /\ ttl' = ttl
    BY DEF update_state
  <1>3. Counters'
    BY <1>1, <1>2 DEF update_state, Counters, pacing
  <1>4. hops[t] \in Hop /\ HopSound(hops[t], 0)
    BY <1>1 DEF Hops
  <1>5. /\ h \in Hop /\ h.recv = hops[t].recv + 1 /\ h.status = type /\ h.sent = hops[t].sent
        /\ h.addr = hops[t].addr /\ h.aliases = hops[t].aliases
        /\ h.primary_recv = hops[t].primary_recv
    <2>1. hops[t].recv + 1 \in Nat /\ type \in Answers \cup {"NONE", "TIMEOUT"}
      BY <1>4 DEF Hop
    <2>2. QED
      BY <1>4, <2>1 DEF Hop
  <1> HIDE DEF h
  <1>6. HopSound(h, 1)
    <2>1. hops[t].recv \in Nat /\ hops[t].primary_recv \in Nat /\ AliasRecv(hops[t].aliases) \in Nat
      BY <1>4, AliasSum DEF Hop
    <2>2. /\ h.primary_recv + AliasRecv(h.aliases) + 1 <= h.recv
          /\ Len(h.aliases) < MaxAliases => h.primary_recv + AliasRecv(h.aliases) + 1 = h.recv
      BY <1>4, <1>5, <2>1 DEF HopSound
    <2>3. QED
      BY <1>4, <1>5, <2>2 DEF HopSound
  <1>7. /\ HopSound(hops'[t], 0) /\ hops'[t].sent = hops[t].sent /\ hops'[t].status = type
        /\ \A u \in TTL : u # t => hops'[u] = hops[u]
    <2>1. /\ hops'[t] = add_or_update_alias(h, a)
          /\ \A u \in TTL : u # t => hops'[u] = hops[u]
      BY <1>1, <1>2 DEF Hops
    <2>2. QED
      BY <1>5, <1>6, <2>1, AliasStep
  <1>8. Hops'
    <2>1. \A u \in TTL : HopSound(hops'[u], 0)
      BY <1>1, <1>7 DEF Hops
    <2>2. \A u \in TTL : hops'[u] \in Hop
      BY <2>1 DEF HopSound
    <2>3. QED
      BY <1>1, <1>2, <2>1, <2>2 DEF Hops
  <1>9. InRound'
    <2>1. \A u \in TTL : hops'[u].sent = hops[u].sent
      BY <1>7
    <2>2. QED
      BY <1>1, <1>2, <2>1 DEF InRound
  <1>10. Stamped'
    BY <1>1, <1>2 DEF Stamped, Counters
  <1>11. TimeoutMeansSilence'
    <2>1. type # "TIMEOUT"
      BY DEF Answers
    <2>2. \A u \in TTL : u # t => lastRecv'[u] = lastRecv[u]
      BY <1>1, <1>2 DEF Counters
    <2>3. QED
      BY <1>1, <1>2, <1>7, <2>1, <2>2 DEF TimeoutMeansSilence, LastActivity
  <1>12. QED
    BY <1>3, <1>8, <1>9, <1>10, <1>11 DEF LogicInv

(* The steps that leave the hops alone.                                    *)
LEMMA OtherInv ==
    ASSUME LogicInv, Pushed \/ Drained \/ handle_sigusr1 \/ Tick
    PROVE  LogicInv'
  <1>1. Counters /\ Hops /\ InRound /\ Stamped /\ TimeoutMeansSilence
    BY DEF LogicInv
  <1>2. /\ hops' = hops /\ lastRecv' = lastRecv /\ start' = start /\ ttl' = ttl
        /\ now' \in {now, now + 1}
    BY DEF Pushed, Drained, handle_sigusr1, Tick
  <1>3. now \in Nat /\ start \in Nat /\ (\A t \in TTL : lastRecv[t] \in Nat) /\ Window \in Nat
    BY <1>1, LogicAssumption DEF Counters
  <1>4. now' \in Nat /\ nowUs' \in Nat /\ lastProbe' \in Nat /\ left' = left
    BY <1>1, <1>3 DEF Pushed, Drained, handle_sigusr1, Tick, Counters
  <1>5. /\ pc' \in {"top", "build", "drain"} /\ paused' \in BOOLEAN
        /\ burst' = burst /\ lastAdjust' = lastAdjust /\ lastSent' = lastSent
    BY <1>1 DEF Pushed, Drained, handle_sigusr1, Tick, Counters, pacing
  <1>6. Counters'
    BY <1>1, <1>2, <1>4, <1>5 DEF Counters
  <1>7. Hops' /\ InRound'
    BY <1>1, <1>2 DEF Hops, InRound
  <1>8. Stamped'
    BY <1>1, <1>2, <1>3 DEF Stamped
  <1>9. TimeoutMeansSilence'
    <2>1. \A t \in TTL : LastActivity(t)' = LastActivity(t) /\ LastActivity(t) \in Nat
      BY <1>2, <1>3 DEF LastActivity
    <2>2. QED
      BY <1>1, <1>2, <1>3, <2>1 DEF TimeoutMeansSilence
  <1>10. QED
    BY <1>6, <1>7, <1>8, <1>9 DEF LogicInv

LEMMA Invariance == Spec => []LogicInv
  <1>1. LogicInv /\ [Next]_vars => LogicInv'
    <2> SUFFICES ASSUME LogicInv, [Next]_vars PROVE LogicInv'
      OBVIOUS
    <2>1. CASE UNCHANGED vars
      BY <2>1 DEF LogicInv, Counters, Hops, InRound, Stamped, TimeoutMeansSilence, LastActivity,
                  vars, pacing
    <2>2. CASE Next
      BY <2>2, TopInv, BuildInv, UpdateInv, OtherInv DEF Next
    <2>3. QED
      BY <2>1, <2>2
  <1>2. QED
    BY <1>1, InitInv, PTL DEF Spec

-----------------------------------------------------------------------------
(* The theorems.                                                           *)

(* However nsr_logic_run cuts its rounds into bursts, and whatever pauses  *)
(* and changes of the burst come in between, a hop is never more than one  *)
(* probe ahead of a farther one and never behind it.                       *)
THEOREM ProbedEvenly == Spec => []EvenProbing
  <1>1. LogicInv => EvenProbing
    <2> SUFFICES ASSUME LogicInv, NEW i \in TTL, NEW j \in TTL, i < j
                 PROVE  hops[i].sent - hops[j].sent \in {0, 1}
      BY DEF EvenProbing
    <2>1. PICK n \in Nat : \A t \in TTL : hops[t].sent = IF t < ttl THEN n + 1 ELSE n
      BY DEF LogicInv, InRound
    <2>2. i \in Nat /\ j \in Nat /\ ttl \in Nat
      BY LogicAssumption DEF LogicInv, Counters, TTL
    <2>3. QED
      BY <2>1, <2>2
  <1>2. QED
    BY <1>1, Invariance, PTL

(* A hop that sweep_timeouts has marked has been silent for more than the  *)
(* window ever since.                                                      *)
THEOREM TimedOutIsSilent == Spec => []TimeoutMeansSilence
  <1>1. LogicInv => TimeoutMeansSilence
    BY DEF LogicInv
  <1>2. QED
    BY <1>1, Invariance, PTL

(* The addresses that add_or_update_alias keeps for a hop are distinct,    *)
(* within the table's size, and their counters add up to what the hop has  *)
(* received, short only by what an evicted alias took with it; and the     *)
(* burst stays within the limits of g_pacing.                              *)
THEOREM HopsAreSound == Spec => []HopsSound
  <1>1. LogicInv => HopsSound
    <2> SUFFICES ASSUME LogicInv PROVE HopsSound
      OBVIOUS
    <2>1. TypeOK
      BY DEF LogicInv, Counters, Hops, Hop, TypeOK
    <2>2. ASSUME NEW t \in TTL
          PROVE  /\ Len(hops[t].aliases) <= MaxAliases
                 /\ hops[t].aliases # <<>> => hops[t].addr # NoAddr
                 /\ \A i \in DOMAIN hops[t].aliases : hops[t].aliases[i].addr # hops[t].addr
                 /\ \A i, j \in DOMAIN hops[t].aliases :
                       hops[t].aliases[i].addr = hops[t].aliases[j].addr => i = j
                 /\ hops[t].primary_recv + AliasRecv(hops[t].aliases) <= hops[t].recv
                 /\ Len(hops[t].aliases) < MaxAliases =>
                       hops[t].primary_recv + AliasRecv(hops[t].aliases) = hops[t].recv
      <3>1. HopSound(hops[t], 0)
        BY DEF LogicInv, Hops
      <3>2. hops[t].primary_recv \in Nat /\ AliasRecv(hops[t].aliases) \in Nat
        BY <3>1, AliasSum DEF HopSound, Hop
      <3>3. hops[t].primary_recv + AliasRecv(hops[t].aliases) + 0
               = hops[t].primary_recv + AliasRecv(hops[t].aliases)
        BY <3>2
      <3>4. QED
        BY <3>1, <3>3 DEF HopSound
    <2>3. QED
      BY <2>1, <2>2 DEF HopsSound
  <1>2. QED
    BY <1>1, Invariance, PTL

=============================================================================
