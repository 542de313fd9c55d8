---------------------------- MODULE PluginProofs ----------------------------
(* Proofs about two plugins that keep a state: GeoIP and percentile.       *)
EXTENDS GeoIp, Percentile, SequenceTheorems, SetInduction

(***************************************************************************)
(* Proofs about GeoIp for every table size, hash function, set of          *)
(* addresses and capacity of the pipes: CacheSound, LookedUpOnce and       *)
(* AnswersComplete.                                                        *)
(*                                                                         *)
(* The invariant has two parts.  TableInv is the one of open addressing    *)
(* without removal: the slots before an address on its way from its hash   *)
(* are taken.  PipeInv follows an address from the screen to the answer:   *)
(* one that a request names has been looked up, or will be before the      *)
(* request is read.                                                        *)
(***************************************************************************)

Text  == Place \cup {Unknown, NoText}
Entry == [valid : BOOLEAN, ip : Addr, text : Text]
Line  == [kind : {"init", "render"}] \cup [kind : {"tel", "hops"}, hops : Hops]
Reply == [kind : {"init", "render"}] \cup [kind : {"hops"}, hops : Hops, text : [1..MaxHops -> Text]]

Stored(ip) == \E s \in Slot : cache[s].ip = ip

(* The slot belongs to the address, and the search comes by.               *)
Reached(h, c, ip, s) ==
    \E i \in Steps : (h[ip] + i) % CacheSize = s /\ \A j \in 0..(i - 1) : c[(h[ip] + j) % CacheSize].valid

TableInv ==
    /\ hash \in [Ip -> Slot] /\ cache \in [Slot -> Entry] /\ told \in [Ip -> Text]
    /\ \A s \in Slot :
          \/ cache[s] = Invalid
          \/ /\ cache[s].valid /\ cache[s].ip \in Ip
             /\ cache[s].text = told[cache[s].ip] /\ cache[s].text # NoText
             /\ Reached(hash, cache, cache[s].ip, s)
             /\ \A t \in Slot : cache[t].ip = cache[s].ip => t = s
    /\ \A a \in Ip : told[a] # NoText => Stored(a) \/ Full
    /\ again \subseteq Ip /\ \A a \in again : told[a] # NoText /\ Full /\ ~Stored(a)

Named(ip, hops) == \E i \in DOMAIN hops : hops[i] = ip

(* ip is known, or is looked up before line k of sq is read.               *)
Ahead(tl, td, sq, ip, k) ==
    \/ tl[ip] # NoText
    \/ Named(ip, td)
    \/ \E j \in DOMAIN sq : j < k /\ sq[j].kind = "tel" /\ Named(ip, sq[j].hops)

RequestsAhead(tl, td, sq) ==
    \A k \in DOMAIN sq : sq[k].kind = "hops" =>
        \A i \in 1..MaxHops : sq[k].hops[i] \in Ip => Ahead(tl, td, sq, sq[k].hops[i], k)

ViewAhead(tl, td, sq, v) == \A i \in 1..MaxHops : v[i] \in Ip => Ahead(tl, td, sq, v[i], Len(sq) + 1)

(* The annotation of a hop: that of its address, or none because the table *)
(* has no place for it.                                                    *)
Annotated(tl, c, ip, text) ==
    IF ip = NoAddr THEN text = NoText
    ELSE /\ tl[ip] # NoText
         /\ \/ text = tl[ip]
            \/ text = NoText /\ \A s \in Slot : c[s].valid /\ c[s].ip # ip

AnswersKnown(tl, c, so) ==
    \A k \in DOMAIN so : so[k].kind = "hops" =>
        \A i \in 1..MaxHops : Annotated(tl, c, so[k].hops[i], so[k].text[i])

(* The first line is init, and nothing is answered before it.              *)
InitFirst ==
    \A k \in DOMAIN stdin : stdin[k].kind = "init" => pc = "init" /\ k = 1 /\ stdout = <<>>

PipeTypes ==
    /\ todo \in Seq(Addr) /\ Len(todo) <= MaxHops
    /\ stdin \in Seq(Line) /\ Len(stdin) <= PipeCap
    /\ stdout \in Seq(Reply) /\ Len(stdout) <= AnswerCap
    /\ pc \in {"init", "tel", "drain_hops", "ask_hops", "drain_render", "ask_render"}
    /\ view \in Hops /\ asked \subseteq {"hops", "render"}
    /\ shown \in [hops : Hops, text : [1..MaxHops -> Text]]

PipeInv ==
    /\ PipeTypes /\ InitFirst
    /\ RequestsAhead(told, todo, stdin)
    /\ pc \in {"drain_hops", "ask_hops"} => ViewAhead(told, todo, stdin, view)
    /\ AnswersKnown(told, cache, stdout)

GeoInv == TableInv /\ PipeInv

-----------------------------------------------------------------------------
(* The search through the table.                                           *)

LEMMA ProbeFacts ==
    ASSUME hash \in [Ip -> Slot], NEW ip \in Ip
    PROVE  /\ \A i \in Steps : Probe(ip, i) \in Slot
           /\ \A s \in Slot : \E i \in Steps : Probe(ip, i) = s
  <1> DEFINE h == hash[ip]
  <1>1. CacheSize \in Nat \ {0} /\ h \in 0..(CacheSize - 1)
    BY GeoAssumption DEF Slot
  <1>2. \A x \in 0..(2 * CacheSize - 1) :
           x % CacheSize = IF x < CacheSize THEN x ELSE x - CacheSize
    <2> TAKE x \in 0..(2 * CacheSize - 1)
    <2>1. CASE x < CacheSize
      BY <1>1, <2>1, SMT
    <2>2. CASE ~(x < CacheSize)
      BY <1>1, <2>2, SMT
    <2>3. QED
      BY <2>1, <2>2
  <1>3. \A i \in Steps : /\ h + i \in 0..(2 * CacheSize - 1)
                         /\ Probe(ip, i) = IF h + i < CacheSize THEN h + i ELSE h + i - CacheSize
    BY <1>1, <1>2 DEF Steps, Probe
  <1>4. \A i \in Steps : Probe(ip, i) \in Slot
    BY <1>1, <1>3 DEF Steps, Slot
  <1>5. ASSUME NEW s \in Slot PROVE \E i \in Steps : Probe(ip, i) = s
    <2>1. CASE h <= s
      <3>1. s - h \in Steps /\ h + (s - h) = s /\ s < CacheSize
        BY <1>1, <2>1 DEF Steps, Slot
      <3>2. QED
        BY <1>3, <3>1
    <2>2. CASE ~(h <= s)
      <3>1. s - h + CacheSize \in Steps /\ h + (s - h + CacheSize) = s + CacheSize
        BY <1>1, <2>2 DEF Steps, Slot
      <3>2. PICK i \in Steps : h + i = s + CacheSize
        BY <3>1
      <3>3. s \in Nat /\ ~(s + CacheSize < CacheSize) /\ s + CacheSize - CacheSize = s
        BY <1>1 DEF Slot
      <3>4. Probe(ip, i) = s
        <4>1. Probe(ip, i) = IF h + i < CacheSize THEN h + i ELSE h + i - CacheSize
          BY <1>3
        <4> HIDE DEF h
        <4>2. ~(h + i < CacheSize) /\ h + i - CacheSize = s
          BY <1>1, <3>2, <3>3 DEF Steps
        <4>3. QED
          BY <4>1, <4>2
      <3>5. QED
        BY <3>4
    <2>3. QED
      BY <2>1, <2>2
  <1>6. QED
    BY <1>4, <1>5

LEMMA FirstFacts ==
    ASSUME NEW S \in SUBSET Steps, S # {}
    PROVE  First(S) \in S /\ \A j \in S : First(S) <= j
  <1>1. S \subseteq Nat
    BY GeoAssumption DEF Steps
  <1>2. \E i \in S : \A j \in S : i <= j
    BY <1>1, NatSetLeast
  <1>3. QED
    BY <1>2, Zenon DEF First

(* What geo_cache_find returns, and what geo_cache_store would write: the  *)
(* two loops stop at the same slot.                                        *)
LEMMA Search ==
    ASSUME TableInv, NEW ip \in Ip
    PROVE  \/ /\ geo_cache_find(ip).valid
              /\ \E s \in Slot : cache[s].valid /\ cache[s].ip = ip /\ geo_cache_find(ip) = cache[s]
           \/ /\ ~Stored(ip) /\ Full
              /\ geo_cache_find(ip) = Invalid /\ \A x : geo_cache_store(ip, x) = cache
           \/ /\ ~Stored(ip) /\ geo_cache_find(ip) = Invalid
              /\ \E s \in Slot :
                    /\ cache[s] = Invalid /\ Reached(hash, cache, ip, s)
                    /\ \A x : geo_cache_store(ip, x)
                                 = [cache EXCEPT ![s] = [valid |-> TRUE, ip |-> ip, text |-> x]]
  <1> DEFINE stops == {i \in Steps : ~cache[Probe(ip, i)].valid \/ cache[Probe(ip, i)].ip = ip}
             f == First(stops)
             p == Probe(ip, f)
  <1>1. /\ \A i \in Steps : Probe(ip, i) \in Slot
        /\ \A s \in Slot : \E i \in Steps : Probe(ip, i) = s
    BY ProbeFacts DEF TableInv
  <1>2. ~Invalid.valid /\ Invalid.ip = NoAddr /\ Invalid.ip # ip
    BY GeoAssumption DEF Invalid, NoAddr
  <1>3. \A s \in Slot : cache[s].ip = ip => cache[s].valid /\ Reached(hash, cache, ip, s)
    BY <1>2 DEF TableInv
  <1>4. CASE stops = {}
    <2>1. geo_cache_find(ip) = Invalid /\ \A x : geo_cache_store(ip, x) = cache
      BY <1>4 DEF geo_cache_find, geo_cache_store
    <2>2. \A s \in Slot : cache[s].valid /\ cache[s].ip # ip
      BY <1>1, <1>4
    <2>3. QED
      BY <2>1, <2>2 DEF Full, Stored
  <1>5. CASE stops # {}
    <2>1. f \in stops /\ \A j \in stops : f <= j
      <3>1. stops \in SUBSET Steps
        OBVIOUS
      <3> HIDE DEF stops
      <3>2. QED
        BY <1>5, <3>1, FirstFacts
    <2>2. geo_cache_find(ip) = cache[p]
      BY <1>5 DEF geo_cache_find
    <2>3. \A x : geo_cache_store(ip, x) = [cache EXCEPT ![p] = [valid |-> TRUE, ip |-> ip, text |-> x]]
      BY <1>5 DEF geo_cache_store
    <2> HIDE DEF f
    <2>4. f \in Steps /\ p \in Slot
      BY <1>1, <2>1
    <2>5. CASE cache[p].ip = ip
      BY <1>3, <2>2, <2>4, <2>5
    <2>6. CASE cache[p].ip # ip
      <3>1. ~cache[p].valid
        BY <2>1, <2>6
      <3>2. cache[p] = Invalid
        BY <2>4, <3>1 DEF TableInv
      <3>3. Reached(hash, cache, ip, p)
        <4>1. ASSUME NEW j \in 0..(f - 1) PROVE cache[Probe(ip, j)].valid
          <5>1. j \in Steps /\ ~(f <= j)
            BY <2>4, GeoAssumption DEF Steps
          <5>2. QED
            BY <2>1, <5>1
        <4>2. QED
          BY <2>4, <4>1 DEF Reached, Probe
      <3>4. ~Stored(ip)
        <4>1. SUFFICES ASSUME NEW s \in Slot, cache[s].ip = ip PROVE FALSE
          BY DEF Stored
        <4>2. PICK i \in Steps : Probe(ip, i) = s /\ \A j \in 0..(i - 1) : cache[Probe(ip, j)].valid
          BY <1>3, <4>1 DEF Reached, Probe
        <4>3. i \in stops
          BY <4>1, <4>2
        <4>4. f <= i
          BY <2>1, <4>3
        <4>5. f # i
          BY <2>6, <4>1, <4>2
        <4>6. f \in 0..(i - 1)
          BY <2>4, <4>4, <4>5, GeoAssumption DEF Steps
        <4>7. QED
          BY <3>1, <4>2, <4>6
      <3>5. QED
        BY <2>2, <2>3, <2>4, <3>2, <3>3, <3>4
    <2>7. QED
      BY <2>5, <2>6
  <1>6. QED
    BY <1>4, <1>5

(* What a text that was looked up can be.                                  *)
LEMMA LookupText ==
    ASSUME NEW found \in Lookup
    PROVE  (IF found = Failed THEN Unknown ELSE found) \in Text \ {NoText}
  BY GeoAssumption DEF Lookup, local_lookup, web_lookup, Text, Failed, Unknown, NoText

(* A lookup: known texts stay as they are, the address becomes known, and  *)
(* a full table stays what it is.                                          *)
LEMMA ResolveInv ==
    ASSUME TableInv, NEW ip \in Addr, resolve_one(ip), hash' = hash
    PROVE  /\ TableInv'
           /\ \A a \in Ip : told[a] # NoText => told'[a] = told[a]
           /\ ip # NoAddr => told'[ip] # NoText
           /\ Full => cache' = cache
  <1>1. CASE ip = NoAddr \/ geo_cache_find(ip).valid
    <2>1. cache' = cache /\ told' = told /\ again' = again
      BY <1>1 DEF resolve_one, ghosts
    <2>2. TableInv'
      BY <2>1 DEF TableInv, Stored, Full
    <2>3. ip # NoAddr => told[ip] # NoText
      <3>1. SUFFICES ASSUME ip # NoAddr PROVE told[ip] # NoText
        OBVIOUS
      <3>2. ip \in Ip /\ geo_cache_find(ip).valid
        BY <1>1, <3>1 DEF Addr
      <3>3. ~Invalid.valid
        BY DEF Invalid
      <3>4. PICK s \in Slot : cache[s].valid /\ cache[s].ip = ip
        BY <3>2, <3>3, Search
      <3>5. QED
        BY <3>3, <3>4 DEF TableInv
    <2>4. QED
      BY <2>1, <2>2, <2>3
  <1>2. CASE ~(ip = NoAddr \/ geo_cache_find(ip).valid)
    <2>1. ip \in Ip
      BY <1>2 DEF Addr
    <2>2. PICK found \in Lookup :
             /\ cache' = Remember(ip, found)
             /\ told' = [told EXCEPT ![ip] = IF @ # NoText THEN @ ELSE IF found = Failed THEN Unknown ELSE found]
             /\ again' = IF told[ip] # NoText THEN again \cup {ip} ELSE again
      BY <1>2 DEF resolve_one
    <2> DEFINE x == IF found = Failed THEN Unknown ELSE found
    <2>3. x \in Text \ {NoText}
      BY LookupText
    <2>4. /\ cache' = geo_cache_store(ip, x)
          /\ told' = [told EXCEPT ![ip] = IF told[ip] # NoText THEN told[ip] ELSE x]
      BY <2>2 DEF Remember
    <2> HIDE DEF x
    <2>5. /\ told' \in [Ip -> Text]
          /\ \A a \in Ip : told[a] # NoText => told'[a] = told[a]
          /\ \A a \in Ip : a # ip => told'[a] = told[a]
          /\ told'[ip] # NoText /\ (told[ip] = NoText => told'[ip] = x)
      BY <2>1, <2>3, <2>4 DEF TableInv
    <2>6. CASE ~Stored(ip) /\ Full /\ cache' = cache
      <3>1. \A s \in Slot : cache[s].valid
        BY <2>6 DEF Full
      <3>2. ~Invalid.valid
        BY DEF Invalid
      <3>3. \A s \in Slot : cache[s].text # NoText /\ cache[s].ip \in Ip /\ cache[s].text = told'[cache[s].ip]
        BY <2>5, <3>1, <3>2 DEF TableInv
      <3>4. Full' /\ (\A a : Stored(a)' <=> Stored(a))
        BY <2>6 DEF Full, Stored
      <3>5. again' \subseteq Ip /\ \A a \in again' : told'[a] # NoText /\ Full' /\ ~Stored(a)'
        BY <2>1, <2>2, <2>5, <2>6, <3>4 DEF TableInv
      <3>6. QED
        BY <2>1, <2>5, <2>6, <3>1, <3>2, <3>3, <3>4, <3>5 DEF TableInv
    <2>7. CASE /\ ~Stored(ip)
               /\ \E s \in Slot :
                     /\ cache[s] = Invalid /\ Reached(hash, cache, ip, s)
                     /\ cache' = [cache EXCEPT ![s] = [valid |-> TRUE, ip |-> ip, text |-> x]]
      <3>1. PICK s \in Slot :
               /\ cache[s] = Invalid /\ Reached(hash, cache, ip, s)
               /\ cache' = [cache EXCEPT ![s] = [valid |-> TRUE, ip |-> ip, text |-> x]]
        BY <2>7
      <3> DEFINE e == [valid |-> TRUE, ip |-> ip, text |-> x]
      <3>2. e \in Entry /\ e.valid /\ e.ip = ip /\ e.text = x
        BY <2>1, <2>3 DEF Entry, Addr
      <3>3. ~Invalid.valid /\ Invalid.ip = NoAddr /\ NoAddr \notin Ip /\ e # Invalid
        BY GeoAssumption DEF Invalid, NoAddr
      <3> HIDE DEF e
      <3>4. /\ cache' \in [Slot -> Entry] /\ cache'[s] = e
            /\ \A t \in Slot : t # s => cache'[t] = cache[t]
        BY <3>1, <3>2 DEF TableInv, e
      <3>5. ~Full
        BY <3>1, <3>3 DEF Full
      <3>6. told[ip] = NoText /\ told'[ip] = x /\ again' = again /\ again = {}
        BY <2>1, <2>2, <2>5, <2>7, <3>5 DEF TableInv
      <3>7. \A t \in Slot : cache[t].valid => cache'[t].valid
        BY <3>2, <3>4
      <3>8. ASSUME NEW a \in Ip, NEW t \in Slot, Reached(hash, cache, a, t) PROVE Reached(hash, cache', a, t)
        <4>1. PICK i \in Steps : Probe(a, i) = t /\ \A j \in 0..(i - 1) : cache[Probe(a, j)].valid
          BY <3>8 DEF Reached, Probe
        <4>2. \A j \in 0..(i - 1) : j \in Steps
          BY GeoAssumption DEF Steps
        <4>3. \A j \in 0..(i - 1) : Probe(a, j) \in Slot
          BY <4>2, ProbeFacts DEF TableInv
        <4>4. QED
          BY <3>7, <4>1, <4>3 DEF Reached, Probe
      <3>9. \A t \in Slot : t # s => cache[t].ip # ip
        BY <2>7 DEF Stored
      <3>10. ASSUME NEW t \in Slot, cache'[t] # Invalid
             PROVE  /\ cache'[t].valid /\ cache'[t].ip \in Ip
                    /\ cache'[t].text = told'[cache'[t].ip] /\ cache'[t].text # NoText
                    /\ Reached(hash, cache', cache'[t].ip, t)
                    /\ \A u \in Slot : cache'[u].ip = cache'[t].ip => u = t
        <4>1. CASE t = s
          <5>1. \A u \in Slot : cache'[u].ip = ip => u = s
            BY <3>4, <3>9
          <5>2. Reached(hash, cache', ip, s)
            BY <2>1, <3>1, <3>8
          <5>3. QED
            BY <2>1, <2>3, <3>2, <3>4, <3>6, <4>1, <5>1, <5>2
        <4>2. CASE t # s
          <5>1. cache'[t] = cache[t]
            BY <3>4, <4>2
          <5>2. /\ cache[t].valid /\ cache[t].ip \in Ip
                /\ cache[t].text = told[cache[t].ip] /\ cache[t].text # NoText
                /\ Reached(hash, cache, cache[t].ip, t)
                /\ \A u \in Slot : cache[u].ip = cache[t].ip => u = t
            BY <3>10, <5>1 DEF TableInv
          <5>3. cache[t].ip # ip
            BY <3>9, <4>2
          <5>4. \A u \in Slot : cache'[u].ip = cache[t].ip => u = t
            BY <3>2, <3>4, <5>2, <5>3
          <5>5. Reached(hash, cache', cache[t].ip, t)
            BY <3>8, <5>2
          <5>6. QED
            BY <2>5, <5>1, <5>2, <5>3, <5>4, <5>5
        <4>3. QED
          BY <4>1, <4>2
      <3>11. \A a \in Ip : Stored(a) => Stored(a)'
        BY <3>1, <3>3, <3>4 DEF Stored
      <3>12. ASSUME NEW a \in Ip, told'[a] # NoText PROVE Stored(a)' \/ Full'
        <4>1. CASE a = ip
          BY <3>2, <3>4, <4>1 DEF Stored
        <4>2. CASE a # ip
          BY <2>5, <3>5, <3>11, <3>12, <4>2 DEF TableInv
        <4>3. QED
          BY <4>1, <4>2
      <3>13. TableInv'
        BY <2>5, <3>4, <3>6, <3>10, <3>12 DEF TableInv
      <3>14. QED
        BY <2>1, <2>5, <3>5, <3>13
    <2>8. QED
      <3>1. ~geo_cache_find(ip).valid
        BY <1>2
      <3>2. \/ ~Stored(ip) /\ Full /\ cache' = cache
            \/ /\ ~Stored(ip)
               /\ \E s \in Slot :
                     /\ cache[s] = Invalid /\ Reached(hash, cache, ip, s)
                     /\ cache' = [cache EXCEPT ![s] = [valid |-> TRUE, ip |-> ip, text |-> x]]
        BY <2>1, <2>4, <3>1, Search
      <3>3. QED
        BY <2>6, <2>7, <3>2
  <1>3. QED
    BY <1>1, <1>2

-----------------------------------------------------------------------------
(* The lines on their way through the pipes.                               *)

LEMMA LineFacts ==
    ASSUME NEW l \in Line
    PROVE  /\ l.kind \in {"init", "render", "tel", "hops"}
           /\ l.kind \in {"tel", "hops"} => l.hops \in Hops
  BY DEF Line

LEMMA ReplyFacts ==
    ASSUME NEW r \in Reply
    PROVE  /\ r.kind \in {"init", "render", "hops"}
           /\ r.kind = "hops" => r.hops \in Hops /\ r.text \in [1..MaxHops -> Text]
  BY DEF Reply

LEMMA HopsIsSeq ==
    ASSUME NEW hs \in Hops
    PROVE  hs \in Seq(Addr) /\ Len(hs) = MaxHops /\ DOMAIN hs = 1..MaxHops
  <1>1. MaxHops \in Nat
    BY GeoAssumption
  <1>2. QED
    BY <1>1, SeqDef, LenProperties DEF Hops

(* The plugin has worked on the first address of todo.                     *)
LEMMA AheadLearns ==
    ASSUME NEW tl, NEW tl2, NEW td \in Seq(Addr), NEW sq, NEW ip \in Ip, NEW k,
           td # <<>>, \A a \in Ip : tl[a] # NoText => tl2[a] = tl[a],
           Head(td) # NoAddr => tl2[Head(td)] # NoText,
           Ahead(tl, td, sq, ip, k)
    PROVE  Ahead(tl2, Tail(td), sq, ip, k)
  <1>1. CASE tl[ip] # NoText
    BY <1>1 DEF Ahead
  <1>2. CASE Named(ip, td)
    <2>1. PICK i \in DOMAIN td : td[i] = ip
      BY <1>2 DEF Named
    <2>2. /\ Len(td) \in Nat /\ DOMAIN td = 1..Len(td)
          /\ Tail(td) \in Seq(Addr) /\ Len(Tail(td)) = Len(td) - 1
          /\ \A n \in 1..Len(Tail(td)) : Tail(td)[n] = td[n + 1]
      BY LenProperties, HeadTailProperties
    <2>3. DOMAIN Tail(td) = 1..Len(Tail(td))
      BY <2>2, LenProperties
    <2>4. CASE i = 1
      <3>1. Head(td) = ip /\ ip # NoAddr
        BY <2>1, <2>4, GeoAssumption DEF NoAddr
      <3>2. QED
        BY <3>1 DEF Ahead
    <2>5. CASE i # 1
      <3>1. i - 1 \in DOMAIN Tail(td) /\ (i - 1) + 1 = i
        BY <2>1, <2>2, <2>3, <2>5
      <3>2. Tail(td)[i - 1] = ip
        BY <2>1, <2>2, <2>3, <3>1
      <3>3. QED
        BY <3>1, <3>2 DEF Ahead, Named
    <2>6. QED
      BY <2>4, <2>5
  <1>3. CASE \E j \in DOMAIN sq : j < k /\ sq[j].kind = "tel" /\ Named(ip, sq[j].hops)
    BY <1>3 DEF Ahead
  <1>4. QED
    BY <1>1, <1>2, <1>3 DEF Ahead

(* The plugin has read the first line, when todo was empty.                *)
LEMMA AheadRead ==
    ASSUME NEW tl, NEW td2, NEW sq \in Seq(Line), sq # <<>>, NEW ip \in Ip, NEW k \in Nat,
           Head(sq).kind = "tel" => td2 = Head(sq).hops,
           Ahead(tl, <<>>, sq, ip, k + 1)
    PROVE  Ahead(tl, td2, Tail(sq), ip, k)
  <1>1. CASE tl[ip] # NoText
    BY <1>1 DEF Ahead
  <1>2. ~Named(ip, <<>>)
    BY DEF Named
  <1>3. CASE \E j \in DOMAIN sq : j < k + 1 /\ sq[j].kind = "tel" /\ Named(ip, sq[j].hops)
    <2>1. PICK j \in DOMAIN sq : j < k + 1 /\ sq[j].kind = "tel" /\ Named(ip, sq[j].hops)
      BY <1>3
    <2>2. /\ Len(sq) \in Nat /\ DOMAIN sq = 1..Len(sq)
          /\ Tail(sq) \in Seq(Line) /\ Len(Tail(sq)) = Len(sq) - 1
          /\ \A n \in 1..Len(Tail(sq)) : Tail(sq)[n] = sq[n + 1]
      BY LenProperties, HeadTailProperties
    <2>3. DOMAIN Tail(sq) = 1..Len(Tail(sq))
      BY <2>2, LenProperties
    <2>4. CASE j = 1
      <3>1. Head(sq) = sq[1]
        OBVIOUS
      <3>2. QED
        BY <2>1, <2>4, <3>1 DEF Ahead
    <2>5. CASE j # 1
      <3>1. j - 1 \in DOMAIN Tail(sq) /\ (j - 1) + 1 = j /\ j - 1 < k
        BY <2>1, <2>2, <2>3, <2>5
      <3>2. Tail(sq)[j - 1] = sq[j]
        BY <2>2, <2>3, <3>1
      <3>3. QED
        BY <2>1, <3>1, <3>2 DEF Ahead
    <2>6. QED
      BY <2>4, <2>5
  <1>4. QED
    BY <1>1, <1>2, <1>3 DEF Ahead

(* The host has written a line.                                            *)
LEMMA AheadWritten ==
    ASSUME NEW tl, NEW td, NEW sq \in Seq(Line), NEW l \in Line, NEW ip, NEW k,
           Ahead(tl, td, sq, ip, k)
    PROVE  Ahead(tl, td, Append(sq, l), ip, k)
  <1>1. /\ Append(sq, l) \in Seq(Line) /\ Len(Append(sq, l)) = Len(sq) + 1
        /\ \A i \in 1..Len(sq) : Append(sq, l)[i] = sq[i]
        /\ Len(sq) \in Nat /\ DOMAIN sq = 1..Len(sq)
    BY AppendProperties, LenProperties
  <1>2. DOMAIN Append(sq, l) = 1..(Len(sq) + 1)
    BY <1>1, LenProperties
  <1>3. \A j \in DOMAIN sq : j \in DOMAIN Append(sq, l) /\ Append(sq, l)[j] = sq[j]
    BY <1>1, <1>2
  <1>4. QED
    BY <1>3 DEF Ahead

LEMMA RequestsWritten ==
    ASSUME NEW tl, NEW td, NEW sq \in Seq(Line), NEW l \in Line,
           RequestsAhead(tl, td, sq),
           l.kind = "hops" => ViewAhead(tl, td, sq, l.hops)
    PROVE  RequestsAhead(tl, td, Append(sq, l))
  <1>1. /\ Append(sq, l) \in Seq(Line) /\ Len(Append(sq, l)) = Len(sq) + 1
        /\ \A i \in 1..Len(sq) : Append(sq, l)[i] = sq[i]
        /\ Append(sq, l)[Len(sq) + 1] = l
        /\ Len(sq) \in Nat /\ DOMAIN sq = 1..Len(sq)
    BY AppendProperties, LenProperties
  <1>2. DOMAIN Append(sq, l) = 1..(Len(sq) + 1)
    BY <1>1, LenProperties
  <1> DEFINE b == Append(sq, l)
  <1>3. SUFFICES ASSUME NEW k \in DOMAIN b, b[k].kind = "hops",
                        NEW i \in 1..MaxHops, b[k].hops[i] \in Ip
                 PROVE  Ahead(tl, td, b, b[k].hops[i], k)
    BY DEF RequestsAhead
  <1>4. CASE k = Len(sq) + 1
    <2>1. Ahead(tl, td, sq, b[k].hops[i], k)
      BY <1>1, <1>3, <1>4 DEF ViewAhead
    <2>2. QED
      BY <2>1, AheadWritten
  <1>5. CASE k \in DOMAIN sq
    <2>1. b[k] = sq[k]
      BY <1>1, <1>5
    <2>2. Ahead(tl, td, sq, b[k].hops[i], k)
      BY <1>3, <1>5, <2>1 DEF RequestsAhead
    <2>3. QED
      BY <2>2, AheadWritten
  <1>6. QED
    BY <1>1, <1>2, <1>4, <1>5

(* Answers in the pipe stay good while the plugin learns more.             *)
LEMMA AnswersStay ==
    ASSUME NEW tl, NEW tl2, NEW c, NEW c2, NEW so \in Seq(Reply),
           \A a \in Ip : tl[a] # NoText => tl2[a] = tl[a],
           (\A s \in Slot : c[s].valid) => c2 = c,
           AnswersKnown(tl, c, so)
    PROVE  AnswersKnown(tl2, c2, so)
  <1>1. SUFFICES ASSUME NEW k \in DOMAIN so, so[k].kind = "hops", NEW i \in 1..MaxHops
                 PROVE  Annotated(tl2, c2, so[k].hops[i], so[k].text[i])
    BY DEF AnswersKnown
  <1>2. so[k] \in Reply
    BY ElementOfSeq, LenProperties
  <1>3. so[k].hops[i] \in Ip \cup {NoAddr}
    BY <1>1, <1>2, ReplyFacts DEF Hops, Addr
  <1>4. Annotated(tl, c, so[k].hops[i], so[k].text[i])
    BY <1>1 DEF AnswersKnown
  <1>5. QED
    BY <1>3, <1>4, GeoAssumption DEF Annotated, Slot

-----------------------------------------------------------------------------
(* The invariant.                                                          *)

LEMMA InitInv == Init => GeoInv
  <1> SUFFICES ASSUME Init PROVE GeoInv
    OBVIOUS
  <1>1. Invalid \in Entry
    BY DEF Invalid, Entry, Addr, Text
  <1>2. TableInv
    BY <1>1 DEF Init, TableInv, Text
  <1>3. [kind |-> "init"] \in Line /\ [kind |-> "init"].kind = "init"
    BY DEF Line
  <1>4. /\ stdin \in Seq(Line) /\ Len(stdin) = 1 /\ DOMAIN stdin = {1}
        /\ stdin[1].kind = "init"
    <2>1. stdin = <<[kind |-> "init"]>>
      BY DEF Init
    <2>2. stdin \in Seq(Line) /\ Len(stdin) = 1 /\ stdin[1] = [kind |-> "init"]
      BY <1>3, <2>1
    <2>3. QED
      BY <1>3, <2>2, LenProperties
  <1>5. /\ todo = <<>> /\ stdout = <<>> /\ pc = "init" /\ asked = {}
        /\ view = NoAnnotation.hops /\ shown = NoAnnotation
    BY DEF Init
  <1>6. view \in Hops /\ shown \in [hops : Hops, text : [1..MaxHops -> Text]]
    BY <1>5 DEF NoAnnotation, Hops, Addr, Text
  <1>7. /\ <<>> \in Seq(Addr) /\ <<>> \in Seq(Reply) /\ Len(<<>>) = 0
        /\ 0 <= MaxHops /\ 0 <= AnswerCap /\ 1 <= PipeCap
    BY GeoAssumption
  <1>8. PipeTypes
    BY <1>4, <1>5, <1>6, <1>7 DEF PipeTypes
  <1>9. InitFirst /\ RequestsAhead(told, todo, stdin)
    BY <1>4, <1>5 DEF InitFirst, RequestsAhead
  <1>10. AnswersKnown(told, cache, stdout)
    BY <1>5 DEF AnswersKnown
  <1>11. QED
    BY <1>2, <1>5, <1>8, <1>9, <1>10 DEF GeoInv, PipeInv

LEMMA TelemetryInv ==
    ASSUME GeoInv, Telemetry
    PROVE  GeoInv'
  <1>1. TableInv /\ PipeTypes /\ InitFirst
    BY DEF GeoInv, PipeInv
  <1>2. /\ todo # <<>> /\ todo' = Tail(todo) /\ resolve_one(Head(todo)) /\ hash' = hash
        /\ stdin' = stdin /\ stdout' = stdout
        /\ pc' = pc /\ view' = view /\ asked' = asked /\ shown' = shown
    BY DEF Telemetry, host
  <1>3. Head(todo) \in Addr /\ Tail(todo) \in Seq(Addr) /\ Len(Tail(todo)) = Len(todo) - 1 /\ Len(todo) \in Nat
    BY <1>1, <1>2, HeadTailProperties, LenProperties DEF PipeTypes
  <1>4. /\ TableInv'
        /\ \A a \in Ip : told[a] # NoText => told'[a] = told[a]
        /\ Head(todo) # NoAddr => told'[Head(todo)] # NoText
        /\ Full => cache' = cache
    BY <1>1, <1>2, <1>3, ResolveInv
  <1>5. PipeTypes'
    BY <1>1, <1>2, <1>3, GeoAssumption DEF PipeTypes
  <1>6. InitFirst'
    BY <1>1, <1>2 DEF InitFirst
  <1>7. \A ip \in Ip : \A k : Ahead(told, todo, stdin, ip, k) => Ahead(told', todo', stdin', ip, k)
    BY <1>1, <1>2, <1>4, AheadLearns DEF PipeTypes
  <1>8. RequestsAhead(told', todo', stdin')
    BY <1>2, <1>7 DEF GeoInv, PipeInv, RequestsAhead
  <1>9. pc' \in {"drain_hops", "ask_hops"} => ViewAhead(told', todo', stdin', view')
    BY <1>2, <1>7 DEF GeoInv, PipeInv, ViewAhead
  <1>10. AnswersKnown(told', cache', stdout')
    <2>1. AnswersKnown(told, cache, stdout) /\ stdout \in Seq(Reply)
      BY <1>1 DEF GeoInv, PipeInv, PipeTypes
    <2>2. (\A s \in Slot : cache[s].valid) => cache' = cache
      BY <1>4 DEF Full
    <2>3. QED
      BY <1>2, <1>4, <2>1, <2>2, AnswersStay
  <1>11. QED
    BY <1>4, <1>5, <1>6, <1>8, <1>9, <1>10 DEF GeoInv, PipeInv

(* What render_hops is answered is good when every address is known.       *)
LEMMA AnnotationsGood ==
    ASSUME TableInv, NEW hs \in Hops, \A i \in 1..MaxHops : hs[i] \in Ip => told[hs[i]] # NoText
    PROVE  /\ Annotations(hs) \in [1..MaxHops -> Text]
           /\ \A i \in 1..MaxHops : Annotated(told, cache, hs[i], Annotations(hs)[i])
  <1>1. ASSUME NEW i \in 1..MaxHops
        PROVE  Annotations(hs)[i] \in Text /\ Annotated(told, cache, hs[i], Annotations(hs)[i])
    <2>1. hs[i] \in Ip \cup {NoAddr}
      BY DEF Hops, Addr
    <2>2. CASE hs[i] = NoAddr
      BY <2>2 DEF Annotations, Annotated, Text
    <2>3. CASE hs[i] \in Ip
      <3> DEFINE ip == hs[i]
      <3>1. ip # NoAddr /\ told[ip] # NoText /\ Annotations(hs)[i] = geo_cache_find(ip).text
        BY <2>3, GeoAssumption DEF Annotations, NoAddr
      <3>2. Invalid.text = NoText /\ ~Invalid.valid /\ NoText \in Text
        BY DEF Invalid, Text
      <3>3. CASE \E s \in Slot : cache[s].valid /\ cache[s].ip = ip /\ geo_cache_find(ip) = cache[s]
        <4>1. PICK s \in Slot : cache[s].valid /\ cache[s].ip = ip /\ geo_cache_find(ip) = cache[s]
          BY <3>3
        <4>2. cache[s].text = told[ip] /\ told[ip] \in Text
          BY <2>3, <3>2, <4>1 DEF TableInv
        <4>3. QED
          BY <3>1, <4>1, <4>2 DEF Annotated
      <3>4. CASE ~Stored(ip) /\ geo_cache_find(ip) = Invalid
        <4>1. \A s \in Slot : cache[s].valid /\ cache[s].ip # ip
          BY <2>3, <3>1, <3>4 DEF TableInv, Full, Stored
        <4>2. QED
          BY <3>1, <3>2, <3>4, <4>1 DEF Annotated
      <3>5. QED
        BY <2>3, <3>3, <3>4, Search
    <2>4. QED
      BY <2>1, <2>2, <2>3
  <1>2. Annotations(hs) = [i \in 1..MaxHops |-> Annotations(hs)[i]]
    BY DEF Annotations
  <1>3. QED
    BY <1>1, <1>2

(* The plugin reads a line.                                                *)
LEMMA ReadLineInv ==
    ASSUME GeoInv, ReadLine
    PROVE  GeoInv'
  <1> DEFINE m == Head(stdin)
  <1>1. TableInv /\ PipeTypes /\ InitFirst
    BY DEF GeoInv, PipeInv
  <1>2. /\ todo = <<>> /\ stdin # <<>> /\ stdin' = Tail(stdin)
        /\ hash' = hash /\ cache' = cache /\ told' = told /\ again' = again
        /\ pc' = pc /\ view' = view /\ asked' = asked /\ shown' = shown
    BY DEF ReadLine, host, ghosts
  <1>3. TableInv'
    BY <1>1, <1>2 DEF TableInv, Stored, Full
  <1>4. /\ m \in Line /\ m = stdin[1] /\ Len(stdin) \in Nat \ {0} /\ DOMAIN stdin = 1..Len(stdin)
        /\ Tail(stdin) \in Seq(Line) /\ Len(Tail(stdin)) = Len(stdin) - 1
        /\ \A n \in 1..Len(Tail(stdin)) : Tail(stdin)[n] = stdin[n + 1]
    BY <1>1, <1>2, HeadTailProperties, LenProperties, EmptySeq DEF PipeTypes
  <1>5. DOMAIN stdin' = 1..(Len(stdin) - 1)
    BY <1>2, <1>4, LenProperties
  <1>6. \/ /\ m.kind = "init" /\ stdout' = Append(stdout, [kind |-> "init"]) /\ todo' = todo
        \/ /\ m.kind = "tel" /\ todo' = m.hops /\ stdout' = stdout
        \/ /\ m.kind = "hops" /\ Len(stdout) < AnswerCap /\ todo' = todo
           /\ stdout' = Append(stdout, Answer("hops", m.hops, Annotations(m.hops)))
        \/ /\ m.kind = "render" /\ Len(stdout) < AnswerCap /\ todo' = todo
           /\ stdout' = Append(stdout, [kind |-> "render"])
    BY DEF ReadLine
  <1>7. m.kind = "tel" => todo' = m.hops
    BY <1>6
  <1>8. \A ip \in Ip, k \in Nat : Ahead(told, todo, stdin, ip, k + 1) => Ahead(told', todo', stdin', ip, k)
    BY <1>1, <1>2, <1>7, AheadRead DEF PipeTypes
  <1>9. todo' \in Seq(Addr) /\ Len(todo') <= MaxHops
    <2>1. CASE m.kind = "tel"
      BY <1>4, <1>7, <2>1, LineFacts, HopsIsSeq, GeoAssumption
    <2>2. CASE m.kind # "tel"
      BY <1>1, <1>6, <2>2 DEF PipeTypes
    <2>3. QED
      BY <2>1, <2>2
  <1>10. /\ stdout' \in Seq(Reply) /\ Len(stdout') <= AnswerCap
         /\ AnswersKnown(told, cache, stdout')
    <2>1. /\ stdout \in Seq(Reply) /\ Len(stdout) \in Nat /\ Len(stdout) <= AnswerCap
          /\ DOMAIN stdout = 1..Len(stdout) /\ AnswersKnown(told, cache, stdout)
      BY <1>1, LenProperties DEF PipeTypes, GeoInv, PipeInv
    <2>2. ASSUME NEW r \in Reply, stdout' = Append(stdout, r), Len(stdout) < AnswerCap,
                 r.kind = "hops" => \A i \in 1..MaxHops : Annotated(told, cache, r.hops[i], r.text[i])
          PROVE  /\ stdout' \in Seq(Reply) /\ Len(stdout') <= AnswerCap
                 /\ AnswersKnown(told, cache, stdout')
      <3>1. /\ stdout' \in Seq(Reply) /\ Len(stdout') = Len(stdout) + 1
            /\ \A i \in 1..Len(stdout) : stdout'[i] = stdout[i]
            /\ stdout'[Len(stdout) + 1] = r
        BY <2>1, <2>2, AppendProperties
      <3>2. DOMAIN stdout' = 1..(Len(stdout) + 1)
        BY <3>1, LenProperties
      <3>3. \A k \in DOMAIN stdout' :
               (k \in DOMAIN stdout /\ stdout'[k] = stdout[k]) \/ stdout'[k] = r
        BY <2>1, <3>1, <3>2
      <3>4. AnswersKnown(told, cache, stdout')
        BY <2>1, <2>2, <3>3 DEF AnswersKnown
      <3>5. QED
        BY <2>1, <2>2, <3>1, <3>4, GeoAssumption
    <2>3. CASE m.kind = "init"
      <3>1. stdout = <<>> /\ Len(stdout) = 0
        BY <1>1, <1>4, <2>3 DEF InitFirst
      <3>2. [kind |-> "init"] \in Reply /\ [kind |-> "init"].kind # "hops"
        BY DEF Reply
      <3>3. stdout' = Append(stdout, [kind |-> "init"])
        BY <1>6, <2>3
      <3>4. QED
        BY <2>2, <3>1, <3>2, <3>3, GeoAssumption
    <2>4. CASE m.kind = "render"
      <3>1. [kind |-> "render"] \in Reply /\ [kind |-> "render"].kind # "hops"
        BY DEF Reply
      <3>2. QED
        BY <1>6, <2>2, <2>4, <3>1
    <2>5. CASE m.kind = "hops"
      <3>1. m.hops \in Hops
        BY <1>4, <2>5, LineFacts
      <3>2. \A i \in 1..MaxHops : m.hops[i] \in Ip => told[m.hops[i]] # NoText
        <4>1. ASSUME NEW i \in 1..MaxHops, m.hops[i] \in Ip PROVE told[m.hops[i]] # NoText
          <5>1. Ahead(told, todo, stdin, m.hops[i], 1)
            BY <1>4, <2>5, <4>1 DEF GeoInv, PipeInv, RequestsAhead
          <5>2. \A j \in DOMAIN stdin : ~(j < 1)
            BY <1>4
          <5>3. QED
            BY <1>2, <5>1, <5>2 DEF Ahead, Named
        <4>2. QED
          BY <4>1
      <3> DEFINE r == Answer("hops", m.hops, Annotations(m.hops))
      <3>3. /\ Annotations(m.hops) \in [1..MaxHops -> Text]
            /\ \A i \in 1..MaxHops : Annotated(told, cache, m.hops[i], Annotations(m.hops)[i])
        BY <1>1, <3>1, <3>2, AnnotationsGood
      <3>4. r \in Reply /\ r.hops = m.hops /\ r.text = Annotations(m.hops)
        BY <3>1, <3>3 DEF Answer, Reply
      <3> HIDE DEF r
      <3>5. stdout' = Append(stdout, r) /\ Len(stdout) < AnswerCap
        BY <1>6, <2>5 DEF r
      <3>6. QED
        BY <2>2, <3>3, <3>4, <3>5
    <2>6. CASE m.kind = "tel"
      BY <1>6, <2>1, <2>6
    <2>7. QED
      BY <1>6, <2>3, <2>4, <2>5, <2>6
  <1>11. PipeTypes'
    BY <1>1, <1>2, <1>4, <1>9, <1>10, GeoAssumption DEF PipeTypes
  <1>12. InitFirst'
    <2>1. ASSUME NEW k \in DOMAIN stdin' PROVE stdin'[k].kind # "init"
      <3>1. k + 1 \in DOMAIN stdin /\ k + 1 # 1 /\ stdin'[k] = stdin[k + 1]
        BY <1>2, <1>4, <1>5
      <3>2. QED
        BY <1>1, <3>1 DEF InitFirst
    <2>2. QED
      BY <2>1 DEF InitFirst
  <1>13. RequestsAhead(told', todo', stdin')
    <2>1. ASSUME NEW k \in DOMAIN stdin', stdin'[k].kind = "hops",
                 NEW i \in 1..MaxHops, stdin'[k].hops[i] \in Ip
          PROVE  Ahead(told', todo', stdin', stdin'[k].hops[i], k)
      <3>1. k \in Nat /\ k + 1 \in DOMAIN stdin /\ stdin'[k] = stdin[k + 1]
        BY <1>2, <1>4, <1>5
      <3>2. Ahead(told, todo, stdin, stdin'[k].hops[i], k + 1)
        BY <2>1, <3>1 DEF GeoInv, PipeInv, RequestsAhead
      <3>3. QED
        BY <1>8, <2>1, <3>1, <3>2
    <2>2. QED
      BY <2>1 DEF RequestsAhead
  <1>14. pc' \in {"drain_hops", "ask_hops"} => ViewAhead(told', todo', stdin', view')
    <2>1. SUFFICES ASSUME pc' \in {"drain_hops", "ask_hops"}, NEW i \in 1..MaxHops, view'[i] \in Ip
                   PROVE  Ahead(told', todo', stdin', view'[i], Len(stdin') + 1)
      BY DEF ViewAhead
    <2>2. Ahead(told, todo, stdin, view[i], Len(stdin) + 1)
      BY <1>2, <2>1 DEF GeoInv, PipeInv, ViewAhead
    <2>3. Len(stdin') + 1 = Len(stdin) /\ Len(stdin) \in Nat
      BY <1>2, <1>4
    <2>4. QED
      BY <1>2, <1>8, <2>1, <2>2, <2>3
  <1>15. QED
    BY <1>2, <1>3, <1>10, <1>11, <1>12, <1>13, <1>14 DEF GeoInv, PipeInv

(* The host writes a line: telemetry, or one of the two requests.          *)
LEMMA WriteInv ==
    ASSUME GeoInv, NEW l \in Line, l.kind # "init", pc # "init", Len(stdin) < PipeCap,
           stdin' = Append(stdin, l), l.kind = "hops" => ViewAhead(told, todo, stdin, l.hops),
           UNCHANGED <<plugin, stdout, view, shown, ghosts>>,
           asked' \subseteq {"hops", "render"},
           pc' \in {"tel", "drain_hops", "ask_hops", "drain_render", "ask_render"},
           pc' \in {"drain_hops", "ask_hops"} => l = [kind |-> "tel", hops |-> view]
    PROVE  GeoInv'
  <1>1. TableInv /\ PipeTypes /\ InitFirst
    BY DEF GeoInv, PipeInv
  <1>2. /\ hash' = hash /\ cache' = cache /\ told' = told /\ again' = again /\ todo' = todo
        /\ stdout' = stdout /\ view' = view /\ shown' = shown
    BY DEF plugin, ghosts
  <1>3. TableInv'
    BY <1>1, <1>2 DEF TableInv, Stored, Full
  <1>4. /\ stdin \in Seq(Line) /\ Len(stdin) \in Nat /\ DOMAIN stdin = 1..Len(stdin)
        /\ stdin' \in Seq(Line) /\ Len(stdin') = Len(stdin) + 1
        /\ \A i \in 1..Len(stdin) : stdin'[i] = stdin[i]
        /\ stdin'[Len(stdin) + 1] = l
    BY <1>1, AppendProperties, LenProperties DEF PipeTypes
  <1>5. DOMAIN stdin' = 1..(Len(stdin) + 1)
    BY <1>4, LenProperties
  <1>6. PipeTypes'
    BY <1>1, <1>2, <1>4, GeoAssumption DEF PipeTypes
  <1>7. InitFirst'
    <2>1. ASSUME NEW k \in DOMAIN stdin' PROVE stdin'[k].kind # "init"
      <3>1. k \in DOMAIN stdin \/ k = Len(stdin) + 1
        BY <1>4, <1>5
      <3>2. QED
        BY <1>1, <1>4, <3>1 DEF InitFirst
    <2>2. QED
      BY <2>1 DEF InitFirst
  <1>8. RequestsAhead(told', todo', stdin')
    BY <1>2, <1>4, RequestsWritten DEF GeoInv, PipeInv
  <1>9. pc' \in {"drain_hops", "ask_hops"} => ViewAhead(told', todo', stdin', view')
    <2>1. SUFFICES ASSUME pc' \in {"drain_hops", "ask_hops"}, NEW i \in 1..MaxHops, view'[i] \in Ip
                   PROVE  Ahead(told', todo', stdin', view'[i], Len(stdin') + 1)
      BY DEF ViewAhead
    <2>2. l.kind = "tel" /\ l.hops = view
      BY <2>1
    <2>3. Named(view[i], l.hops)
      BY <1>1, <2>1, <2>2, HopsIsSeq DEF Named, PipeTypes
    <2>4. Len(stdin) + 1 \in DOMAIN stdin' /\ Len(stdin) + 1 < Len(stdin') + 1
      BY <1>4, <1>5
    <2>5. QED
      BY <1>2, <1>4, <2>2, <2>3, <2>4 DEF Ahead
  <1>10. AnswersKnown(told', cache', stdout')
    BY <1>2 DEF GeoInv, PipeInv
  <1>11. QED
    BY <1>3, <1>6, <1>7, <1>8, <1>9, <1>10 DEF GeoInv, PipeInv

LEMMA TelemetryWritten ==
    ASSUME GeoInv, update_telemetry
    PROVE  GeoInv'
  <1> DEFINE l == [kind |-> "tel", hops |-> view]
  <1>1. l \in Line /\ l.kind = "tel"
    BY DEF GeoInv, PipeInv, PipeTypes, Line
  <1>2. /\ pc = "tel" /\ Len(stdin) < PipeCap /\ stdin' = Append(stdin, l) /\ pc' = "drain_hops"
        /\ UNCHANGED <<plugin, stdout, view, shown, ghosts>> /\ asked' = asked
    BY DEF update_telemetry
  <1>3. asked \subseteq {"hops", "render"}
    BY DEF GeoInv, PipeInv, PipeTypes
  <1>4. QED
    BY <1>1, <1>2, <1>3, WriteInv

LEMMA RequestWritten ==
    ASSUME GeoInv, render_hops \/ render
    PROVE  GeoInv'
  <1>1. /\ TableInv /\ PipeTypes /\ InitFirst /\ view \in Hops /\ asked \subseteq {"hops", "render"}
        /\ pc \in {"drain_hops", "ask_hops"} => ViewAhead(told, todo, stdin, view)
    BY DEF GeoInv, PipeInv, PipeTypes
  <1>2. CASE stdin' = stdin /\ asked' = asked
    <2>1. /\ hash' = hash /\ cache' = cache /\ told' = told /\ again' = again /\ todo' = todo
          /\ stdout' = stdout /\ view' = view /\ shown' = shown
          /\ pc \in {"ask_hops", "ask_render"} /\ pc' \in {"drain_render", "tel"}
      BY DEF render_hops, render, plugin, ghosts
    <2>2. TableInv' /\ PipeTypes'
      BY <1>1, <1>2, <2>1 DEF TableInv, Stored, Full, PipeTypes
    <2>3. InitFirst'
      BY <1>1, <1>2, <2>1 DEF InitFirst
    <2>4. QED
      BY <1>2, <2>1, <2>2, <2>3 DEF GeoInv, PipeInv
  <1>3. CASE render_hops /\ "hops" \notin asked
    <2> DEFINE l == [kind |-> "hops", hops |-> view]
    <2>1. l \in Line /\ l.kind = "hops" /\ l.hops = view
      BY <1>1 DEF Line
    <2>2. /\ pc = "ask_hops" /\ pc' = "drain_render" /\ Len(stdin) < PipeCap
          /\ stdin' = Append(stdin, l) /\ asked' = asked \cup {"hops"}
          /\ UNCHANGED <<plugin, stdout, view, shown, ghosts>>
      BY <1>3 DEF render_hops, Request
    <2> HIDE DEF l
    <2>3. asked' \subseteq {"hops", "render"} /\ ViewAhead(told, todo, stdin, l.hops)
      BY <1>1, <2>1, <2>2
    <2>4. QED
      BY <2>1, <2>2, <2>3, WriteInv
  <1>4. CASE render /\ "render" \notin asked
    <2> DEFINE l == [kind |-> "render"]
    <2>1. l \in Line /\ l.kind = "render"
      BY DEF Line
    <2>2. /\ pc = "ask_render" /\ pc' = "tel" /\ Len(stdin) < PipeCap
          /\ stdin' = Append(stdin, l) /\ asked' = asked \cup {"render"}
          /\ UNCHANGED <<plugin, stdout, view, shown, ghosts>>
      BY <1>4 DEF render, Request
    <2> HIDE DEF l
    <2>3. asked' \subseteq {"hops", "render"}
      BY <1>1, <2>2
    <2>4. QED
      BY <2>1, <2>2, <2>3, WriteInv
  <1>5. QED
    BY <1>2, <1>3, <1>4 DEF render_hops, render, Request

(* The host reads an answer, or finds none.                                *)
LEMMA AnswerRead ==
    ASSUME GeoInv, Started \/ Drain
    PROVE  GeoInv'
  <1>1. TableInv /\ PipeTypes /\ InitFirst
    BY DEF GeoInv, PipeInv
  <1>2. /\ hash' = hash /\ cache' = cache /\ told' = told /\ again' = again /\ todo' = todo
        /\ stdin' = stdin /\ view' = view
    BY DEF Started, Drain, plugin, ghosts
  <1>3. TableInv'
    BY <1>1, <1>2 DEF TableInv, Stored, Full
  <1>4. /\ pc' \in {"tel", "ask_hops", "ask_render"}
        /\ pc' = "ask_hops" => pc = "drain_hops"
    BY DEF Started, Drain
  <1>5. CASE stdout = <<>>
    <2>1. pc # "init" /\ stdout' = stdout /\ asked' = asked /\ shown' = shown
      BY <1>5 DEF Started, Drain
    <2>2. InitFirst' /\ PipeTypes'
      BY <1>1, <1>2, <1>4, <2>1 DEF InitFirst, PipeTypes
    <2>3. QED
      BY <1>2, <1>3, <1>4, <2>1, <2>2 DEF GeoInv, PipeInv
  <1>6. CASE stdout # <<>>
    <2>1. /\ Head(stdout) \in Reply /\ Tail(stdout) \in Seq(Reply)
          /\ Len(Tail(stdout)) = Len(stdout) - 1 /\ Len(stdout) \in Nat
          /\ DOMAIN stdout = 1..Len(stdout)
          /\ \A i \in 1..Len(Tail(stdout)) : Tail(stdout)[i] = stdout[i + 1]
      BY <1>1, <1>6, HeadTailProperties, LenProperties DEF PipeTypes
    <2>2. DOMAIN Tail(stdout) = 1..(Len(stdout) - 1)
      BY <2>1, LenProperties
    <2>3. stdout' = Tail(stdout) /\ asked' \subseteq asked
      BY <1>6 DEF Started, Drain
    <2>4. shown' \in [hops : Hops, text : [1..MaxHops -> Text]]
      <3>1. CASE shown' = shown
        BY <1>1, <3>1 DEF PipeTypes
      <3>2. CASE /\ Head(stdout).kind = "hops"
                 /\ shown' = [hops |-> Head(stdout).hops, text |-> Head(stdout).text]
        BY <2>1, <3>2, ReplyFacts
      <3>3. QED
        BY <1>6, <3>1, <3>2 DEF Started, Drain
    <2>5. InitFirst'
      <3>1. \A k \in DOMAIN stdin : stdin[k].kind # "init"
        BY <1>1, <1>6 DEF InitFirst
      <3>2. QED
        BY <1>2, <3>1 DEF InitFirst
    <2>6. PipeTypes'
      BY <1>1, <1>2, <1>4, <2>1, <2>3, <2>4, GeoAssumption DEF PipeTypes
    <2>7. AnswersKnown(told', cache', stdout')
      <3>1. \A k \in DOMAIN stdout' : k + 1 \in DOMAIN stdout /\ stdout'[k] = stdout[k + 1]
        BY <2>1, <2>2, <2>3
      <3>2. QED
        BY <1>2, <3>1 DEF GeoInv, PipeInv, AnswersKnown
    <2>8. QED
      BY <1>2, <1>3, <1>4, <2>5, <2>6, <2>7 DEF GeoInv, PipeInv
  <1>7. QED
    BY <1>5, <1>6

LEMMA ViewInv ==
    ASSUME GeoInv, ViewChanges
    PROVE  GeoInv'
  <1>1. TableInv /\ PipeTypes /\ InitFirst
    BY DEF GeoInv, PipeInv
  <1>2. /\ hash' = hash /\ cache' = cache /\ told' = told /\ again' = again /\ todo' = todo
        /\ stdin' = stdin /\ stdout' = stdout /\ pc' = pc /\ pc = "tel" /\ asked' = asked /\ shown' = shown
        /\ view' \in Hops
    BY GeoAssumption DEF ViewChanges, plugin, ghosts, Hops, Addr, NoAddr
  <1>3. TableInv' /\ PipeTypes' /\ InitFirst'
    BY <1>1, <1>2 DEF TableInv, Stored, Full, PipeTypes, InitFirst
  <1>4. QED
    BY <1>2, <1>3 DEF GeoInv, PipeInv

LEMMA Invariance == Spec => []GeoInv
  <1>1. GeoInv /\ [Next]_vars => GeoInv'
    <2> SUFFICES ASSUME GeoInv, [Next]_vars PROVE GeoInv'
      OBVIOUS
    <2>1. CASE UNCHANGED vars
      BY <2>1 DEF GeoInv, TableInv, Stored, Full, PipeInv, PipeTypes, InitFirst,
                  vars, plugin, ghosts, host
    <2>2. CASE Next
      BY <2>2, TelemetryInv, ReadLineInv, TelemetryWritten, RequestWritten, AnswerRead, ViewInv
         DEF Next, Host, Plugin
    <2>3. QED
      BY <2>1, <2>2
  <1>2. QED
    BY <1>1, InitInv, PTL DEF Spec

-----------------------------------------------------------------------------
(* The theorems.                                                           *)

(* For every hash function and table size, geo_cache_find finds what       *)
(* geo_cache_store has stored, with the text of the first lookup, and an   *)
(* address is in one slot only.                                            *)
THEOREM CacheIsSound == Spec => []CacheSound
  <1>1. GeoInv => CacheSound
    <2> SUFFICES ASSUME GeoInv PROVE CacheSound
      OBVIOUS
    <2>1. TableInv /\ PipeTypes
      BY DEF GeoInv, PipeInv
    <2>2. TypeOK
      <3>1. todo \in UNION {[1..n -> Addr] : n \in 0..MaxHops}
        <4>1. Len(todo) \in 0..MaxHops /\ todo \in [1..Len(todo) -> Addr]
          BY <2>1, LenProperties, GeoAssumption DEF PipeTypes
        <4>2. QED
          BY <4>1
      <3>2. QED
        BY <2>1, <3>1 DEF TypeOK, TableInv, PipeTypes, Entry, Text
    <2>3. ASSUME NEW s \in Slot, cache[s].valid
          PROVE  /\ geo_cache_find(cache[s].ip) = cache[s]
                 /\ cache[s].text = told[cache[s].ip]
                 /\ \A t \in Slot \ {s} : cache[t].ip # cache[s].ip
      <3>1. ~Invalid.valid
        BY DEF Invalid
      <3>2. /\ cache[s].ip \in Ip /\ cache[s].text = told[cache[s].ip]
            /\ \A t \in Slot : cache[t].ip = cache[s].ip => t = s
        BY <2>1, <2>3, <3>1 DEF TableInv
      <3>3. Stored(cache[s].ip)
        BY DEF Stored
      <3>4. PICK t \in Slot : cache[t].ip = cache[s].ip /\ geo_cache_find(cache[s].ip) = cache[t]
        BY <2>1, <3>2, <3>3, Search
      <3>5. QED
        BY <3>2, <3>4
    <2>4. QED
      BY <2>2, <2>3 DEF CacheSound
  <1>2. QED
    BY <1>1, Invariance, PTL

(* resolve_one looks an address up a second time only if the table is full *)
(* and does not hold it.                                                   *)
THEOREM LookupIsOnce == Spec => []LookedUpOnce
  <1>1. GeoInv => LookedUpOnce
    BY DEF GeoInv, TableInv, LookedUpOnce, Stored
  <1>2. QED
    BY <1>1, Invariance, PTL

(* An answer to render_hops has the text of every address the request      *)
(* named, unless the table is full: the telemetry that went ahead of the   *)
(* request has been worked off when the plugin reads it.                   *)
THEOREM AnswersAreComplete == Spec => []AnswersComplete
  <1>1. GeoInv => AnswersComplete
    BY DEF GeoInv, PipeInv, AnswersKnown, Annotated, AnswersComplete, Full
  <1>2. QED
    BY <1>1, Invariance, PTL

-----------------------------------------------------------------------------
(***************************************************************************)
(* Proofs about the percentile plugin for every size of its rings, every   *)
(* telemetry and every clock: FocusExact and GlobalExact.                  *)
(*                                                                         *)
(* The invariant says in which place of the ring of samples the j-th       *)
(* newest answer is (Ring), counting from the head backwards, so that the  *)
(* remainder is one case distinction.  For the ring of minutes it names    *)
(* the entries of the log with which a minute begins (Starts) and says     *)
(* that the j-th newest bucket is the sum of what was reported in the      *)
(* j-th newest of those minutes (Rows), as long as a minute that was       *)
(* dropped cannot come back (Covered): the clock was never set back        *)
(* (Timely), or no minute has been dropped at all.  The rest is that the   *)
(* figures of disjoint sets of minutes add up (FiguresUnion).              *)
(***************************************************************************)

Sample  == [addr : HopAddr \cup {NoHopAddr}, rtt : Nat, ts : Nat]
HopSet  == [addr : HopAddr \cup {NoHopAddr}, rtt : Nat, recv : Nat]
Samples == [ring : [0..(SampleMax - 1) -> Sample], head : 0..(SampleMax - 1), count : 0..SampleMax]
Bucket  == [start : Nat, min : 0..Infinity, max : Nat, sum : Nat, count : Nat]
Buckets == [ring : [0..(BucketMax - 1) -> Bucket], head : 0..(BucketMax - 1), count : 0..BucketMax]

\* the place of the j-th newest entry
RingPlace(head, size, j) == IF j <= head THEN head - j ELSE head - j + size

\* the ring holds the newest of the samples ks
Ring(g, ks) ==
    /\ g \in Samples /\ ks \in Seq(Sample)
    /\ g.count = Smaller(Len(ks), SampleMax)
    /\ \A j \in 1..g.count : g.ring[RingPlace(g.head, SampleMax, j)] = ks[Len(ks) - j + 1]

(* What the assumption says of the sizes.                                  *)
LEMMA PctlSizes ==
    /\ SampleMax \in Nat /\ SampleMax > 0 /\ BucketMax \in Nat /\ BucketMax > 0
    /\ MaxCopies \in Nat /\ MaxCopies > 0 /\ Minute \in Nat /\ Minute > 0
    /\ NoHopAddr \notin HopAddr /\ Lines \subseteq Seq(HopSet) /\ Sizes \subseteq 1..BucketMax
    /\ Infinity \in Nat
  <1>4. Infinity \in Nat
    BY SMT DEF Infinity
  <1>1. SampleMax \in Nat \ {0} /\ BucketMax \in Nat \ {0} /\ MaxCopies \in Nat \ {0} /\ Minute \in Nat \ {0}
    BY PctlAssumption, Zenon
  <1>2. NoHopAddr \notin HopAddr /\ Lines \subseteq Seq(HopSet) /\ Sizes \subseteq 1..BucketMax
    BY PctlAssumption, Zenon DEF HopSet
  <1>3. QED
    BY <1>1, <1>2, <1>4

(* The remainder of a number below twice the size.                         *)
LEMMA Wrap ==
    ASSUME NEW size \in Nat, size > 0, NEW x \in Nat, x < 2 * size
    PROVE  x % size = (IF x < size THEN x ELSE x - size) /\ x % size \in 0..(size - 1)
  <1>1. CASE x < size
    <2>1. x % size = x
      BY <1>1, SMT
    <2>2. QED
      BY <1>1, <2>1
  <1>2. CASE x >= size
    <2>1. x % size = x - size
      BY <1>2, SMT
    <2>2. QED
      BY <1>2, <2>1
  <1>3. QED
    BY <1>1, <1>2

(* The entries that the ring takes, one more.                              *)
LEMMA KeptAppend ==
    ASSUME NEW l \in Seq(Sample), NEW e \in Sample
    PROVE  /\ Kept(l) \in Seq(Sample) /\ Kept(<<>>) = <<>>
           /\ Kept(Append(l, e)) = IF e.addr # NoHopAddr /\ e.rtt # 0 THEN Append(Kept(l), e) ELSE Kept(l)
  <1> DEFINE V == Seq(Sample)
             Step(x, f) == IF f.addr # NoHopAddr /\ f.rtt # 0 THEN Append(x, f) ELSE x
             Solves(s, u) == u = [i \in 0..Len(s) |-> IF i = 0 THEN <<>> ELSE Step(u[i - 1], s[i])]
             U(s) == CHOOSE u : Solves(s, u)
             r == Append(l, e)
             n == Len(l)
  <1>1. \A s : Kept(s) = U(s)[Len(s)]
    <2>1. TAKE s
    <2>2. QED
      BY DEF Kept
  <1>2. \A x \in V, f \in Sample : Step(x, f) \in V
    BY AppendProperties
  <1>3. <<>> \in V
    OBVIOUS
  <1> HIDE DEF Step, V
  <1>4. ASSUME NEW s \in Seq(Sample)
        PROVE  \E h : /\ h \in [0..Len(s) -> V] /\ h[0] = <<>> /\ Solves(s, h)
                      /\ \A i \in 1..Len(s) : h[i] = Step(h[i - 1], s[i])
    <2> DEFINE m == Len(s)
               F == [i \in 1..m |-> [x \in V |-> Step(x, s[i])]]
               b == <<>>
    <2>1. m \in Nat /\ \A i \in 1..m : s[i] \in Sample
      BY LenProperties, ElementOfSeq
    <2> HIDE DEF m
    <2>2. F \in FiniteSteps(m, V) /\ b \in V
      BY <1>2, <1>3, <2>1 DEF FiniteSteps
    <2>3. \A i \in 1..m : \A x \in V : F[i][x] = Step(x, s[i])
      OBVIOUS
    <2> HIDE DEF F, b
    <2>4. PICK h : h \in FiniteIterates(m, V, b, F)
      BY <2>1, <2>2, FiniteRecursion
    <2>5. h \in [0..m -> V] /\ h[0] = b /\ \A i \in 1..m : h[i] = F[i][h[i - 1]]
      BY <2>4 DEF FiniteIterates
    <2>6. \A i \in 1..m : i - 1 \in 0..m /\ h[i] = Step(h[i - 1], s[i])
      BY <2>1, <2>3, <2>5
    <2>7. h = [i \in 0..m |-> IF i = 0 THEN <<>> ELSE Step(h[i - 1], s[i])]
      BY <2>1, <2>5, <2>6 DEF b
    <2>8. QED
      BY <2>5, <2>6, <2>7 DEF m, b
  <1>5. ASSUME NEW s \in Seq(Sample)
        PROVE  /\ U(s) \in [0..Len(s) -> V] /\ U(s)[0] = <<>>
               /\ \A i \in 1..Len(s) : U(s)[i] = Step(U(s)[i - 1], s[i])
    <2>1. Solves(s, U(s))
      <3>1. \E h : Solves(s, h)
        BY <1>4
      <3> HIDE DEF Solves
      <3>2. QED
        BY <3>1
    <2> DEFINE u == U(s)
               m == Len(s)
    <2>2. u = [i \in 0..m |-> IF i = 0 THEN <<>> ELSE Step(u[i - 1], s[i])]
      BY <2>1
    <2>3. m \in Nat /\ \A i \in 1..m : s[i] \in Sample
      BY LenProperties, ElementOfSeq
    <2> SUFFICES u \in [0..m -> V] /\ u[0] = <<>> /\ \A i \in 1..m : u[i] = Step(u[i - 1], s[i])
      OBVIOUS
    <2> HIDE DEF u, m
    <2>4. u[0] = <<>> /\ \A i \in 1..m : u[i] = Step(u[i - 1], s[i])
      BY <2>2, <2>3
    <2> DEFINE E == {i \in 0..m : u[i] \in V}
    <2>5. 0 \in E
      BY <1>3, <2>3, <2>4
    <2>6. \A i \in 0..(m - 1) : i \in E => i + 1 \in E
      <3>1. SUFFICES ASSUME NEW i \in 0..(m - 1), u[i] \in V PROVE i + 1 \in E
        OBVIOUS
      <3>2. i + 1 \in 1..m /\ i + 1 \in 0..m /\ (i + 1) - 1 = i
        BY <2>3
      <3>3. u[i + 1] = Step(u[i], s[i + 1])
        BY <2>4, <3>2
      <3>4. QED
        BY <1>2, <2>3, <3>1, <3>2, <3>3
    <2>7. \A i \in 0..m : u[i] \in V
      <3>1. 0..m \subseteq E
        <4> HIDE DEF E
        <4>1. QED
          BY <2>3, <2>5, <2>6, IntervalInduction
      <3>2. QED
        BY <3>1
    <2>8. QED
      BY <2>2, <2>4, <2>7
  <1>20. Kept(<<>>) = <<>>
    <2>1. <<>> \in Seq(Sample) /\ Len(<<>>) = 0
      OBVIOUS
    <2>2. U(<<>>)[0] = <<>>
      BY <1>5, <2>1
    <2>3. QED
      BY <1>1, <2>1, <2>2
  <1>6. /\ r \in Seq(Sample) /\ n \in Nat /\ Len(r) = n + 1 /\ r[n + 1] = e
        /\ \A i \in 1..n : r[i] = l[i]
    BY AppendProperties, LenProperties
  <1> HIDE DEF U, Solves, r, n
  <1> DEFINE a == U(l)
             c == U(r)
  <1>7. /\ a \in [0..n -> V] /\ a[0] = <<>> /\ \A i \in 1..n : a[i] = Step(a[i - 1], l[i])
    BY <1>5 DEF n
  <1>8. c[0] = <<>> /\ \A i \in 1..(n + 1) : c[i] = Step(c[i - 1], r[i])
    BY <1>5, <1>6
  <1>9. Kept(l) = a[n] /\ Kept(r) = c[n + 1]
    BY <1>1, <1>6 DEF n
  <1> HIDE DEF a, c
  <1> DEFINE E == {i \in 0..n : c[i] = a[i]}
  <1>10. 0 \in E
    BY <1>6, <1>7, <1>8
  <1>11. \A i \in 0..(n - 1) : i \in E => i + 1 \in E
    <2>1. SUFFICES ASSUME NEW i \in 0..(n - 1), c[i] = a[i] PROVE i + 1 \in E
      OBVIOUS
    <2>2. i + 1 \in 1..n /\ i + 1 \in 1..(n + 1) /\ (i + 1) - 1 = i /\ i + 1 \in 0..n
      BY <1>6
    <2>3. c[i + 1] = Step(c[i], r[i + 1]) /\ a[i + 1] = Step(a[i], l[i + 1]) /\ r[i + 1] = l[i + 1]
      BY <1>6, <1>7, <1>8, <2>2
    <2>4. QED
      BY <2>1, <2>2, <2>3
  <1>12. c[n] = a[n]
    <2>1. 0..n \subseteq E
      <3> HIDE DEF E
      <3>1. QED
        BY <1>6, <1>10, <1>11, IntervalInduction
    <2>2. QED
      BY <1>6, <2>1
  <1>13. c[n + 1] = Step(a[n], e)
    <2>1. n + 1 \in 1..(n + 1) /\ (n + 1) - 1 = n
      BY <1>6
    <2>2. QED
      BY <1>6, <1>8, <1>12, <2>1
  <1>14. a[n] \in Seq(Sample)
    BY <1>6, <1>7 DEF V
  <1>15. Kept(r) = Step(Kept(l), e)
    BY <1>9, <1>13
  <1>16. QED
    BY <1>9, <1>14, <1>15, <1>20 DEF Step, r

-----------------------------------------------------------------------------
(* pctl_add: the next place of the ring is the newest, the others are one  *)
(* older.                                                                  *)
LEMMA AddSample ==
    ASSUME NEW g, NEW ks, Ring(g, ks), NEW e \in Sample, e.addr # NoHopAddr, e.rtt # 0
    PROVE  Ring(pctl_add(g, e.addr, e.rtt, e.ts), Append(ks, e))
  <1> DEFINE S == SampleMax
             r == pctl_add(g, e.addr, e.rtt, e.ts)
             new == Append(ks, e)
             n == Len(ks)
  <1>1. S \in Nat /\ S > 0
    BY PctlSizes
  <1>2. /\ g.ring \in [0..(S - 1) -> Sample] /\ g.head \in 0..(S - 1) /\ g.count \in 0..S
        /\ ks \in Seq(Sample) /\ g.count = Smaller(n, S) /\ n \in Nat
        /\ \A j \in 1..g.count : g.ring[RingPlace(g.head, S, j)] = ks[n - j + 1]
    BY LenProperties DEF Ring, Samples
  <1>3. r = [ring |-> [g.ring EXCEPT ![g.head] = e], head |-> (g.head + 1) % S, count |-> Smaller(g.count + 1, S)]
    <2>1. e = [addr |-> e.addr, rtt |-> e.rtt, ts |-> e.ts]
      BY DEF Sample
    <2>2. QED
      BY <2>1 DEF pctl_add
  <1>4. (g.head + 1) % S = (IF g.head + 1 < S THEN g.head + 1 ELSE 0) /\ (g.head + 1) % S \in 0..(S - 1)
    <2> DEFINE x == g.head + 1
    <2>1. x \in Nat /\ x < 2 * S /\ (x >= S => x - S = 0)
      BY <1>1, <1>2
    <2> HIDE DEF x, S
    <2>2. x % S = (IF x < S THEN x ELSE x - S) /\ x % S \in 0..(S - 1)
      BY <1>1, <2>1, Wrap
    <2>3. QED
      BY <1>1, <2>1, <2>2 DEF x
  <1>5. /\ new \in Seq(Sample) /\ Len(new) = n + 1 /\ new[n + 1] = e /\ \A i \in 1..n : new[i] = ks[i]
    BY <1>2, AppendProperties
  <1> DEFINE head == (g.head + 1) % S
             count == Smaller(g.count + 1, S)
             ring == [g.ring EXCEPT ![g.head] = e]
  <1>6. count \in 0..S /\ count = Smaller(n + 1, S) /\ count <= g.count + 1
    BY <1>1, <1>2 DEF Smaller
  <1>7. ring \in [0..(S - 1) -> Sample]
    BY <1>2
  <1> DEFINE h == g.head
  <1>14. h \in 0..(S - 1) /\ head = IF h + 1 < S THEN h + 1 ELSE 0
    BY <1>2, <1>4
  <1> HIDE DEF head, h, S
  <1>15. /\ RingPlace(head, S, 1) = h
         /\ \A j \in Nat : j > 1 /\ j - 1 < S =>
               /\ RingPlace(head, S, j) = RingPlace(h, S, j - 1) /\ RingPlace(h, S, j - 1) # h
               /\ RingPlace(h, S, j - 1) \in 0..(S - 1)
    BY <1>1, <1>14 DEF RingPlace
  <1> USE DEF h
  <1>8. ASSUME NEW j \in 1..count
        PROVE  ring[RingPlace(head, S, j)] = new[(n + 1) - j + 1]
    <2>1. CASE j = 1
      <3>1. RingPlace(head, S, j) = g.head
        BY <1>15, <2>1
      <3>2. (n + 1) - j + 1 = n + 1
        BY <1>2, <2>1
      <3>3. ring[g.head] = e
        BY <1>2
      <3>4. QED
        BY <1>5, <3>1, <3>2, <3>3
    <2>2. CASE j # 1
      <3>1. j - 1 \in 1..g.count /\ j - 1 < S /\ j - 1 <= n
        BY <1>1, <1>2, <1>6, <2>2 DEF Smaller
      <3>2. /\ RingPlace(head, S, j) = RingPlace(g.head, S, j - 1) /\ RingPlace(g.head, S, j - 1) # g.head
            /\ RingPlace(g.head, S, j - 1) \in 0..(S - 1)
        BY <1>6, <1>15, <2>2, <3>1
      <3>3. (n + 1) - j + 1 = n - (j - 1) + 1 /\ n - (j - 1) + 1 \in 1..n
        BY <1>2, <3>1
      <3>4. ring[RingPlace(g.head, S, j - 1)] = g.ring[RingPlace(g.head, S, j - 1)]
        BY <1>2, <3>2
      <3>5. g.ring[RingPlace(g.head, S, j - 1)] = ks[n - (j - 1) + 1]
        BY <1>2, <3>1
      <3>6. QED
        BY <1>5, <3>2, <3>3, <3>4, <3>5
    <2>3. QED
      BY <2>1, <2>2
  <1> HIDE DEF count, ring, new, n
  <1>9. r = [ring |-> ring, head |-> head, count |-> count]
    BY <1>3 DEF head, count, ring
  <1>10. head \in 0..(S - 1)
    BY <1>4 DEF head
  <1> SUFFICES Ring(r, new)
    BY DEF new
  <1> HIDE DEF r
  <1>11. r \in Samples /\ r.head = head /\ r.count = count /\ r.ring = ring
    BY <1>6, <1>7, <1>9, <1>10 DEF Samples, S
  <1>12. \A j \in 1..r.count : r.ring[RingPlace(r.head, S, j)] = new[Len(new) - j + 1]
    BY <1>5, <1>8, <1>11
  <1>13. QED
    BY <1>5, <1>6, <1>11, <1>12 DEF Ring, S

(* A place in the ring of minutes, and what bucket_add leaves in it, have  *)
(* their types.                                                            *)
LEMMA BucketType ==
    ASSUME NEW g \in Buckets, NEW ts \in Nat, NEW rtt \in Nat
    PROVE  bucket_add(g, ts, rtt) \in Buckets
  <1> DEFINE B == BucketMax
             live == Newest(g, B, g.count)
             found == {i \in DOMAIN live : g.ring[live[i]].start = bucket_start(ts)}
             cur == get_current_bucket(g, ts)
  <1>1. /\ B \in Nat /\ B > 0 /\ g.ring \in [0..(B - 1) -> Bucket] /\ g.head \in 0..(B - 1)
        /\ g.count \in 0..B
    BY PctlSizes DEF Buckets
  <1>2. bucket_start(ts) \in Nat
    <2>1. Minute \in Nat /\ Minute > 0
      BY PctlSizes
    <2>2. ts \div Minute \in Nat
      BY <2>1, SMT
    <2>3. QED
      BY <2>2 DEF bucket_start
  <1>3. cur.g \in Buckets /\ cur.at \in 0..(B - 1)
    <2>1. CASE found # {}
      <3>1. found \subseteq 1..g.count /\ found \subseteq Nat
        BY <1>1 DEF Newest
      <3> DEFINE m == CHOOSE i \in found : \A j \in found : i <= j
      <3>2. m \in found
        <4>1. \E i \in found : \A j \in found : i <= j
          <5> HIDE DEF found
          <5>1. QED
            BY <2>1, <3>1, NatSetLeast
        <4>2. QED
          BY <4>1, Zenon
      <3>3. cur = [g |-> g, at |-> live[m]]
        BY <2>1 DEF get_current_bucket
      <3> HIDE DEF m, cur
      <3>4. m \in 1..g.count
        BY <3>1, <3>2
      <3>5. live[m] = (g.head + B - g.count + m - 1) % B
        BY <3>4 DEF Newest
      <3>6. live[m] \in 0..(B - 1)
        <4> DEFINE x == g.head + B - g.count + m - 1
        <4>1. x \in Nat /\ x < 2 * B
          BY <1>1, <3>4
        <4>2. x % B \in 0..(B - 1)
          <5> HIDE DEF x, B
          <5>1. QED
            BY <1>1, <4>1, Wrap
        <4>3. QED
          BY <3>5, <4>2
      <3>7. QED
        BY <3>3, <3>6
    <2>2. CASE found = {}
      <3> DEFINE b == Bucket0(bucket_start(ts))
                 x == g.head + 1
                 new == NewBucket(g, bucket_start(ts))
      <3>1. cur = [g |-> new, at |-> g.head]
        BY <2>2 DEF get_current_bucket
      <3>2. b \in Bucket
        <4>1. Infinity \in 0..Infinity
          BY PctlSizes
        <4>2. QED
          BY <1>2, <4>1 DEF Bucket0, Bucket
      <3>3. x % B \in 0..(B - 1)
        <4>1. x \in Nat /\ x < 2 * B
          BY <1>1
        <4> HIDE DEF x, B
        <4>2. QED
          BY <1>1, <4>1, Wrap
      <3>4. Smaller(g.count + 1, B) \in 0..B
        BY <1>1 DEF Smaller
      <3>5. [g.ring EXCEPT ![g.head] = b] \in [0..(B - 1) -> Bucket]
        BY <1>1, <3>2
      <3>6. new = [ring |-> [g.ring EXCEPT ![g.head] = b], head |-> x % B, count |-> Smaller(g.count + 1, B)]
        BY DEF NewBucket
      <3>7. new \in Buckets
        <4> HIDE DEF new, b, x
        <4>1. QED
          BY <3>3, <3>4, <3>5, <3>6 DEF Buckets
      <3>8. QED
        <4> HIDE DEF new, cur
        <4>1. QED
          BY <1>1, <3>1, <3>7
    <2>3. QED
      BY <2>1, <2>2
  <1> DEFINE h == cur.g
             at == cur.at
             old == h.ring[at]
             new == [start |-> old.start, min |-> Smaller(old.min, rtt), max |-> Larger(old.max, rtt),
                     sum |-> old.sum + rtt, count |-> old.count + 1]
  <1>4. bucket_add(g, ts, rtt) = [h EXCEPT !.ring[at] = new]
    BY DEF bucket_add
  <1> HIDE DEF cur
  <1>5. h \in Buckets /\ at \in 0..(B - 1)
    BY <1>3
  <1> HIDE DEF h, at
  <1>6. old \in Bucket
    BY <1>5 DEF Buckets
  <1> HIDE DEF old
  <1>7. new \in Bucket
    BY <1>6, PctlSizes DEF Bucket, Smaller, Larger
  <1> HIDE DEF new
  <1>8. QED
    <2>1. /\ h.ring \in [0..(B - 1) -> Bucket] /\ h.head \in 0..(B - 1) /\ h.count \in 0..B
          /\ h = [ring |-> h.ring, head |-> h.head, count |-> h.count]
      BY <1>5 DEF Buckets
    <2>2. [h.ring EXCEPT ![at] = new] \in [0..(B - 1) -> Bucket]
      BY <1>5, <1>7, <2>1
    <2>3. [h EXCEPT !.ring[at] = new]
            = [ring |-> [h.ring EXCEPT ![at] = new], head |-> h.head, count |-> h.count]
      BY <2>1
    <2>4. QED
      BY <1>4, <2>1, <2>2, <2>3 DEF Buckets

-----------------------------------------------------------------------------
(* Figures that are added up.                                              *)

Totals == [min : 0..Infinity, max : Nat, sum : Nat, count : Nat]
Items  == [min : Nat, max : Nat, sum : Nat, count : Nat] \cup Bucket

\* what the four figures are in the bucket of a minute
AsBucket(m, t) == [start |-> m, min |-> t.min, max |-> t.max, sum |-> t.sum, count |-> t.count]

(* Minimum, maximum and sums can be merged in any order, and Nothing adds  *)
(* nothing.                                                                *)
LEMMA MergeFacts ==
    /\ Nothing \in Totals /\ Totals \subseteq Items
    /\ \A rtt \in Nat : One(rtt) \in Items
    /\ \A a \in Totals, x \in Items : Merge(a, x) \in Totals
    /\ \A a \in Totals : Merge(a, Nothing) = a /\ Merge(Nothing, a) = a
    /\ \A a, b \in Totals, x \in Items : /\ Merge(Merge(a, b), x) = Merge(a, Merge(b, x))
                                         /\ Merge(Merge(a, b), x) = Merge(Merge(a, x), b)
  <1>1. Infinity \in Nat /\ Infinity \in 0..Infinity /\ 0..Infinity \subseteq Nat
    BY PctlSizes
  <1>2. Nothing \in Totals /\ Totals \subseteq Items
    BY <1>1 DEF Nothing, Totals, Items
  <1>3. \A rtt \in Nat : One(rtt) \in Items
    BY DEF One, Items
  <1>4. \A x, y \in Nat : /\ Smaller(x, y) \in Nat /\ Larger(x, y) \in Nat /\ x + y \in Nat
                          /\ (x <= Infinity => Smaller(x, y) \in 0..Infinity)
    BY <1>1 DEF Smaller, Larger
  <1>5. \A x, y, z \in Nat :
          /\ Smaller(Smaller(x, y), z) = Smaller(x, Smaller(y, z))
          /\ Smaller(Smaller(x, y), z) = Smaller(Smaller(x, z), y)
          /\ Larger(Larger(x, y), z) = Larger(x, Larger(y, z))
          /\ Larger(Larger(x, y), z) = Larger(Larger(x, z), y)
          /\ (x + y) + z = x + (y + z) /\ (x + y) + z = (x + z) + y
    BY DEF Smaller, Larger
  <1>10. ASSUME NEW x \in Items PROVE x.min \in Nat /\ x.max \in Nat /\ x.sum \in Nat /\ x.count \in Nat
    <2>1. CASE x \in Bucket
      BY <1>1, <2>1 DEF Bucket
    <2>2. CASE x \in [min : Nat, max : Nat, sum : Nat, count : Nat]
      BY <2>2
    <2>3. QED
      BY <2>1, <2>2 DEF Items
  <1>6. ASSUME NEW a \in Totals, NEW x \in Items PROVE Merge(a, x) \in Totals
    <2>1. /\ a.min \in Nat /\ a.min <= Infinity /\ a.max \in Nat /\ a.sum \in Nat /\ a.count \in Nat
          /\ x.min \in Nat /\ x.max \in Nat /\ x.sum \in Nat /\ x.count \in Nat
      BY <1>1, <1>10 DEF Totals
    <2>2. /\ Smaller(a.min, x.min) \in 0..Infinity /\ Larger(a.max, x.max) \in Nat
          /\ a.sum + x.sum \in Nat /\ a.count + x.count \in Nat
      BY <1>4, <2>1
    <2>3. QED
      BY <2>2 DEF Merge, Totals
  <1>7. ASSUME NEW a \in Totals PROVE Merge(a, Nothing) = a /\ Merge(Nothing, a) = a
    <2>1. /\ a = [min |-> a.min, max |-> a.max, sum |-> a.sum, count |-> a.count]
          /\ a.min \in Nat /\ a.min <= Infinity /\ a.max \in Nat /\ a.sum \in Nat /\ a.count \in Nat
      BY <1>1 DEF Totals
    <2>2. /\ Smaller(a.min, Infinity) = a.min /\ Larger(a.max, 0) = a.max /\ a.sum + 0 = a.sum /\ a.count + 0 = a.count
          /\ Smaller(Infinity, a.min) = a.min /\ Larger(0, a.max) = a.max /\ 0 + a.sum = a.sum /\ 0 + a.count = a.count
      BY <1>1, <2>1 DEF Smaller, Larger
    <2>3. Nothing.min = Infinity /\ Nothing.max = 0 /\ Nothing.sum = 0 /\ Nothing.count = 0
      BY DEF Nothing
    <2>4. QED
      BY <2>1, <2>2, <2>3 DEF Merge
  <1>8. ASSUME NEW a \in Totals, NEW b \in Totals, NEW x \in Items
        PROVE  /\ Merge(Merge(a, b), x) = Merge(a, Merge(b, x))
               /\ Merge(Merge(a, b), x) = Merge(Merge(a, x), b)
    <2>1. /\ a.min \in Nat /\ a.max \in Nat /\ a.sum \in Nat /\ a.count \in Nat
          /\ b.min \in Nat /\ b.max \in Nat /\ b.sum \in Nat /\ b.count \in Nat
          /\ x.min \in Nat /\ x.max \in Nat /\ x.sum \in Nat /\ x.count \in Nat
      BY <1>1, <1>10 DEF Totals
    <2>2. /\ Smaller(Smaller(a.min, b.min), x.min) = Smaller(a.min, Smaller(b.min, x.min))
          /\ Smaller(Smaller(a.min, b.min), x.min) = Smaller(Smaller(a.min, x.min), b.min)
          /\ Larger(Larger(a.max, b.max), x.max) = Larger(a.max, Larger(b.max, x.max))
          /\ Larger(Larger(a.max, b.max), x.max) = Larger(Larger(a.max, x.max), b.max)
      BY <1>5, <2>1
    <2>3. /\ (a.sum + b.sum) + x.sum = a.sum + (b.sum + x.sum)
          /\ (a.sum + b.sum) + x.sum = (a.sum + x.sum) + b.sum
          /\ (a.count + b.count) + x.count = a.count + (b.count + x.count)
          /\ (a.count + b.count) + x.count = (a.count + x.count) + b.count
      BY <2>1
    <2>4. QED
      BY <2>2, <2>3, Zenon DEF Merge
  <1>9. QED
    BY <1>2, <1>3, <1>6, <1>7, <1>8

LEMMA MergeOrder ==
    ASSUME NEW a \in Totals, NEW b \in Totals, NEW x \in Items
    PROVE  /\ Merge(Merge(a, b), x) = Merge(a, Merge(b, x))
           /\ Merge(Merge(a, b), x) = Merge(Merge(a, x), b)
  BY MergeFacts

(* The recursive function behind Total.                                    *)
Running(items, u) ==
    /\ u \in [0..Len(items) -> Totals] /\ u[0] = Nothing
    /\ \A i \in 1..Len(items) : u[i] = Merge(u[i - 1], items[i])

LEMMA Totalled ==
    ASSUME NEW items \in Seq(Items)
    PROVE  /\ \E u : Running(items, u) /\ Total(items) = u[Len(items)]
           /\ Total(items) \in Totals
  <1> DEFINE m == Len(items)
             Step(x, k) == Merge(x, items[k])
             Solves(u) == u = [k \in 0..m |-> IF k = 0 THEN Nothing ELSE Step(u[k - 1], k)]
             U == CHOOSE u : Solves(u)
             V == Totals
             F == [k \in 1..m |-> [x \in V |-> Step(x, k)]]
  <1>1. Total(items) = U[m]
    BY DEF Total
  <1>2. m \in Nat /\ \A k \in 1..m : items[k] \in Items
    BY LenProperties, ElementOfSeq
  <1>3. \A k \in 1..m : \A x \in V : Step(x, k) \in V
    BY <1>2, MergeFacts
  <1>4. Nothing \in V
    BY MergeFacts
  <1> HIDE DEF m, Step, V
  <1>5. F \in FiniteSteps(m, V)
    BY <1>3 DEF FiniteSteps
  <1>6. \A k \in 1..m : \A x \in V : F[k][x] = Step(x, k)
    OBVIOUS
  <1> HIDE DEF F
  <1>7. PICK h : h \in FiniteIterates(m, V, Nothing, F)
    BY <1>2, <1>4, <1>5, FiniteRecursion
  <1>8. h \in [0..m -> V] /\ h[0] = Nothing /\ \A k \in 1..m : h[k] = F[k][h[k - 1]]
    BY <1>7 DEF FiniteIterates
  <1>9. \A k \in 1..m : k - 1 \in 0..m /\ h[k] = Step(h[k - 1], k)
    BY <1>2, <1>6, <1>8
  <1>10. Solves(h)
    BY <1>2, <1>8, <1>9
  <1>11. Solves(U)
    <2> HIDE DEF Solves
    <2>1. QED
      BY <1>10
  <1> HIDE DEF U
  <1> DEFINE E == {k \in 0..m : U[k] \in V}
  <1>12. U[0] = Nothing /\ \A k \in 1..m : U[k] = Step(U[k - 1], k)
    BY <1>2, <1>11
  <1>13. 0 \in E
    BY <1>2, <1>4, <1>12
  <1>14. \A k \in 0..(m - 1) : k \in E => k + 1 \in E
    <2>1. SUFFICES ASSUME NEW k \in 0..(m - 1), U[k] \in V PROVE k + 1 \in E
      OBVIOUS
    <2>2. k + 1 \in 1..m /\ k + 1 \in 0..m /\ (k + 1) - 1 = k
      BY <1>2
    <2>3. U[k + 1] = Step(U[k], k + 1)
      BY <1>12, <2>2
    <2>4. QED
      BY <1>3, <2>1, <2>2, <2>3
  <1>15. 0..m \subseteq E
    <2> HIDE DEF E
    <2>1. QED
      BY <1>2, <1>13, <1>14, IntervalInduction
  <1>16. U = [k \in 0..m |-> U[k]]
    BY <1>11
  <1>17. U \in [0..m -> V] /\ U[m] \in V
    BY <1>2, <1>15, <1>16
  <1>18. Running(items, U)
    BY <1>12, <1>17 DEF Running, m, V, Step
  <1>19. QED
    BY <1>1, <1>17, <1>18 DEF m, V

(* Running totals are determined by their items.                           *)
LEMMA RunningSame ==
    ASSUME NEW s \in Seq(Items), NEW t \in Seq(Items), NEW n \in Nat, n <= Len(s), n <= Len(t),
           \A i \in 1..n : s[i] = t[i], NEW u, NEW v, Running(s, u), Running(t, v)
    PROVE  u[n] = v[n]
  <1> DEFINE E == {i \in 0..n : u[i] = v[i]}
  <1>1. Len(s) \in Nat /\ Len(t) \in Nat
    BY LenProperties
  <1>2. u[0] = v[0] /\ \A i \in 1..n : u[i] = Merge(u[i - 1], s[i]) /\ v[i] = Merge(v[i - 1], t[i])
    BY <1>1 DEF Running
  <1>3. 0 \in E
    BY <1>2
  <1>4. \A i \in 0..(n - 1) : i \in E => i + 1 \in E
    <2>1. SUFFICES ASSUME NEW i \in 0..(n - 1), u[i] = v[i] PROVE i + 1 \in E
      OBVIOUS
    <2>2. i + 1 \in 1..n /\ i + 1 \in 0..n /\ (i + 1) - 1 = i
      OBVIOUS
    <2>3. QED
      BY <1>2, <2>1, <2>2
  <1>5. 0..n \subseteq E
    <2> HIDE DEF E
    <2>1. QED
      BY <1>3, <1>4, IntervalInduction
  <1>6. QED
    BY <1>5

LEMMA TotalAppend ==
    ASSUME NEW s \in Seq(Items), NEW x \in Items
    PROVE  Total(Append(s, x)) = Merge(Total(s), x)
  <1> DEFINE t == Append(s, x)
             n == Len(s)
  <1>1. n \in Nat /\ t \in Seq(Items) /\ Len(t) = n + 1 /\ t[n + 1] = x /\ \A i \in 1..n : t[i] = s[i]
    BY AppendProperties, LenProperties
  <1> HIDE DEF t
  <1>2. PICK u : Running(s, u) /\ Total(s) = u[n]
    BY Totalled
  <1>3. PICK v : Running(t, v) /\ Total(t) = v[n + 1]
    BY <1>1, Totalled
  <1>4. u[n] = v[n]
    <2>1. n <= Len(s) /\ n <= Len(t) /\ \A i \in 1..n : s[i] = t[i]
      BY <1>1
    <2> HIDE DEF n
    <2>2. QED
      BY <1>1, <1>2, <1>3, <2>1, RunningSame
  <1>5. v[n + 1] = Merge(v[n], x)
    <2>1. n + 1 \in 1..Len(t) /\ (n + 1) - 1 = n
      BY <1>1
    <2>2. v[n + 1] = Merge(v[(n + 1) - 1], t[n + 1])
      BY <1>3, <2>1 DEF Running
    <2>3. QED
      BY <1>1, <2>1, <2>2
  <1>6. QED
    BY <1>2, <1>3, <1>4, <1>5 DEF t

-----------------------------------------------------------------------------
(* What was reported in some minutes.                                      *)

\* the minute of an entry, and the figures of some minutes
MinuteOf(l, i) == bucket_start(l[i].ts)
Figures(l, M)  == Total(Within(l, M))

LEMMA MinuteType == \A ts \in Nat : bucket_start(ts) \in Nat
  <1>1. Minute \in Nat /\ Minute > 0
    BY PctlSizes
  <1>2. \A ts \in Nat : ts \div Minute \in Nat
    BY <1>1, SMT
  <1>3. QED
    BY <1>2 DEF bucket_start

LEMMA WithinType ==
    ASSUME NEW l \in Seq(Sample), NEW M
    PROVE  /\ Within(l, M) \in Seq(Items) /\ Len(Within(l, M)) = Len(l) /\ Len(l) \in Nat
           /\ \A i \in 1..Len(l) :
                 /\ l[i] \in Sample /\ MinuteOf(l, i) \in Nat
                 /\ Within(l, M)[i] = IF MinuteOf(l, i) \in M THEN One(l[i].rtt) ELSE Nothing
           /\ Figures(l, M) \in Totals
  <1> DEFINE w == Within(l, M)
             n == Len(l)
  <1>1. n \in Nat /\ DOMAIN l = 1..n /\ \A i \in 1..n : l[i] \in Sample
    BY LenProperties, ElementOfSeq
  <1>2. \A i \in 1..n : l[i].rtt \in Nat /\ MinuteOf(l, i) \in Nat
    BY <1>1, MinuteType DEF Sample, MinuteOf
  <1>3. w = [i \in 1..n |-> IF MinuteOf(l, i) \in M THEN One(l[i].rtt) ELSE Nothing]
    BY <1>1 DEF Within, MinuteOf
  <1>4. \A i \in 1..n : (IF MinuteOf(l, i) \in M THEN One(l[i].rtt) ELSE Nothing) \in Items
    BY <1>2, MergeFacts
  <1> HIDE DEF n
  <1>5. w \in [1..n -> Items]
    BY <1>3, <1>4
  <1>6. w \in Seq(Items) /\ Len(w) = n
    BY <1>1, <1>5, SeqDef
  <1>7. Figures(l, M) \in Totals
    BY <1>6, Totalled DEF Figures
  <1>8. QED
    BY <1>1, <1>2, <1>3, <1>6, <1>7 DEF n

(* One more report.                                                        *)
LEMMA FiguresAppend ==
    ASSUME NEW l \in Seq(Sample), NEW e \in Sample, NEW M
    PROVE  Figures(Append(l, e), M)
              = IF bucket_start(e.ts) \in M THEN Merge(Figures(l, M), One(e.rtt)) ELSE Figures(l, M)
  <1> DEFINE r == Append(l, e)
             n == Len(l)
             x == IF bucket_start(e.ts) \in M THEN One(e.rtt) ELSE Nothing
  <1>1. n \in Nat /\ r \in Seq(Sample) /\ Len(r) = n + 1 /\ r[n + 1] = e /\ \A i \in 1..n : r[i] = l[i]
    BY AppendProperties, LenProperties
  <1>2. x \in Items
    <2>1. e.rtt \in Nat
      BY DEF Sample
    <2>2. QED
      BY <2>1, MergeFacts
  <1> HIDE DEF r
  <1>3. /\ Within(l, M) \in Seq(Items) /\ Len(Within(l, M)) = n
        /\ \A i \in 1..n : Within(l, M)[i] = IF MinuteOf(l, i) \in M THEN One(l[i].rtt) ELSE Nothing
    BY WithinType
  <1>4. /\ Within(r, M) \in Seq(Items) /\ Len(Within(r, M)) = n + 1
        /\ \A i \in 1..(n + 1) : Within(r, M)[i] = IF MinuteOf(r, i) \in M THEN One(r[i].rtt) ELSE Nothing
    BY <1>1, WithinType
  <1>5. Within(r, M)[n + 1] = x
    BY <1>1, <1>4 DEF MinuteOf
  <1>6. \A i \in 1..n : Within(r, M)[i] = Within(l, M)[i]
    BY <1>1, <1>3, <1>4 DEF MinuteOf
  <1> HIDE DEF x
  <1>7. Within(r, M) = Append(Within(l, M), x)
    <2> DEFINE a == Within(l, M)
               b == Within(r, M)
               c == Append(a, x)
    <2>1. c \in Seq(Items) /\ Len(c) = n + 1 /\ c[n + 1] = x /\ \A i \in 1..n : c[i] = a[i]
      BY <1>2, <1>3, AppendProperties
    <2> HIDE DEF a, b, c
    <2>2. b \in Seq(Items) /\ Len(b) = n + 1 /\ b[n + 1] = x /\ \A i \in 1..n : b[i] = a[i]
      BY <1>4, <1>5, <1>6 DEF a, b
    <2> HIDE DEF n
    <2>3. \A i \in 1..(n + 1) : b[i] = c[i]
      BY <1>1, <2>1, <2>2
    <2>4. b = c
      BY <2>1, <2>2, <2>3, SeqEqual
    <2>5. QED
      BY <2>4 DEF a, b, c
  <1>8. Total(Within(r, M)) = Merge(Figures(l, M), x) /\ Figures(l, M) \in Totals
    BY <1>2, <1>3, <1>7, TotalAppend, WithinType DEF Figures
  <1>9. QED
    BY <1>8, MergeFacts DEF Figures, x, r

(* No report, no figures.                                                  *)
LEMMA FiguresNone ==
    ASSUME NEW l \in Seq(Sample), NEW M, \A i \in 1..Len(l) : MinuteOf(l, i) \notin M
    PROVE  Figures(l, M) = Nothing
  <1> DEFINE w == Within(l, M)
             n == Len(l)
  <1>1. n \in Nat /\ w \in Seq(Items) /\ Len(w) = n /\ \A i \in 1..n : w[i] = Nothing
    BY WithinType
  <1> HIDE DEF w, n
  <1>2. PICK u : Running(w, u) /\ Total(w) = u[n]
    BY <1>1, Totalled
  <1>3. u[0] = Nothing /\ \A i \in 1..n : u[i] = Merge(u[i - 1], Nothing)
    BY <1>1, <1>2 DEF Running
  <1> DEFINE E == {i \in 0..n : u[i] = Nothing}
  <1>4. 0 \in E
    BY <1>1, <1>3
  <1>5. \A i \in 0..(n - 1) : i \in E => i + 1 \in E
    <2>1. SUFFICES ASSUME NEW i \in 0..(n - 1), u[i] = Nothing PROVE i + 1 \in E
      OBVIOUS
    <2>2. i + 1 \in 1..n /\ i + 1 \in 0..n /\ (i + 1) - 1 = i
      BY <1>1
    <2>3. Merge(Nothing, Nothing) = Nothing
      BY MergeFacts
    <2>4. QED
      BY <1>3, <2>1, <2>2, <2>3
  <1>6. 0..n \subseteq E
    <2> HIDE DEF E
    <2>1. QED
      BY <1>1, <1>4, <1>5, IntervalInduction
  <1>7. QED
    BY <1>1, <1>2, <1>6 DEF Figures, w

(* The figures of different minutes add up.                                *)
LEMMA FiguresUnion ==
    ASSUME NEW l \in Seq(Sample), NEW M, NEW N, M \cap N = {}
    PROVE  Figures(l, M \cup N) = Merge(Figures(l, M), Figures(l, N))
  <1> DEFINE K == M \cup N
             n == Len(l)
             a == Within(l, K)
             b == Within(l, M)
             c == Within(l, N)
  <1>1. /\ n \in Nat /\ \A i \in 1..n : l[i] \in Sample
        /\ a \in Seq(Items) /\ Len(a) = n /\ b \in Seq(Items) /\ Len(b) = n /\ c \in Seq(Items) /\ Len(c) = n
        /\ \A i \in 1..n : /\ a[i] = IF MinuteOf(l, i) \in K THEN One(l[i].rtt) ELSE Nothing
                           /\ b[i] = IF MinuteOf(l, i) \in M THEN One(l[i].rtt) ELSE Nothing
                           /\ c[i] = IF MinuteOf(l, i) \in N THEN One(l[i].rtt) ELSE Nothing
    BY WithinType
  <1>2. ASSUME NEW i \in 1..n
        PROVE  (b[i] = a[i] /\ c[i] = Nothing) \/ (c[i] = a[i] /\ b[i] = Nothing)
    <2> DEFINE x == MinuteOf(l, i)
    <2>1. /\ a[i] = IF x \in K THEN One(l[i].rtt) ELSE Nothing
          /\ b[i] = IF x \in M THEN One(l[i].rtt) ELSE Nothing
          /\ c[i] = IF x \in N THEN One(l[i].rtt) ELSE Nothing
      BY <1>1
    <2> HIDE DEF a, b, c, n, x
    <2>2. ~(x \in M /\ x \in N) /\ (x \in K <=> x \in M \/ x \in N)
      OBVIOUS
    <2> HIDE DEF K
    <2>3. CASE x \in M
      BY <2>1, <2>2, <2>3
    <2>4. CASE x \in N
      BY <2>1, <2>2, <2>4
    <2>5. CASE x \notin K
      BY <2>1, <2>2, <2>5
    <2>6. QED
      BY <2>2, <2>3, <2>4, <2>5
  <1> HIDE DEF a, b, c, n
  <1>3. \A i \in 1..n : a[i] \in Items /\ b[i] \in Items /\ c[i] \in Items
    BY <1>1, ElementOfSeq
  <1>4. PICK u : Running(a, u) /\ Total(a) = u[n]
    BY <1>1, Totalled
  <1>5. PICK v : Running(b, v) /\ Total(b) = v[n]
    BY <1>1, Totalled
  <1>6. PICK w : Running(c, w) /\ Total(c) = w[n]
    BY <1>1, Totalled
  <1>7. /\ u[0] = Nothing /\ v[0] = Nothing /\ w[0] = Nothing
        /\ \A i \in 0..n : u[i] \in Totals /\ v[i] \in Totals /\ w[i] \in Totals
        /\ \A i \in 1..n : u[i] = Merge(u[i - 1], a[i]) /\ v[i] = Merge(v[i - 1], b[i]) /\ w[i] = Merge(w[i - 1], c[i])
    BY <1>1, <1>4, <1>5, <1>6 DEF Running
  <1> DEFINE E == {i \in 0..n : u[i] = Merge(v[i], w[i])}
  <1>8. 0 \in E
    <2>1. Merge(Nothing, Nothing) = Nothing
      BY MergeFacts
    <2>2. QED
      BY <1>1, <1>7, <2>1
  <1>9. \A i \in 0..(n - 1) : i \in E => i + 1 \in E
    <2>1. SUFFICES ASSUME NEW i \in 0..(n - 1), u[i] = Merge(v[i], w[i]) PROVE i + 1 \in E
      OBVIOUS
    <2>2. i + 1 \in 1..n /\ i + 1 \in 0..n /\ (i + 1) - 1 = i /\ i \in 0..n
      BY <1>1
    <2>3. /\ u[i + 1] = Merge(Merge(v[i], w[i]), a[i + 1])
          /\ v[i + 1] = Merge(v[i], b[i + 1]) /\ w[i + 1] = Merge(w[i], c[i + 1])
      BY <1>7, <2>1, <2>2
    <2>4. v[i] \in Totals /\ w[i] \in Totals /\ a[i + 1] \in Items
      BY <1>3, <1>7, <2>2
    <2>5. CASE b[i + 1] = a[i + 1] /\ c[i + 1] = Nothing
      <3>1. w[i + 1] = w[i] /\ v[i + 1] = Merge(v[i], a[i + 1])
        BY <2>3, <2>4, <2>5, MergeFacts
      <3>2. Merge(Merge(v[i], w[i]), a[i + 1]) = Merge(Merge(v[i], a[i + 1]), w[i])
        BY <2>4, MergeOrder
      <3>3. u[i + 1] = Merge(v[i + 1], w[i + 1])
        BY <2>3, <3>1, <3>2
      <3>4. QED
        BY <2>2, <3>3
    <2>6. CASE c[i + 1] = a[i + 1] /\ b[i + 1] = Nothing
      <3>1. v[i + 1] = v[i] /\ w[i + 1] = Merge(w[i], a[i + 1])
        BY <2>3, <2>4, <2>6, MergeFacts
      <3>2. Merge(Merge(v[i], w[i]), a[i + 1]) = Merge(v[i], Merge(w[i], a[i + 1]))
        BY <2>4, MergeOrder
      <3>3. u[i + 1] = Merge(v[i + 1], w[i + 1])
        BY <2>3, <3>1, <3>2
      <3>4. QED
        BY <2>2, <3>3
    <2>7. QED
      BY <1>2, <2>2, <2>5, <2>6
  <1>10. 0..n \subseteq E
    <2> HIDE DEF E
    <2>1. QED
      BY <1>1, <1>8, <1>9, IntervalInduction
  <1>11. u[n] = Merge(v[n], w[n])
    BY <1>1, <1>10
  <1>12. QED
    BY <1>4, <1>5, <1>6, <1>11 DEF Figures, a, b, c

-----------------------------------------------------------------------------
(* The ring of minutes.                                                    *)

(* bg: where in the log a new minute begins, in this order.                *)
Starts(l, bg) ==
    /\ bg \in Seq(Nat)
    /\ \A j \in 1..Len(bg) : /\ bg[j] \in 1..Len(l)
                             /\ \A i \in 1..(bg[j] - 1) : MinuteOf(l, i) # MinuteOf(l, bg[j])
    /\ \A i, j \in 1..Len(bg) : i < j => bg[i] < bg[j]
    /\ \A i \in 1..Len(l) : \E j \in 1..Len(bg) : MinuteOf(l, bg[j]) = MinuteOf(l, i)

\* the bucket of a minute, as it should be
Row(l, m) == AsBucket(m, Figures(l, {m}))

Rows(g, l, bg) ==
    /\ g \in Buckets /\ Starts(l, bg) /\ g.count = Smaller(Len(bg), BucketMax)
    /\ \A j \in 1..g.count :
          g.ring[RingPlace(g.head, BucketMax, j)] = Row(l, MinuteOf(l, bg[Len(bg) - j + 1]))

LEMMA ImageSize ==
    ASSUME NEW J, IsFiniteSet(J), NEW f, DOMAIN f = J, \A i, j \in J : f[i] = f[j] => i = j
    PROVE  IsFiniteSet({f[j] : j \in J}) /\ Cardinality({f[j] : j \in J}) = Cardinality(J)
  <1> DEFINE T == {f[j] : j \in J}
             h == [j \in J |-> f[j]]
  <1>1. h \in Bijection(J, T)
    BY DEF Bijection, Injection, Surjection, IsInjective
  <1>2. ExistsBijection(J, T)
    BY <1>1 DEF ExistsBijection
  <1> HIDE DEF T
  <1>3. QED
    BY <1>2, FS_Bijection DEF T

(* The minutes begin at different places, and there are as many of them.   *)
LEMMA StartsFacts ==
    ASSUME NEW l \in Seq(Sample), NEW bg, Starts(l, bg)
    PROVE  /\ Len(bg) \in Nat /\ Len(l) \in Nat /\ DOMAIN l = 1..Len(l)
           /\ \A j \in 1..Len(bg) : bg[j] \in 1..Len(l) /\ MinuteOf(l, bg[j]) \in Nat
           /\ \A i, j \in 1..Len(bg) : MinuteOf(l, bg[i]) = MinuteOf(l, bg[j]) => i = j
           /\ Minutes(l) = {MinuteOf(l, bg[j]) : j \in 1..Len(bg)}
           /\ Cardinality(Minutes(l)) = Len(bg)
  <1> DEFINE n == Len(bg)
             f == [j \in 1..n |-> MinuteOf(l, bg[j])]
  <1>1. n \in Nat /\ Len(l) \in Nat /\ DOMAIN l = 1..Len(l)
    BY LenProperties DEF Starts
  <1>2. /\ \A j \in 1..n : bg[j] \in 1..Len(l) /\ \A i \in 1..(bg[j] - 1) : MinuteOf(l, i) # MinuteOf(l, bg[j])
        /\ \A i, j \in 1..n : i < j => bg[i] < bg[j]
        /\ \A i \in 1..Len(l) : \E j \in 1..n : MinuteOf(l, bg[j]) = MinuteOf(l, i)
    BY DEF Starts
  <1>3. \A j \in 1..n : bg[j] \in 1..Len(l) /\ MinuteOf(l, bg[j]) \in Nat
    BY <1>2, WithinType
  <1> HIDE DEF n
  <1>4. ASSUME NEW i \in 1..n, NEW j \in 1..n, i < j PROVE MinuteOf(l, bg[i]) # MinuteOf(l, bg[j])
    <2>1. bg[i] < bg[j] /\ bg[i] \in 1..Len(l) /\ bg[j] \in 1..Len(l)
      BY <1>2, <1>4
    <2>2. bg[i] \in 1..(bg[j] - 1)
      BY <1>1, <2>1
    <2>3. QED
      BY <1>2, <2>2
  <1>5. ASSUME NEW i \in 1..n, NEW j \in 1..n, MinuteOf(l, bg[i]) = MinuteOf(l, bg[j]) PROVE i = j
    <2>1. i < j \/ j < i \/ i = j
      BY <1>1
    <2>2. QED
      BY <1>4, <1>5, <2>1
  <1>6. Minutes(l) = {MinuteOf(l, bg[j]) : j \in 1..n}
    <2>1. Minutes(l) = {MinuteOf(l, i) : i \in 1..Len(l)}
      BY <1>1 DEF Minutes, MinuteOf
    <2>2. QED
      BY <1>2, <1>3, <2>1
  <1>7. {f[j] : j \in 1..n} = {MinuteOf(l, bg[j]) : j \in 1..n}
    OBVIOUS
  <1>8. IsFiniteSet(1..n) /\ Cardinality(1..n) = n
    BY <1>1, FS_Interval, SMTT(30)
  <1>9. Cardinality({f[j] : j \in 1..n}) = n
    <2>1. DOMAIN f = 1..n /\ \A i, j \in 1..n : f[i] = f[j] => i = j
      BY <1>5
    <2> DEFINE J == 1..n
    <2>2. IsFiniteSet(J) /\ DOMAIN f = J /\ \A i, j \in J : f[i] = f[j] => i = j
      BY <1>8, <2>1
    <2> HIDE DEF f, J
    <2>3. Cardinality({f[j] : j \in J}) = Cardinality(J)
      BY <2>2, ImageSize
    <2>4. QED
      BY <1>8, <2>3 DEF J
  <1>10. QED
    BY <1>1, <1>3, <1>5, <1>6, <1>7, <1>9 DEF n

(* The place of the i-th of the newest n.                                  *)
LEMMA NewestPlace ==
    ASSUME NEW g, NEW size \in Nat, size > 0, g.head \in 0..(size - 1), NEW n \in 0..size, NEW i \in 1..n
    PROVE  Newest(g, size, n)[i] = RingPlace(g.head, size, n - i + 1) /\ n - i + 1 \in 1..n
  <1> DEFINE h == g.head
             x == h + size - n + i - 1
             j == n - i + 1
  <1>1. h \in 0..(size - 1)
    OBVIOUS
  <1>2. Newest(g, size, n)[i] = x % size
    BY DEF Newest
  <1> HIDE DEF h
  <1>3. x \in Nat /\ x < 2 * size /\ j \in 1..n /\ (IF x < size THEN x ELSE x - size) = RingPlace(h, size, j)
    BY <1>1 DEF RingPlace
  <1> HIDE DEF x, j
  <1>4. x % size = RingPlace(h, size, j)
    BY <1>3, Wrap
  <1>5. QED
    BY <1>2, <1>3, <1>4 DEF h, j

(* The head moves on: places become one older, the head the newest.        *)
LEMMA RingShift ==
    ASSUME NEW S \in Nat, S > 0, NEW h \in 0..(S - 1)
    PROVE  /\ (h + 1) % S \in 0..(S - 1) /\ RingPlace((h + 1) % S, S, 1) = h
           /\ \A j \in 2..S : /\ RingPlace((h + 1) % S, S, j) = RingPlace(h, S, j - 1)
                              /\ RingPlace(h, S, j - 1) # h
           /\ \A j \in 1..S : RingPlace(h, S, j) \in 0..(S - 1)
           /\ \A i, j \in 1..S : RingPlace(h, S, i) = RingPlace(h, S, j) => i = j
  <1> DEFINE head == (h + 1) % S
             x == h + 1
  <1>1. x \in Nat /\ x < 2 * S /\ (x >= S => x - S = 0)
    OBVIOUS
  <1>2. head = (IF h + 1 < S THEN h + 1 ELSE 0) /\ head \in 0..(S - 1)
    <2> HIDE DEF x
    <2>1. x % S = (IF x < S THEN x ELSE x - S) /\ x % S \in 0..(S - 1)
      BY <1>1, Wrap
    <2>2. QED
      BY <1>1, <2>1 DEF x
  <1> HIDE DEF head
  <1>3. RingPlace(head, S, 1) = h
    BY <1>2 DEF RingPlace
  <1>4. \A j \in 2..S : RingPlace(head, S, j) = RingPlace(h, S, j - 1) /\ RingPlace(h, S, j - 1) # h
    BY <1>2 DEF RingPlace
  <1>5. \A j \in 1..S : RingPlace(h, S, j) \in 0..(S - 1)
    BY DEF RingPlace
  <1>6. \A i, j \in 1..S : RingPlace(h, S, i) = RingPlace(h, S, j) => i = j
    BY DEF RingPlace
  <1>7. QED
    BY <1>2, <1>3, <1>4, <1>5, <1>6 DEF head

(* The buckets of some minutes together have the figures of these minutes. *)
LEMMA RowsTotal ==
    ASSUME NEW l \in Seq(Sample), NEW items \in Seq(Items), NEW ms, DOMAIN ms = 1..Len(items),
           \A i \in 1..Len(items) : items[i] = Row(l, ms[i]),
           \A i, j \in 1..Len(items) : ms[i] = ms[j] => i = j
    PROVE  Total(items) = Figures(l, {ms[i] : i \in 1..Len(items)})
  <1> DEFINE n == Len(items)
             M(i) == {ms[p] : p \in 1..i}
  <1>1. n \in Nat
    BY LenProperties
  <1>2. PICK u : Running(items, u) /\ Total(items) = u[n]
    BY Totalled
  <1>3. u[0] = Nothing /\ \A i \in 1..n : u[i] = Merge(u[i - 1], items[i])
    BY <1>2 DEF Running
  <1>4. \A i \in 1..n : items[i] = Row(l, ms[i])
    OBVIOUS
  <1>5. \A i, j \in 1..n : ms[i] = ms[j] => i = j
    OBVIOUS
  <1> HIDE DEF n
  <1> DEFINE E == {i \in 0..n : u[i] = Figures(l, M(i))}
  <1>6. 0 \in E
    <2>1. M(0) = {}
      OBVIOUS
    <2>2. Figures(l, {}) = Nothing
      BY FiguresNone
    <2>3. u[0] = Figures(l, M(0))
      BY <1>3, <2>1, <2>2, Zenon
    <2> HIDE DEF M
    <2>4. QED
      BY <1>1, <2>3, SMTT(30)
  <1>7. \A i \in 0..(n - 1) : i \in E => i + 1 \in E
    <2>1. SUFFICES ASSUME NEW i \in 0..(n - 1), u[i] = Figures(l, M(i)) PROVE i + 1 \in E
      OBVIOUS
    <2>2. i + 1 \in 1..n /\ i + 1 \in 0..n /\ (i + 1) - 1 = i /\ 1..(i + 1) = (1..i) \cup {i + 1} /\ 1..i \subseteq 1..n
          /\ i + 1 \notin 1..i
      <3>1. i \in Nat /\ i < n /\ n \in Nat
        BY <1>1
      <3>2. 1..(i + 1) = (1..i) \cup {i + 1}
        BY <3>1, SMTT(30)
      <3>3. 1..i \subseteq 1..n /\ i + 1 \notin 1..i
        BY <3>1, SMTT(30)
      <3>4. QED
        BY <3>1, <3>2, <3>3, SMTT(30)
    <2> DEFINE m == ms[i + 1]
    <2>3. M(i + 1) = M(i) \cup {m}
      BY <2>2, SMTT(30)
    <2>4. M(i) \cap {m} = {}
      BY <1>5, <2>2, SMTT(30)
    <2>5. u[i + 1] = Merge(u[i], Row(l, m))
      BY <1>3, <1>4, <2>2
    <2> HIDE DEF M, m
    <2>6. Figures(l, M(i + 1)) = Merge(Figures(l, M(i)), Figures(l, {m}))
      BY <2>3, <2>4, FiguresUnion
    <2>7. \A a : Merge(a, Row(l, m)) = Merge(a, Figures(l, {m}))
      BY DEF Merge, Row, AsBucket
    <2>8. QED
      BY <2>1, <2>2, <2>5, <2>6, <2>7
  <1>8. 0..n \subseteq E
    <2> HIDE DEF E
    <2>1. QED
      BY <1>1, <1>6, <1>7, IntervalInduction
  <1>9. u[n] = Figures(l, M(n))
    BY <1>1, <1>8
  <1>10. QED
    BY <1>2, <1>9 DEF n

-----------------------------------------------------------------------------
(* bucket_add.                                                             *)

(* A report more: the minutes of the others and the buckets of other       *)
(* minutes are as before.                                                  *)
LEMMA RowAppend ==
    ASSUME NEW l \in Seq(Sample), NEW e \in Sample
    PROVE  LET r == Append(l, e)
               m == bucket_start(e.ts)
           IN  /\ r \in Seq(Sample) /\ Len(l) \in Nat /\ Len(r) = Len(l) + 1 /\ m \in Nat
               /\ \A i \in 1..Len(l) : MinuteOf(r, i) = MinuteOf(l, i)
               /\ MinuteOf(r, Len(l) + 1) = m
               /\ \A k : k # m => Row(r, k) = Row(l, k)
               /\ Row(r, m) = AsBucket(m, Merge(Figures(l, {m}), One(e.rtt)))
  <1> DEFINE r == Append(l, e)
             m == bucket_start(e.ts)
  <1>1. r \in Seq(Sample) /\ Len(l) \in Nat /\ Len(r) = Len(l) + 1 /\ r[Len(l) + 1] = e /\ \A i \in 1..Len(l) : r[i] = l[i]
    BY AppendProperties, LenProperties
  <1>2. m \in Nat
    <2>1. e.ts \in Nat
      BY DEF Sample
    <2>2. QED
      BY <2>1, MinuteType
  <1>3. \A k : Figures(r, {k}) = IF m \in {k} THEN Merge(Figures(l, {k}), One(e.rtt)) ELSE Figures(l, {k})
    BY FiguresAppend
  <1>4. MinuteOf(r, Len(l) + 1) = m /\ \A i \in 1..Len(l) : MinuteOf(r, i) = MinuteOf(l, i)
    BY <1>1 DEF MinuteOf
  <1> HIDE DEF r, m
  <1>5. \A k : k # m => Figures(r, {k}) = Figures(l, {k})
    BY <1>3
  <1>6. Figures(r, {m}) = Merge(Figures(l, {m}), One(e.rtt))
    BY <1>3
  <1>7. QED
    BY <1>1, <1>2, <1>4, <1>5, <1>6 DEF Row, r, m

\* minutes that never go back, or few enough for the ring
Covered(l) ==
    \/ \A i, j \in 1..Len(l) : i <= j => MinuteOf(l, i) <= MinuteOf(l, j)
    \/ Cardinality(Minutes(l)) <= BucketMax

LEMMA CoveredBefore ==
    ASSUME NEW l \in Seq(Sample), NEW e \in Sample, Covered(Append(l, e))
    PROVE  /\ Covered(l)
           /\ Cardinality(Minutes(l)) \in Nat /\ Cardinality(Minutes(Append(l, e))) \in Nat
           /\ Cardinality(Minutes(l)) <= Cardinality(Minutes(Append(l, e)))
  <1> DEFINE r == Append(l, e)
             n == Len(l)
  <1>1. /\ r \in Seq(Sample) /\ n \in Nat /\ Len(r) = n + 1
        /\ \A i \in 1..n : MinuteOf(r, i) = MinuteOf(l, i)
    BY RowAppend
  <1>2. DOMAIN l = 1..n /\ DOMAIN r = 1..(n + 1)
    BY <1>1, LenProperties
  <1> HIDE DEF r, n
  <1>3. Minutes(l) = {MinuteOf(l, i) : i \in 1..n} /\ Minutes(r) = {MinuteOf(r, i) : i \in 1..(n + 1)}
    BY <1>2 DEF Minutes, MinuteOf
  <1>4. Minutes(l) \subseteq Minutes(r)
    BY <1>1, <1>3
  <1>5. IsFiniteSet(Minutes(r))
    <2> DEFINE f == [i \in 1..(n + 1) |-> MinuteOf(r, i)]
    <2>1. f \in Surjection(1..(n + 1), Minutes(r))
      BY <1>3 DEF Surjection
    <2>2. IsFiniteSet(1..(n + 1))
      BY <1>1, FS_Interval
    <2> HIDE DEF f
    <2>3. QED
      BY <2>1, <2>2, FS_Surjection
  <1>6. IsFiniteSet(Minutes(l)) /\ Cardinality(Minutes(l)) <= Cardinality(Minutes(r))
    BY <1>4, <1>5, FS_Subset
  <1>7. Cardinality(Minutes(l)) \in Nat /\ Cardinality(Minutes(r)) \in Nat
    BY <1>5, <1>6, FS_CardinalityType
  <1>8. Covered(l)
    <2>1. CASE Cardinality(Minutes(r)) <= BucketMax
      BY <1>6, <1>7, <2>1, PctlSizes DEF Covered
    <2>2. CASE \A i, j \in 1..Len(r) : i <= j => MinuteOf(r, i) <= MinuteOf(r, j)
      <3>1. ASSUME NEW i \in 1..n, NEW j \in 1..n, i <= j PROVE MinuteOf(l, i) <= MinuteOf(l, j)
        <4>1. i \in 1..Len(r) /\ j \in 1..Len(r)
          BY <1>1
        <4>2. QED
          BY <1>1, <2>2, <3>1, <4>1
      <3>2. QED
        BY <3>1 DEF Covered, n
    <2>3. QED
      BY <2>1, <2>2 DEF Covered, r
  <1>9. QED
    BY <1>6, <1>7, <1>8 DEF r

(* A minute that has begun before has its bucket still.                    *)
LEMMA StillThere ==
    ASSUME NEW g, NEW l \in Seq(Sample), NEW bg, Rows(g, l, bg), NEW e \in Sample, Covered(Append(l, e)),
           NEW i \in 1..Len(l), MinuteOf(l, i) = bucket_start(e.ts)
    PROVE  \E j \in 1..g.count : MinuteOf(l, bg[Len(bg) - j + 1]) = bucket_start(e.ts)
  <1> DEFINE r == Append(l, e)
             m == bucket_start(e.ts)
             n == Len(l)
             L == Len(bg)
             B == BucketMax
             c == g.count
  <1>1. Starts(l, bg) /\ c = Smaller(L, B)
    BY DEF Rows
  <1>2. /\ L \in Nat /\ \A j \in 1..L : bg[j] \in 1..n /\ MinuteOf(l, bg[j]) \in Nat
        /\ \A p, q \in 1..L : MinuteOf(l, bg[p]) = MinuteOf(l, bg[q]) => p = q
        /\ Cardinality(Minutes(l)) = L
    BY <1>1, StartsFacts
  <1>3. /\ Len(r) = n + 1 /\ n \in Nat /\ m \in Nat /\ MinuteOf(r, n + 1) = m
        /\ \A p \in 1..n : MinuteOf(r, p) = MinuteOf(l, p)
    BY RowAppend
  <1>4. Cardinality(Minutes(r)) \in Nat /\ Cardinality(Minutes(l)) <= Cardinality(Minutes(r)) /\ Covered(r)
    BY CoveredBefore
  <1>5. B \in Nat /\ B > 0
    BY PctlSizes
  <1>6. PICK q \in 1..L : MinuteOf(l, bg[q]) = m
    BY <1>1 DEF Starts
  <1> HIDE DEF r, m, n, L, B, c
  <1>7. CASE L <= B
    <2>1. c = L
      BY <1>1, <1>2, <1>5, <1>7 DEF Smaller
    <2>2. L - q + 1 \in 1..c /\ L - (L - q + 1) + 1 = q
      BY <1>2, <2>1
    <2>3. QED
      BY <1>6, <2>2 DEF m, L, c
  <1>8. CASE L > B
    <2>1. \A p, s \in 1..(n + 1) : p <= s => MinuteOf(r, p) <= MinuteOf(r, s)
      BY <1>2, <1>3, <1>4, <1>5, <1>8 DEF Covered, B
    <2>2. L \in 1..L /\ 1 \in 1..c /\ L - 1 + 1 = L
      BY <1>1, <1>2, <1>5, <1>8 DEF Smaller
    <2>3. bg[q] <= bg[L] /\ bg[q] \in 1..n /\ bg[L] \in 1..n
      <3>1. q = L \/ q < L
        BY <1>2
      <3>2. q < L => bg[q] < bg[L]
        BY <1>1, <2>2 DEF Starts, L
      <3>3. bg[q] \in 1..n /\ bg[L] \in 1..n
        BY <1>2, <2>2
      <3>4. QED
        BY <1>3, <3>1, <3>2, <3>3
    <2>4. bg[q] \in 1..(n + 1) /\ bg[L] \in 1..(n + 1) /\ n + 1 \in 1..(n + 1) /\ bg[L] <= n + 1
      BY <1>3, <2>3
    <2>5. MinuteOf(r, bg[q]) <= MinuteOf(r, bg[L]) /\ MinuteOf(r, bg[L]) <= MinuteOf(r, n + 1)
      BY <2>1, <2>3, <2>4
    <2>6. m <= MinuteOf(l, bg[L]) /\ MinuteOf(l, bg[L]) <= m /\ MinuteOf(l, bg[L]) \in Nat
      BY <1>2, <1>3, <1>6, <2>2, <2>3, <2>5
    <2>7. MinuteOf(l, bg[L]) = m
      BY <1>3, <2>6
    <2>8. QED
      BY <2>2, <2>7 DEF m, L, c
  <1>9. QED
    BY <1>2, <1>5, <1>7, <1>8

(* The bucket of a minute that has one gets the report.                    *)
LEMMA AddFound ==
    ASSUME NEW g, NEW l \in Seq(Sample), NEW bg, Rows(g, l, bg), NEW e \in Sample,
           NEW j \in 1..g.count, MinuteOf(l, bg[Len(bg) - j + 1]) = bucket_start(e.ts)
    PROVE  /\ bucket_add(g, e.ts, e.rtt).ring
                 = [g.ring EXCEPT ![RingPlace(g.head, BucketMax, j)] = Row(Append(l, e), bucket_start(e.ts))]
           /\ bucket_add(g, e.ts, e.rtt).head = g.head
           /\ bucket_add(g, e.ts, e.rtt).count = g.count
  <1> DEFINE r == Append(l, e)
             m == bucket_start(e.ts)
             L == Len(bg)
             B == BucketMax
             c == g.count
             h == g.head
             live == Newest(g, B, c)
             found == {i \in DOMAIN live : g.ring[live[i]].start = m}
             least == CHOOSE i \in found : \A k \in found : i <= k
             cur == get_current_bucket(g, e.ts)
  <1>1. /\ Starts(l, bg) /\ c = Smaller(L, B) /\ g \in Buckets /\ h \in 0..(B - 1) /\ c \in 0..B
        /\ \A k \in 1..c : g.ring[RingPlace(h, B, k)] = Row(l, MinuteOf(l, bg[L - k + 1]))
    BY DEF Rows, Buckets
  <1>2. B \in Nat /\ B > 0
    BY PctlSizes
  <1>3. L \in Nat /\ \A p, q \in 1..L : MinuteOf(l, bg[p]) = MinuteOf(l, bg[q]) => p = q
    BY <1>1, StartsFacts
  <1>4. DOMAIN live = 1..c
    BY DEF Newest
  <1>5. \A i \in 1..c : live[i] = RingPlace(h, B, c - i + 1) /\ c - i + 1 \in 1..c
    BY <1>1, <1>2, NewestPlace
  <1> HIDE DEF live, B, c, h, L
  <1>6. \A k \in 1..c : g.ring[RingPlace(h, B, k)].start = MinuteOf(l, bg[L - k + 1])
    <2>1. \A k : Row(l, k).start = k
      BY DEF Row, AsBucket
    <2>2. QED
      BY <1>1, <2>1
  <1>19. c \in Nat /\ c <= L
    BY <1>1, <1>2, <1>3 DEF Smaller
  <1>7. c - j + 1 \in 1..c /\ c - (c - j + 1) + 1 = j /\ j \in 1..c
    BY <1>1, <1>2 DEF c
  <1>8. c - j + 1 \in found
    <2>1. live[c - j + 1] = RingPlace(h, B, j)
      BY <1>5, <1>7
    <2>2. QED
      BY <1>4, <1>6, <1>7, <2>1 DEF L
  <1>9. ASSUME NEW i \in found PROVE i = c - j + 1
    <2>1. i \in 1..c /\ g.ring[live[i]].start = m
      BY <1>4, <1>9
    <2> DEFINE k == c - i + 1
    <2>2. k \in 1..c /\ MinuteOf(l, bg[L - k + 1]) = m
      BY <1>5, <1>6, <2>1
    <2>3. MinuteOf(l, bg[L - j + 1]) = m
      BY DEF L
    <2>4. k \in 1..c /\ j \in 1..c /\ i = c - k + 1
      BY <1>7, <1>19, <2>1, <2>2, SMTT(30)
    <2> HIDE DEF k
    <2>5. L - k + 1 \in 1..L /\ L - j + 1 \in 1..L
      BY <1>3, <1>19, <2>4
    <2>6. L - k + 1 = L - j + 1
      BY <1>3, <2>2, <2>3, <2>5
    <2>7. k = j
      BY <1>3, <1>19, <2>4, <2>6
    <2>8. QED
      BY <2>4, <2>7
  <1>10. found # {} /\ c - j + 1 <= c - j + 1
    BY <1>8, <1>19, SMTT(30)
  <1>11. cur = [g |-> g, at |-> live[least]]
    BY <1>10 DEF get_current_bucket, live, B, c
  <1>12. least = c - j + 1
    <2> HIDE DEF found
    <2>1. \E i \in found : \A k \in found : i <= k
      BY <1>8, <1>9, <1>10
    <2>2. least \in found
      BY <2>1
    <2>3. QED
      BY <1>9, <2>2
  <1> DEFINE at == RingPlace(h, B, j)
             old == g.ring[at]
             t == Figures(l, {m})
  <1>13. cur.g = g /\ cur.at = at
    <2> HIDE DEF cur, least
    <2>1. QED
      BY <1>5, <1>7, <1>11, <1>12
  <1>14. old = AsBucket(m, t)
    BY <1>1, <1>7 DEF Row, L
  <1> DEFINE x == [start |-> old.start, min |-> Smaller(old.min, e.rtt), max |-> Larger(old.max, e.rtt),
                   sum |-> old.sum + e.rtt, count |-> old.count + 1]
             new == bucket_add(g, e.ts, e.rtt)
  <1>15. new = [g EXCEPT !.ring[at] = x]
    BY <1>13 DEF bucket_add
  <1> HIDE DEF at, old, t
  <1>16. x = AsBucket(m, Merge(t, One(e.rtt)))
    BY <1>14 DEF AsBucket, Merge, One
  <1>17. AsBucket(m, Merge(t, One(e.rtt))) = Row(r, m)
    BY RowAppend DEF t
  <1> HIDE DEF x, new
  <1>18. new.ring = [g.ring EXCEPT ![at] = x] /\ new.head = g.head /\ new.count = g.count
    BY <1>1, <1>15 DEF Buckets
  <1>20. QED
    BY <1>16, <1>17, <1>18 DEF at, h, B, new

LEMMA FoundStep ==
    ASSUME NEW g, NEW l \in Seq(Sample), NEW bg, Rows(g, l, bg), NEW e \in Sample,
           NEW j \in 1..g.count, MinuteOf(l, bg[Len(bg) - j + 1]) = bucket_start(e.ts)
    PROVE  Rows(bucket_add(g, e.ts, e.rtt), Append(l, e), bg)
  <1> DEFINE r == Append(l, e)
             m == bucket_start(e.ts)
             n == Len(l)
             L == Len(bg)
             B == BucketMax
             c == g.count
             h == g.head
             at == RingPlace(h, B, j)
             new == bucket_add(g, e.ts, e.rtt)
  <1>1. new.count = c /\ new.head = h /\ new.ring = [g.ring EXCEPT ![at] = Row(r, m)]
    BY AddFound
  <1>2. e.ts \in Nat /\ e.rtt \in Nat
    BY DEF Sample
  <1>3. /\ Starts(l, bg) /\ c = Smaller(L, B) /\ g \in Buckets /\ h \in 0..(B - 1) /\ c \in 0..B
        /\ \A k \in 1..c : g.ring[RingPlace(h, B, k)] = Row(l, MinuteOf(l, bg[L - k + 1]))
        /\ g.ring \in [0..(B - 1) -> Bucket]
    BY DEF Rows, Buckets
  <1>4. new \in Buckets
    BY <1>2, <1>3, BucketType
  <1>5. B \in Nat /\ B > 0
    BY PctlSizes
  <1>6. /\ L \in Nat /\ \A p, q \in 1..L : MinuteOf(l, bg[p]) = MinuteOf(l, bg[q]) => p = q
        /\ \A p \in 1..L : bg[p] \in 1..n
    BY <1>3, StartsFacts
  <1>7. /\ n \in Nat /\ Len(r) = n + 1 /\ m \in Nat /\ MinuteOf(r, n + 1) = m
        /\ \A i \in 1..n : MinuteOf(r, i) = MinuteOf(l, i)
        /\ \A k : k # m => Row(r, k) = Row(l, k)
    BY RowAppend
  <1>9. MinuteOf(l, bg[L - j + 1]) = m /\ j \in 1..c
    OBVIOUS
  <1> HIDE DEF r, m, n, L, B, c, h, new
  <1>10. c \in Nat /\ c <= L /\ c <= B
    BY <1>3, <1>5, <1>6 DEF Smaller
  <1>11. \A k \in 1..c : L - k + 1 \in 1..L /\ k \in 1..B
    BY <1>5, <1>6, <1>10
  <1>12. \A p \in 1..L : MinuteOf(r, bg[p]) = MinuteOf(l, bg[p])
    BY <1>6, <1>7
  <1>13. Starts(r, bg)
    <2>1. bg \in Seq(Nat) /\ \A p, q \in 1..L : p < q => bg[p] < bg[q]
      BY <1>3 DEF Starts, L
    <2>2. ASSUME NEW p \in 1..L
          PROVE  bg[p] \in 1..(n + 1) /\ \A i \in 1..(bg[p] - 1) : MinuteOf(r, i) # MinuteOf(r, bg[p])
      <3>1. bg[p] \in 1..n /\ \A i \in 1..(bg[p] - 1) : MinuteOf(l, i) # MinuteOf(l, bg[p])
        BY <1>3, <1>6 DEF Starts, L
      <3>2. bg[p] \in 1..(n + 1) /\ \A i \in 1..(bg[p] - 1) : i \in 1..n
        BY <1>7, <3>1
      <3>3. QED
        BY <1>7, <1>12, <3>1, <3>2
    <2>3. ASSUME NEW i \in 1..(n + 1) PROVE \E p \in 1..L : MinuteOf(r, bg[p]) = MinuteOf(r, i)
      <3>1. CASE i \in 1..n
        <4>1. PICK p \in 1..L : MinuteOf(l, bg[p]) = MinuteOf(l, i)
          BY <1>3, <3>1 DEF Starts, L, n
        <4>2. QED
          BY <1>7, <1>12, <3>1, <4>1
      <3>2. CASE i = n + 1
        <4>1. L - j + 1 \in 1..L
          BY <1>9, <1>11
        <4>2. MinuteOf(r, bg[L - j + 1]) = m
          BY <1>9, <1>12, <4>1
        <4>3. QED
          BY <1>7, <3>2, <4>1, <4>2
      <3>3. QED
        BY <1>7, <3>1, <3>2
    <2>4. QED
      BY <1>7, <2>1, <2>2, <2>3 DEF Starts, L
  <1>14. ASSUME NEW k \in 1..c
         PROVE  new.ring[RingPlace(h, B, k)] = Row(r, MinuteOf(r, bg[L - k + 1]))
    <2>1. L - k + 1 \in 1..L /\ L - j + 1 \in 1..L /\ k \in 1..B /\ j \in 1..B
      BY <1>9, <1>11
    <2>2. RingPlace(h, B, k) \in 0..(B - 1) /\ (RingPlace(h, B, k) = at => k = j)
      <3>1. B \in Nat /\ B > 0 /\ h \in 0..(B - 1)
        BY <1>3, <1>5
      <3>2. /\ \A p \in 1..B : RingPlace(h, B, p) \in 0..(B - 1)
            /\ \A p, q \in 1..B : RingPlace(h, B, p) = RingPlace(h, B, q) => p = q
        BY <3>1, RingShift, ZenonT(30)
      <3>3. QED
        BY <2>1, <3>2
    <2>3. MinuteOf(r, bg[L - k + 1]) = MinuteOf(l, bg[L - k + 1])
      BY <1>12, <2>1
    <2>4. CASE k = j
      <3>1. new.ring[at] = Row(r, m)
        BY <1>3, <1>1, <2>2, <2>4
      <3>2. QED
        BY <1>9, <2>3, <2>4, <3>1
    <2>5. CASE k # j
      <3>1. L - k + 1 # L - j + 1
        BY <1>6, <1>10, <2>5
      <3>2. MinuteOf(l, bg[L - k + 1]) # m
        BY <1>6, <1>9, <2>1, <3>1
      <3>3. new.ring[RingPlace(h, B, k)] = g.ring[RingPlace(h, B, k)]
        BY <1>3, <1>1, <2>2, <2>5
      <3>4. QED
        BY <1>3, <1>7, <2>3, <3>2, <3>3
    <2>6. QED
      BY <2>4, <2>5
  <1>15. QED
    BY <1>3, <1>4, <1>1, <1>13, <1>14 DEF Rows, r, L, B, new

(* A minute that begins gets the next place.                               *)
LEMMA NewStep ==
    ASSUME NEW g, NEW l \in Seq(Sample), NEW bg, Rows(g, l, bg), NEW e \in Sample,
           \A i \in 1..Len(l) : MinuteOf(l, i) # bucket_start(e.ts)
    PROVE  Rows(bucket_add(g, e.ts, e.rtt), Append(l, e), Append(bg, Len(l) + 1))
  <1> DEFINE r == Append(l, e)
             m == bucket_start(e.ts)
             n == Len(l)
             L == Len(bg)
             B == BucketMax
             c == g.count
             h == g.head
             live == Newest(g, B, c)
             found == {i \in DOMAIN live : g.ring[live[i]].start = m}
             cur == get_current_bucket(g, e.ts)
             new == bucket_add(g, e.ts, e.rtt)
             bg2 == Append(bg, n + 1)
  <1>1. e.ts \in Nat /\ e.rtt \in Nat
    BY DEF Sample
  <1>2. /\ Starts(l, bg) /\ c = Smaller(L, B) /\ g \in Buckets /\ h \in 0..(B - 1) /\ c \in 0..B
        /\ \A k \in 1..c : g.ring[RingPlace(h, B, k)] = Row(l, MinuteOf(l, bg[L - k + 1]))
        /\ g.ring \in [0..(B - 1) -> Bucket]
    BY DEF Rows, Buckets
  <1>3. new \in Buckets
    BY <1>1, <1>2, BucketType
  <1>4. B \in Nat /\ B > 0
    BY PctlSizes
  <1>5. L \in Nat /\ \A p \in 1..L : bg[p] \in 1..n /\ MinuteOf(l, bg[p]) \in Nat
    BY <1>2, StartsFacts
  <1>6. /\ n \in Nat /\ Len(r) = n + 1 /\ m \in Nat /\ MinuteOf(r, n + 1) = m
        /\ \A i \in 1..n : MinuteOf(r, i) = MinuteOf(l, i)
        /\ \A k : k # m => Row(r, k) = Row(l, k)
        /\ Row(r, m) = AsBucket(m, Merge(Figures(l, {m}), One(e.rtt)))
    BY RowAppend
  <1>7. \A i \in 1..n : MinuteOf(l, i) # m
    OBVIOUS
  <1>8. Row(r, m) = AsBucket(m, Merge(Nothing, One(e.rtt)))
    <2>1. \A i \in 1..Len(l) : MinuteOf(l, i) \notin {m}
      BY <1>7
    <2>2. Figures(l, {m}) = Nothing
      BY <2>1, FiguresNone
    <2>3. QED
      BY <1>6, <2>2
  <1>9. DOMAIN live = 1..c /\ \A i \in 1..c : live[i] = RingPlace(h, B, c - i + 1) /\ c - i + 1 \in 1..c
    <2>1. DOMAIN live = 1..c
      BY DEF Newest
    <2>2. QED
      BY <1>2, <1>4, <2>1, NewestPlace
  <1> HIDE DEF r, n, L, B, c, h, live
  <1>10. c \in Nat /\ c <= L /\ c <= B
    BY <1>2, <1>4, <1>5 DEF Smaller
  <1>11. \A k \in 1..c : L - k + 1 \in 1..L /\ k \in 1..B
    BY <1>4, <1>5, <1>10
  <1>12. found = {}
    <2>1. \A k : Row(l, k).start = k
      BY DEF Row, AsBucket
    <2>2. \A k \in 1..c : g.ring[RingPlace(h, B, k)].start # m
      BY <1>2, <1>5, <1>7, <1>11, <2>1, SMTT(30)
    <2>3. QED
      BY <1>9, <2>2
  <1>13. cur = [g |-> NewBucket(g, m), at |-> h]
    BY <1>12 DEF get_current_bucket, live, B, c, h
  <1> DEFINE b == NewBucket(g, m)
             old == b.ring[h]
             x == [start |-> old.start, min |-> Smaller(old.min, e.rtt), max |-> Larger(old.max, e.rtt),
                   sum |-> old.sum + e.rtt, count |-> old.count + 1]
  <1>14. new = [b EXCEPT !.ring[h] = x]
    BY <1>13 DEF bucket_add
  <1>15. b = [ring |-> [g.ring EXCEPT ![h] = Bucket0(m)], head |-> (h + 1) % B, count |-> Smaller(c + 1, B)]
    BY DEF NewBucket, B, c, h
  <1>16. b.ring = [g.ring EXCEPT ![h] = Bucket0(m)] /\ b.head = (h + 1) % B /\ b.count = Smaller(c + 1, B)
    BY <1>15
  <1>17. old = AsBucket(m, Nothing)
    <2>1. old = Bucket0(m)
      BY <1>2, <1>16
    <2>2. QED
      BY <2>1 DEF Bucket0, AsBucket, Nothing
  <1> HIDE DEF old, m
  <1>18. x = Row(r, m)
    BY <1>8, <1>17 DEF AsBucket, Merge, One
  <1> HIDE DEF x, new
  <1>19. /\ new.ring = [b.ring EXCEPT ![h] = x] /\ new.head = (h + 1) % B /\ new.count = Smaller(c + 1, B)
    BY <1>14, <1>15
  <1> HIDE DEF b
  <1>20. /\ new.ring[h] = Row(r, m)
         /\ \A a \in 0..(B - 1) : a # h => new.ring[a] = g.ring[a]
    BY <1>2, <1>16, <1>18, <1>19
  <1>21. /\ bg2 \in Seq(Nat) /\ Len(bg2) = L + 1 /\ bg2[L + 1] = n + 1 /\ \A p \in 1..L : bg2[p] = bg[p]
    <2>1. bg \in Seq(Nat) /\ n + 1 \in Nat
      BY <1>2, <1>6 DEF Starts
    <2>2. QED
      BY <2>1, AppendProperties DEF L
  <1> HIDE DEF bg2
  <1>22. \A p \in 1..L : bg2[p] \in 1..n /\ MinuteOf(r, bg2[p]) = MinuteOf(l, bg[p]) /\ MinuteOf(l, bg[p]) # m
    BY <1>5, <1>6, <1>7, <1>21
  <1>23. Starts(r, bg2)
    <2>1. ASSUME NEW p \in 1..(L + 1)
          PROVE  bg2[p] \in 1..(n + 1) /\ \A i \in 1..(bg2[p] - 1) : MinuteOf(r, i) # MinuteOf(r, bg2[p])
      <3>1. CASE p \in 1..L
        <4>1. bg[p] \in 1..n /\ \A i \in 1..(bg[p] - 1) : MinuteOf(l, i) # MinuteOf(l, bg[p])
          BY <1>2, <1>5, <3>1 DEF Starts, L
        <4>2. bg2[p] = bg[p] /\ bg2[p] \in 1..(n + 1) /\ \A i \in 1..(bg[p] - 1) : i \in 1..n
          BY <1>6, <1>21, <3>1, <4>1
        <4>3. QED
          BY <1>6, <1>22, <3>1, <4>1, <4>2
      <3>2. CASE p = L + 1
        <4>1. bg2[p] = n + 1 /\ n + 1 \in 1..(n + 1) /\ (n + 1) - 1 = n
          BY <1>6, <1>21, <3>2
        <4>2. QED
          BY <1>6, <1>7, <4>1
      <3>3. QED
        BY <1>5, <3>1, <3>2
    <2>2. ASSUME NEW p \in 1..(L + 1), NEW q \in 1..(L + 1), p < q PROVE bg2[p] < bg2[q]
      <3>1. p \in 1..L
        BY <1>5, <2>2
      <3>2. CASE q \in 1..L
        <4>1. bg[p] < bg[q]
          BY <1>2, <2>2, <3>1, <3>2 DEF Starts, L
        <4>2. QED
          BY <1>21, <3>1, <3>2, <4>1
      <3>3. CASE q = L + 1
        <4>1. bg2[p] \in 1..n /\ bg2[q] = n + 1
          BY <1>21, <1>22, <3>1, <3>3
        <4>2. QED
          BY <1>6, <4>1
      <3>4. QED
        BY <1>5, <3>2, <3>3
    <2>3. ASSUME NEW i \in 1..(n + 1) PROVE \E p \in 1..(L + 1) : MinuteOf(r, bg2[p]) = MinuteOf(r, i)
      <3>1. CASE i \in 1..n
        <4>1. PICK p \in 1..L : MinuteOf(l, bg[p]) = MinuteOf(l, i)
          BY <1>2, <3>1 DEF Starts, L, n
        <4>2. p \in 1..(L + 1) /\ MinuteOf(r, bg2[p]) = MinuteOf(r, i)
          BY <1>5, <1>6, <1>22, <3>1, <4>1
        <4>3. QED
          BY <4>2
      <3>2. CASE i = n + 1
        <4>1. L + 1 \in 1..(L + 1)
          BY <1>5
        <4>2. QED
          BY <1>21, <3>2, <4>1
      <3>3. QED
        BY <1>6, <3>1, <3>2
    <2>4. QED
      BY <1>6, <1>21, <2>1, <2>2, <2>3 DEF Starts
  <1> DEFINE d == Smaller(c + 1, B)
             hh == (h + 1) % B
  <1>24. d \in Nat /\ d <= c + 1 /\ d <= B /\ d = Smaller(L + 1, B)
    BY <1>2, <1>4, <1>5, <1>10 DEF Smaller
  <1>25. /\ RingPlace(hh, B, 1) = h
         /\ \A k \in 2..B : RingPlace(hh, B, k) = RingPlace(h, B, k - 1) /\ RingPlace(h, B, k - 1) # h
         /\ \A k \in 1..B : RingPlace(h, B, k) \in 0..(B - 1)
    BY <1>2, <1>4, RingShift
  <1> HIDE DEF d, hh
  <1>26. ASSUME NEW k \in 1..d
         PROVE  new.ring[RingPlace(hh, B, k)] = Row(r, MinuteOf(r, bg2[(L + 1) - k + 1]))
    <2>1. CASE k = 1
      <3>1. (L + 1) - k + 1 = L + 1
        BY <1>5, <2>1
      <3>2. QED
        BY <1>6, <1>20, <1>21, <1>25, <2>1, <3>1
    <2>2. CASE k # 1
      <3>1. k \in 2..B /\ k - 1 \in 1..c /\ k - 1 \in 1..B /\ (L + 1) - k + 1 = L - (k - 1) + 1
        BY <1>4, <1>5, <1>10, <1>24, <2>2
      <3> DEFINE p == L - (k - 1) + 1
      <3>2. p \in 1..L
        BY <1>11, <3>1
      <3>3. /\ RingPlace(hh, B, k) = RingPlace(h, B, k - 1) /\ RingPlace(h, B, k - 1) # h
            /\ RingPlace(h, B, k - 1) \in 0..(B - 1)
        BY <1>25, <3>1
      <3>4. new.ring[RingPlace(hh, B, k)] = Row(l, MinuteOf(l, bg[p]))
        BY <1>2, <1>20, <3>1, <3>3
      <3> HIDE DEF p
      <3>5. MinuteOf(r, bg2[p]) = MinuteOf(l, bg[p]) /\ MinuteOf(l, bg[p]) # m
        BY <1>22, <3>2
      <3>6. QED
        BY <1>6, <3>1, <3>4, <3>5 DEF p
    <2>3. QED
      BY <2>1, <2>2
  <1>27. new.count = d /\ new.head = hh
    BY <1>19 DEF d, hh
  <1>28. QED
    BY <1>3, <1>21, <1>23, <1>24, <1>26, <1>27 DEF Rows, r, B, new, bg2, n

\* the ring of minutes is as it should be, unless it has dropped a minute
\* that came again
Tracked(g, l) == Covered(l) => \E bg : Rows(g, l, bg)

LEMMA BucketStep ==
    ASSUME NEW g \in Buckets, NEW l \in Seq(Sample), Tracked(g, l), NEW e \in Sample
    PROVE  Tracked(bucket_add(g, e.ts, e.rtt), Append(l, e))
  <1>1. SUFFICES ASSUME Covered(Append(l, e)) PROVE \E bg : Rows(bucket_add(g, e.ts, e.rtt), Append(l, e), bg)
    BY DEF Tracked
  <1>2. PICK bg : Rows(g, l, bg)
    BY <1>1, CoveredBefore DEF Tracked
  <1>3. CASE \E i \in 1..Len(l) : MinuteOf(l, i) = bucket_start(e.ts)
    <2>1. PICK i \in 1..Len(l) : MinuteOf(l, i) = bucket_start(e.ts)
      BY <1>3
    <2>2. PICK j \in 1..g.count : MinuteOf(l, bg[Len(bg) - j + 1]) = bucket_start(e.ts)
      BY <1>1, <1>2, <2>1, StillThere
    <2>3. QED
      BY <1>2, <2>2, FoundStep
  <1>4. CASE ~\E i \in 1..Len(l) : MinuteOf(l, i) = bucket_start(e.ts)
    <2>1. Rows(bucket_add(g, e.ts, e.rtt), Append(l, e), Append(bg, Len(l) + 1))
      BY <1>2, <1>4, NewStep
    <2>2. QED
      BY <2>1
  <1>5. QED
    BY <1>3, <1>4

-----------------------------------------------------------------------------
(* One telemetry line.                                                     *)

States == {st \in [samples : Samples, buckets : Buckets, log : Seq(Sample)] :
              Ring(st.samples, Kept(st.log)) /\ Tracked(st.buckets, st.log)}

\* the log is in the order of time, up to the present
Timely == {st \in States : /\ \A i \in 1..Len(st.log) : st.log[i].ts <= now
                           /\ \A i, j \in 1..Len(st.log) : i <= j => st.log[i].ts <= st.log[j].ts}

(* An answer is added to the log and to the rings.                         *)
LEMMA OnceStep ==
    ASSUME NEW st \in States, NEW hop \in HopSet, now \in Nat
    PROVE  AddOnce(st, hop) \in States
  <1> DEFINE e == [addr |-> hop.addr, rtt |-> hop.rtt, ts |-> now]
             g == pctl_add(st.samples, hop.addr, hop.rtt, now)
             b == bucket_add(st.buckets, now, hop.rtt)
             l == Append(st.log, e)
  <1>1. hop.addr \in HopAddr \cup {NoHopAddr} /\ hop.rtt \in Nat
    BY DEF HopSet
  <1>2. e \in Sample /\ e.addr = hop.addr /\ e.rtt = hop.rtt /\ e.ts = now
    BY <1>1 DEF Sample
  <1>3. /\ st.samples \in Samples /\ st.buckets \in Buckets /\ st.log \in Seq(Sample)
        /\ Ring(st.samples, Kept(st.log)) /\ Tracked(st.buckets, st.log)
    BY DEF States
  <1>4. b \in Buckets
    BY <1>1, <1>3, BucketType
  <1>11. Tracked(b, l)
    <2>1. b = bucket_add(st.buckets, e.ts, e.rtt)
      BY <1>2
    <2> HIDE DEF b, e
    <2>2. QED
      BY <1>2, <1>3, <2>1, BucketStep
  <1>5. AddOnce(st, hop) = [samples |-> g, buckets |-> b, log |-> l]
    BY DEF AddOnce
  <1> HIDE DEF e, b
  <1>6. l \in Seq(Sample)
    BY <1>2, <1>3, AppendProperties
  <1>7. Kept(l) = IF e.addr # NoHopAddr /\ e.rtt # 0 THEN Append(Kept(st.log), e) ELSE Kept(st.log)
    BY <1>2, <1>3, KeptAppend
  <1>8. Ring(g, Kept(l))
    <2>1. CASE e.addr # NoHopAddr /\ e.rtt # 0
      <3>1. g = pctl_add(st.samples, e.addr, e.rtt, e.ts)
        BY <1>2
      <3> HIDE DEF g
      <3>2. QED
        BY <1>2, <1>3, <1>7, <2>1, <3>1, AddSample
    <2>2. CASE ~(e.addr # NoHopAddr /\ e.rtt # 0)
      <3>1. g = st.samples
        BY <1>2, <2>2 DEF pctl_add
      <3>2. QED
        BY <1>3, <1>7, <2>2, <3>1
    <2>3. QED
      BY <2>1, <2>2
  <1> HIDE DEF g, l
  <1>9. g \in Samples
    BY <1>8 DEF Ring
  <1>10. QED
    BY <1>4, <1>5, <1>6, <1>8, <1>9, <1>11 DEF States

LEMMA TimelyStep ==
    ASSUME NEW st \in Timely, NEW hop \in HopSet, now \in Nat
    PROVE  AddOnce(st, hop) \in Timely
  <1> DEFINE e == [addr |-> hop.addr, rtt |-> hop.rtt, ts |-> now]
             l == st.log
             r == Append(l, e)
             n == Len(l)
  <1>1. /\ st \in States /\ l \in Seq(Sample) /\ \A i \in 1..n : l[i].ts <= now
        /\ \A i, j \in 1..n : i <= j => l[i].ts <= l[j].ts
    BY DEF Timely, States
  <1>2. e \in Sample /\ e.ts = now
    BY DEF HopSet, Sample
  <1>3. AddOnce(st, hop) \in States /\ AddOnce(st, hop).log = r
    BY <1>1, OnceStep DEF AddOnce
  <1> HIDE DEF e, l, n
  <1>4. n \in Nat /\ Len(r) = n + 1 /\ r[n + 1] = e /\ \A i \in 1..n : r[i] = l[i]
    BY <1>1, <1>2, AppendProperties, LenProperties DEF n
  <1> HIDE DEF r
  <1>5. \A i \in 1..(n + 1) : i \in 1..n \/ i = n + 1
    BY <1>4
  <1>6. \A i \in 1..(n + 1) : r[i].ts <= now
    BY <1>1, <1>2, <1>4, <1>5
  <1>7. ASSUME NEW i \in 1..(n + 1), NEW j \in 1..(n + 1), i <= j PROVE r[i].ts <= r[j].ts
    <2>1. CASE j = n + 1
      BY <1>2, <1>4, <1>6, <2>1
    <2>2. CASE j \in 1..n
      <3>1. i \in 1..n
        BY <1>4, <1>7, <2>2
      <3>2. QED
        BY <1>1, <1>4, <1>7, <2>2, <3>1
    <2>3. QED
      BY <1>5, <2>1, <2>2
  <1>8. QED
    BY <1>3, <1>4, <1>6, <1>7 DEF Timely

(* The copies of a hop's answer keep what one answer keeps.                *)
LEMMA HopAdded ==
    ASSUME NEW V, NEW st \in V, NEW hop \in HopSet, \A x \in V : AddOnce(x, hop) \in V
    PROVE  AddHop(st, hop) \in V
  <1> DEFINE m == Smaller(hop.recv, MaxCopies)
             Step(x) == AddOnce(x, hop)
             Solves(u) == u = [k \in 0..m |-> IF k = 0 THEN st ELSE Step(u[k - 1])]
             U == CHOOSE u : Solves(u)
             F == [k \in 1..m |-> [x \in V |-> Step(x)]]
  <1>1. AddHop(st, hop) = U[m]
    BY DEF AddHop
  <1>2. m \in Nat
    BY PctlSizes DEF Smaller, HopSet
  <1>3. \A x \in V : Step(x) \in V
    OBVIOUS
  <1>4. st \in V
    OBVIOUS
  <1> HIDE DEF m, Step
  <1>5. F \in FiniteSteps(m, V)
    BY <1>3 DEF FiniteSteps
  <1>6. \A k \in 1..m : \A x \in V : F[k][x] = Step(x)
    OBVIOUS
  <1> HIDE DEF F
  <1>7. PICK h : h \in FiniteIterates(m, V, st, F)
    BY <1>2, <1>4, <1>5, FiniteRecursion
  <1>8. h \in [0..m -> V] /\ h[0] = st /\ \A k \in 1..m : h[k] = F[k][h[k - 1]]
    BY <1>7 DEF FiniteIterates
  <1>9. \A k \in 1..m : k - 1 \in 0..m /\ h[k] = Step(h[k - 1])
    BY <1>2, <1>6, <1>8
  <1>10. Solves(h)
    BY <1>2, <1>8, <1>9
  <1>11. Solves(U)
    <2> HIDE DEF Solves
    <2>1. QED
      BY <1>10
  <1> HIDE DEF U
  <1> DEFINE E == {k \in 0..m : U[k] \in V}
  <1>12. 0 \in E
    BY <1>2, <1>4, <1>11
  <1>13. \A k \in 0..(m - 1) : k \in E => k + 1 \in E
    <2>1. SUFFICES ASSUME NEW k \in 0..(m - 1), U[k] \in V PROVE k + 1 \in E
      OBVIOUS
    <2>2. k + 1 \in 0..m /\ k + 1 # 0 /\ (k + 1) - 1 = k
      BY <1>2
    <2>3. U[k + 1] = Step(U[k])
      BY <1>11, <2>2
    <2>4. QED
      BY <1>3, <2>1, <2>2, <2>3
  <1>14. 0..m \subseteq E
    <2> HIDE DEF E
    <2>1. QED
      BY <1>2, <1>12, <1>13, IntervalInduction
  <1>15. QED
    BY <1>1, <1>2, <1>14

(* The hops of a line.                                                     *)
LEMMA HopsAdded ==
    ASSUME NEW V, NEW st \in V, NEW hops \in Seq(HopSet), \A x \in V, hop \in HopSet : AddOnce(x, hop) \in V
    PROVE  AddHops(st, hops) \in V
  <1> DEFINE m == Len(hops)
             Step(x, k) == AddHop(x, hops[k])
             Solves(u) == u = [k \in 0..m |-> IF k = 0 THEN st ELSE Step(u[k - 1], k)]
             U == CHOOSE u : Solves(u)
             F == [k \in 1..m |-> [x \in V |-> Step(x, k)]]
  <1>1. AddHops(st, hops) = U[m]
    BY DEF AddHops
  <1>2. m \in Nat /\ \A k \in 1..m : hops[k] \in HopSet
    BY LenProperties, ElementOfSeq
  <1>3. \A k \in 1..m : \A x \in V : Step(x, k) \in V
    BY <1>2, HopAdded
  <1>4. st \in V
    OBVIOUS
  <1> HIDE DEF m, Step
  <1>5. F \in FiniteSteps(m, V)
    BY <1>3 DEF FiniteSteps
  <1>6. \A k \in 1..m : \A x \in V : F[k][x] = Step(x, k)
    OBVIOUS
  <1> HIDE DEF F
  <1>7. PICK h : h \in FiniteIterates(m, V, st, F)
    BY <1>2, <1>4, <1>5, FiniteRecursion
  <1>8. h \in [0..m -> V] /\ h[0] = st /\ \A k \in 1..m : h[k] = F[k][h[k - 1]]
    BY <1>7 DEF FiniteIterates
  <1>9. \A k \in 1..m : k - 1 \in 0..m /\ h[k] = Step(h[k - 1], k)
    BY <1>2, <1>6, <1>8
  <1>10. Solves(h)
    BY <1>2, <1>8, <1>9
  <1>11. Solves(U)
    <2> HIDE DEF Solves
    <2>1. QED
      BY <1>10
  <1> HIDE DEF U
  <1> DEFINE E == {k \in 0..m : U[k] \in V}
  <1>12. 0 \in E
    BY <1>2, <1>4, <1>11
  <1>13. \A k \in 0..(m - 1) : k \in E => k + 1 \in E
    <2>1. SUFFICES ASSUME NEW k \in 0..(m - 1), U[k] \in V PROVE k + 1 \in E
      OBVIOUS
    <2>2. k + 1 \in 1..m /\ k + 1 \in 0..m /\ k + 1 # 0 /\ (k + 1) - 1 = k
      BY <1>2
    <2>3. U[k + 1] = Step(U[k], k + 1)
      BY <1>11, <2>2
    <2>4. QED
      BY <1>3, <2>1, <2>2, <2>3
  <1>14. 0..m \subseteq E
    <2> HIDE DEF E
    <2>1. QED
      BY <1>2, <1>12, <1>13, IntervalInduction
  <1>15. QED
    BY <1>1, <1>2, <1>14

-----------------------------------------------------------------------------
(* The theorem.                                                            *)

PctlInv == now \in Nat /\ setBacks \in Nat /\ State \in States /\ (setBacks = 0 => State \in Timely)

(* The invariant: both rings have their types, the one of samples holds    *)
(* the newest answers, the one of minutes a bucket for each of the minutes *)
(* that began last, and the log is in order until the clock is set back.   *)
THEOREM PctlInvariant == PctlSpec => []PctlInv
  <1>1. PctlInit => PctlInv
    <2>1. SUFFICES ASSUME PctlInit PROVE PctlInv
      OBVIOUS
    <2>2. /\ g_samples = [ring |-> [i \in 0..(SampleMax - 1) |-> NoSample], head |-> 0, count |-> 0]
          /\ g_buckets = [ring |-> [i \in 0..(BucketMax - 1) |-> [Bucket0(0) EXCEPT !.min = 0]],
                          head |-> 0, count |-> 0]
          /\ now = 0 /\ log = <<>> /\ setBacks = 0
      BY <2>1 DEF PctlInit
    <2>3. NoSample \in Sample
      BY DEF NoSample, Sample
    <2>4. 0 \in 0..(SampleMax - 1) /\ 0 \in 0..SampleMax /\ 0 \in 0..(BucketMax - 1) /\ 0 \in 0..BucketMax /\ 0 \in 0..Infinity
      BY PctlSizes
    <2>5. g_samples \in Samples
      BY <2>2, <2>3, <2>4 DEF Samples
    <2>6. [Bucket0(0) EXCEPT !.min = 0] \in Bucket
      BY <2>4 DEF Bucket0, Bucket
    <2>7. g_buckets \in Buckets
      BY <2>2, <2>4, <2>6 DEF Buckets
    <2>8. Kept(log) = <<>> /\ log \in Seq(Sample)
      <3>1. <<>> \in Seq(Sample)
        OBVIOUS
      <3>2. Kept(<<>>) = <<>>
        BY <2>3, <3>1, KeptAppend
      <3>3. QED
        BY <2>2, <3>1, <3>2, Zenon
    <2>9. Ring(g_samples, Kept(log))
      <3>1. Len(<<>>) = 0 /\ <<>> \in Seq(Sample) /\ g_samples.count = 0
        BY <2>2
      <3>2. Smaller(0, SampleMax) = 0
        BY PctlSizes DEF Smaller
      <3>3. QED
        BY <2>5, <2>8, <3>1, <3>2 DEF Ring
    <2>10. Rows(g_buckets, <<>>, <<>>)
      <3>1. Len(<<>>) = 0 /\ <<>> \in Seq(Nat) /\ 1..0 = {}
        OBVIOUS
      <3>2. Starts(<<>>, <<>>)
        BY <3>1 DEF Starts
      <3>3. g_buckets.count = 0 /\ Smaller(0, BucketMax) = 0
        BY <2>2, PctlSizes DEF Smaller
      <3>4. QED
        BY <2>7, <3>1, <3>2, <3>3 DEF Rows
    <2>11. Tracked(g_buckets, log)
      BY <2>2, <2>10 DEF Tracked
    <2>12. State \in States
      BY <2>5, <2>7, <2>8, <2>9, <2>11 DEF State, States
    <2>13. State \in Timely
      <3>1. State.log = <<>> /\ Len(<<>>) = 0 /\ 1..0 = {}
        BY <2>2 DEF State
      <3>2. QED
        BY <2>12, <3>1 DEF Timely
    <2>14. QED
      BY <2>2, <2>12, <2>13 DEF PctlInv
  <1>2. PctlInv /\ [PctlNext]_pctlVars => PctlInv'
    <2>1. SUFFICES ASSUME PctlInv, [PctlNext]_pctlVars PROVE PctlInv'
      OBVIOUS
    <2>2. now \in Nat /\ setBacks \in Nat /\ State \in States /\ (setBacks = 0 => State \in Timely)
      BY <2>1 DEF PctlInv
    <2>3. CASE Tick
      <3>1. now' = now + 1 /\ State' = State /\ setBacks' = setBacks
        BY <2>3 DEF Tick, State
      <3>2. ASSUME State \in Timely PROVE State' \in Timely'
        <4> DEFINE l == State.log
        <4>1. l \in Seq(Sample) /\ \A i \in 1..Len(l) : l[i].ts <= now
          BY <3>2 DEF Timely, States
        <4>2. \A i \in 1..Len(l) : l[i].ts \in Nat
          <5>1. \A i \in 1..Len(l) : l[i] \in Sample
            BY <4>1, ElementOfSeq
          <5>2. QED
            BY <5>1 DEF Sample
        <4>3. \A i \in 1..Len(l) : l[i].ts <= now + 1
          BY <2>2, <4>1, <4>2
        <4>4. QED
          BY <3>1, <3>2, <4>3 DEF Timely
      <3>3. QED
        BY <2>2, <3>1, <3>2 DEF PctlInv
    <2>4. CASE SetBack
      <3>1. now' \in Nat
        BY <2>2, <2>4, PctlSizes DEF SetBack
      <3>2. State' = State /\ setBacks' \in Nat /\ setBacks' # 0
        BY <2>2, <2>4 DEF SetBack, State
      <3>3. QED
        BY <2>2, <3>1, <3>2 DEF PctlInv
    <2>5. ASSUME NEW hops \in Lines, handle_update_telemetry(hops) PROVE PctlInv'
      <3> DEFINE st == AddHops(State, hops)
      <3>1. /\ g_samples' = st.samples /\ g_buckets' = st.buckets /\ log' = st.log
            /\ now' = now /\ setBacks' = setBacks
        BY <2>5 DEF handle_update_telemetry
      <3>2. hops \in Seq(HopSet)
        BY PctlSizes
      <3>3. st \in States
        <4>1. \A x \in States, hop \in HopSet : AddOnce(x, hop) \in States
          BY <2>2, OnceStep
        <4>2. QED
          BY <2>2, <3>2, <4>1, HopsAdded
      <3>4. State \in Timely => st \in Timely
        <4>1. \A x \in Timely, hop \in HopSet : AddOnce(x, hop) \in Timely
          BY <2>2, TimelyStep
        <4>2. QED
          BY <3>2, <4>1, HopsAdded
      <3> HIDE DEF st
      <3>5. State' = st
        <4>1. st = [samples |-> st.samples, buckets |-> st.buckets, log |-> st.log]
          BY <3>3 DEF States
        <4>2. QED
          BY <3>1, <4>1 DEF State
      <3>6. st \in Timely => State' \in Timely'
        BY <3>1, <3>5 DEF Timely
      <3>7. QED
        BY <2>2, <3>1, <3>3, <3>4, <3>5, <3>6 DEF PctlInv
    <2>6. CASE UNCHANGED pctlVars
      <3>1. State' = State /\ now' = now /\ setBacks' = setBacks
        BY <2>6 DEF pctlVars, State
      <3>2. State \in Timely => State' \in Timely'
        BY <3>1 DEF Timely
      <3>3. QED
        BY <2>2, <3>1, <3>2 DEF PctlInv
    <2>7. QED
      BY <2>1, <2>3, <2>4, <2>5, <2>6 DEF PctlNext
  <1>3. QED
    BY <1>1, <1>2, PTL DEF PctlSpec

(* The samples in the ring, oldest first, are the end of all that was      *)
(* added: compute_window_stats_for_addr sees what it should.               *)
LEMMA RingIsNewest ==
    ASSUME NEW g, NEW ks, Ring(g, ks), NEW places, places = Newest(g, SampleMax, g.count)
    PROVE  [i \in DOMAIN places |-> g.ring[places[i]]]
              = SubSeq(ks, Larger(1, Len(ks) - SampleMax + 1), Len(ks))
  <1> DEFINE S == SampleMax
             n == Len(ks)
             c == g.count
             h == g.head
             from == Larger(1, n - S + 1)
             all == [i \in DOMAIN places |-> g.ring[places[i]]]
             end == SubSeq(ks, from, n)
  <1>1. /\ S \in Nat /\ S > 0 /\ h \in 0..(S - 1) /\ c \in 0..S /\ n \in Nat /\ ks \in Seq(Sample)
        /\ c = Smaller(n, S) /\ \A j \in 1..c : g.ring[RingPlace(h, S, j)] = ks[n - j + 1]
    BY PctlSizes, LenProperties DEF Ring, Samples
  <1>2. DOMAIN places = 1..c /\ \A i \in 1..c : places[i] = (h + S - c + i - 1) % S
    BY DEF Newest
  <1>3. from \in Nat /\ from > 0 /\ n - from + 1 = c /\ from + c - 1 = n /\ (n > 0 => from <= n) /\ (n = 0 => from = 1)
    <2>1. S \in Nat /\ S > 0 /\ n \in Nat /\ c = Smaller(n, S)
      BY <1>1
    <2> HIDE DEF S, n, c
    <2>2. QED
      BY <2>1 DEF Larger, Smaller
  <1>4. end \in Seq(Sample) /\ Len(end) = c /\ \A i \in 1..c : end[i] = ks[from + i - 1]
    <2>1. \A i \in from..n : ks[i] \in Sample
      BY <1>1, <1>3, ElementOfSeq
    <2> HIDE DEF from, n
    <2>2. /\ end \in Seq(Sample) /\ Len(end) = (IF from <= n THEN n - from + 1 ELSE 0)
          /\ \A i \in 1..(n - from + 1) : end[i] = ks[from + i - 1]
      BY <1>1, <1>3, <2>1, SubSeqProperties
    <2>3. QED
      BY <1>1, <1>3, <2>2
  <1>5. ASSUME NEW i \in 1..c PROVE all[i] = end[i]
    <2> DEFINE x == h + S - c + i - 1
               j == c - i + 1
    <2>1. x \in Nat /\ x < 2 * S /\ j \in 1..c /\ (IF x < S THEN x ELSE x - S) = RingPlace(h, S, j) /\ n - j + 1 = from + i - 1
      <3>1. /\ S \in Nat /\ S > 0 /\ h \in 0..(S - 1) /\ c \in 0..S /\ n \in Nat /\ i \in 1..c
            /\ from \in Nat /\ from + c - 1 = n
        BY <1>1, <1>3
      <3> HIDE DEF S, n, c, h, from
      <3>2. QED
        BY <3>1 DEF RingPlace
    <2>2. x % S = RingPlace(h, S, j)
      <3> HIDE DEF x, S, j
      <3>1. QED
        BY <1>1, <2>1, Wrap
    <2>3. all[i] = g.ring[RingPlace(h, S, j)]
      BY <1>2, <2>2
    <2>4. QED
      BY <1>1, <1>4, <2>1, <2>3
  <1>6. DOMAIN end = 1..c /\ DOMAIN all = 1..c
    BY <1>2, <1>4, LenProperties
  <1>7. all = [i \in 1..c |-> all[i]] /\ end = [i \in 1..c |-> end[i]]
    <2>1. all = [i \in 1..c |-> all[i]]
      BY <1>6
    <2>2. end = [i \in 1..c |-> end[i]]
      BY <1>4, <1>6, SMTT(30)
    <2>3. QED
      BY <2>1, <2>2
  <1>8. all = end
    <2> HIDE DEF all, end, c
    <2>1. QED
      BY <1>5, <1>7
  <1>9. QED
    BY <1>8

(* The statistics shown for a focused hop are exactly those of its newest  *)
(* samples in the window (compute_window_stats_for_addr), however often    *)
(* the ring has gone round and wherever the clock was set.                 *)
THEOREM FocusIsExact == PctlSpec => []FocusExact
  <1>1. PctlInv => FocusExact
    <2>1. SUFFICES ASSUME PctlInv PROVE FocusExact
      OBVIOUS
    <2> DEFINE kept == Kept(log)
               newest == SubSeq(kept, Larger(1, Len(kept) - SampleMax + 1), Len(kept))
               places == Newest(g_samples, SampleMax, g_samples.count)
               all == [i \in DOMAIN places |-> g_samples.ring[places[i]]]
    <2>2. Ring(g_samples, kept)
      BY <2>1 DEF PctlInv, State, States
    <2>3. all = newest
      BY <2>2, RingIsNewest
    <2>4. ASSUME NEW a \in HopAddr, NEW k \in Sizes
          PROVE  handle_render(a).focused[k] = OfSamples(OfAddr(newest, a, now - k * Minute))
      <3>1. a # NoHopAddr
        BY PctlSizes
      <3>2. handle_render(a).focused[k] = compute_window_stats_for_addr(a, k * Minute)
        BY <3>1 DEF handle_render
      <3>3. compute_window_stats_for_addr(a, k * Minute) = OfSamples(OfAddr(all, a, now - k * Minute))
        BY DEF compute_window_stats_for_addr
      <3>4. QED
        BY <2>3, <3>2, <3>3
    <2>5. QED
      BY <2>4 DEF FocusExact
  <1>2. QED
    BY <1>1, PctlInvariant, PTL

(* Later is no earlier minute.                                             *)
LEMMA MinuteOrder ==
    ASSUME NEW s \in Nat, NEW t \in Nat, s <= t
    PROVE  bucket_start(s) <= bucket_start(t)
  <1> DEFINE M == Minute
             p == s \div M
             q == t \div M
  <1>1. M \in Nat /\ M > 0
    BY PctlSizes
  <1> HIDE DEF M
  <1>2. p \in Nat /\ q \in Nat /\ s >= M * p /\ t < M * (q + 1)
    BY <1>1, SMT
  <1>3. QED
    <2>1. SUFFICES ASSUME p >= q + 1 PROVE FALSE
      BY <1>2 DEF bucket_start, M
    <2> HIDE DEF p, q
    <2>2. PICK d \in Nat : p = (q + 1) + d
      <3>1. p - (q + 1) \in Nat /\ p = (q + 1) + (p - (q + 1))
        BY <1>2, <2>1
      <3>2. QED
        BY <3>1
    <2>3. M * p = M * (q + 1) + M * d /\ M * d >= 0 /\ M * p \in Nat /\ M * (q + 1) \in Nat /\ M * d \in Nat
      BY <1>1, <1>2, <2>2, SMT
    <2>4. QED
      BY <1>2, <2>3

(* The last k minutes to begin.                                            *)
LEMMA RecentMinutes ==
    ASSUME NEW l \in Seq(Sample), NEW bg, Starts(l, bg), NEW k \in Nat
    PROVE  Recent(l, k) = {MinuteOf(l, bg[j]) : j \in {i \in 1..Len(bg) : Len(bg) - i < k}}
  <1> DEFINE n == Len(l)
             L == Len(bg)
             f == [j \in 1..L |-> MinuteOf(l, bg[j])]
             After(j) == {x \in Minutes(l) : Began(l, x) > Began(l, f[j])}
  <1>1. /\ L \in Nat /\ n \in Nat /\ DOMAIN l = 1..n /\ \A j \in 1..L : bg[j] \in 1..n
        /\ \A i, j \in 1..L : f[i] = f[j] => i = j
        /\ Minutes(l) = {f[j] : j \in 1..L}
    BY StartsFacts
  <1>2. /\ \A j \in 1..L : f[j] = bucket_start(l[bg[j]].ts)
        /\ \A j \in 1..L : \A i \in 1..(bg[j] - 1) : bucket_start(l[i].ts) # f[j]
        /\ \A i, j \in 1..L : i < j => bg[i] < bg[j]
    BY DEF Starts, MinuteOf
  <1>3. \A j \in 1..L : f[j] = MinuteOf(l, bg[j])
    OBVIOUS
  <1> HIDE DEF n, L, f
  <1>4. ASSUME NEW j \in 1..L PROVE Began(l, f[j]) = bg[j]
    <2> DEFINE FirstAt(i) == bucket_start(l[i].ts) = f[j] /\ \A p \in 1..(i - 1) : bucket_start(l[p].ts) # f[j]
    <2>1. bg[j] \in 1..n /\ FirstAt(bg[j])
      BY <1>1, <1>2
    <2>2. ASSUME NEW i \in 1..n, FirstAt(i) PROVE i = bg[j]
      <3>1. ~(i < bg[j])
        <4>1. i < bg[j] => i \in 1..(bg[j] - 1)
          BY <1>1, <2>1
        <4>2. QED
          BY <2>1, <2>2, <4>1
      <3>2. ~(bg[j] < i)
        <4>1. bg[j] < i => bg[j] \in 1..(i - 1)
          BY <1>1, <2>1
        <4>2. QED
          BY <2>1, <2>2, <4>1
      <3>3. QED
        BY <1>1, <2>1, <3>1, <3>2
    <2>3. Began(l, f[j]) = CHOOSE i \in 1..n : FirstAt(i)
      BY <1>1 DEF Began
    <2> HIDE DEF FirstAt
    <2>4. QED
      BY <2>1, <2>2, <2>3
  <1>5. ASSUME NEW i \in 1..L, NEW j \in 1..L PROVE bg[i] > bg[j] <=> i > j
    <2>1. /\ bg[i] \in 1..n /\ bg[j] \in 1..n /\ (i < j => bg[i] < bg[j]) /\ (j < i => bg[j] < bg[i])
          /\ (i < j \/ j < i \/ i = j)
      BY <1>1, <1>2
    <2>2. QED
      BY <1>1, <2>1
  <1>6. ASSUME NEW j \in 1..L PROVE Cardinality(After(j)) = L - j
    <2> DEFINE J == (j + 1)..L
               g == [i \in J |-> f[i]]
    <2>1. \A i \in 1..L : Began(l, f[i]) > Began(l, f[j]) <=> i > j
      BY <1>4, <1>5
    <2>2. J \subseteq 1..L /\ \A i \in 1..L : i \in J <=> i > j
      BY <1>1
    <2>3. After(j) = {f[i] : i \in J}
      <3>1. ASSUME NEW x \in After(j) PROVE x \in {f[i] : i \in J}
        <4>1. PICK i \in 1..L : x = f[i]
          BY <1>1, <3>1
        <4>2. i \in J
          BY <2>1, <2>2, <3>1, <4>1
        <4> HIDE DEF J
        <4>3. QED
          BY <4>1, <4>2
      <3>2. ASSUME NEW i \in J PROVE f[i] \in After(j)
        <4>1. i \in 1..L /\ i > j
          BY <2>2
        <4>2. f[i] \in Minutes(l) /\ Began(l, f[i]) > Began(l, f[j])
          BY <1>1, <2>1, <4>1
        <4>3. QED
          BY <4>2
      <3> HIDE DEF J, After
      <3>3. QED
        BY <3>1, <3>2 DEF After
    <2>4. IsFiniteSet(J) /\ Cardinality(J) = L - j
      <3>1. j + 1 \in Int /\ L \in Int /\ (IF j + 1 > L THEN 0 ELSE L - (j + 1) + 1) = L - j
        BY <1>1
      <3>2. QED
        BY <3>1, FS_Interval
    <2>5. DOMAIN g = J /\ (\A p, q \in J : g[p] = g[q] => p = q) /\ {g[i] : i \in J} = {f[i] : i \in J}
      BY <1>1, <2>2
    <2> HIDE DEF J, g
    <2>6. Cardinality({g[i] : i \in J}) = Cardinality(J)
      BY <2>4, <2>5, ImageSize
    <2> HIDE DEF After
    <2>7. QED
      BY <2>3, <2>4, <2>5, <2>6
  <1> DEFINE K == {i \in 1..L : L - i < k}
  <1>7. Recent(l, k) = {x \in Minutes(l) : Cardinality({y \in Minutes(l) : Began(l, y) > Began(l, x)}) < k}
    BY DEF Recent
  <1>8. \A j \in 1..L : f[j] \in Minutes(l) /\ (f[j] \in Recent(l, k) <=> L - j < k)
    <2>1. TAKE j \in 1..L
    <2>2. Cardinality({y \in Minutes(l) : Began(l, y) > Began(l, f[j])}) = L - j /\ f[j] \in Minutes(l)
      BY <1>1, <1>6
    <2>3. QED
      BY <1>7, <2>2
  <1>9. Recent(l, k) = {f[j] : j \in K}
    <2>1. Recent(l, k) \subseteq Minutes(l)
      BY <1>7
    <2>2. QED
      BY <1>1, <1>8, <2>1
  <1>10. {f[j] : j \in K} = {MinuteOf(l, bg[j]) : j \in K}
    BY <1>3
  <1>11. QED
    BY <1>9, <1>10 DEF L

(* compute_window_stats adds up the buckets of the last minutes to begin.  *)
LEMMA WindowTotal ==
    ASSUME NEW g, NEW l \in Seq(Sample), NEW bg, Rows(g, l, bg), NEW k \in 1..BucketMax,
           NEW places, places = Newest(g, BucketMax, Smaller(k, g.count))
    PROVE  Total([i \in DOMAIN places |-> g.ring[places[i]]]) = Figures(l, Recent(l, k))
  <1> DEFINE L == Len(bg)
             B == BucketMax
             c == g.count
             h == g.head
             w == Smaller(k, c)
             items == [i \in DOMAIN places |-> g.ring[places[i]]]
             ms == [i \in 1..w |-> MinuteOf(l, bg[L - w + i])]
             K == {i \in 1..L : L - i < k}
  <1>1. B \in Nat /\ B > 0 /\ k \in 1..B
    BY PctlSizes
  <1>2. /\ Starts(l, bg) /\ c = Smaller(L, B) /\ g \in Buckets /\ h \in 0..(B - 1) /\ c \in 0..B
        /\ \A j \in 1..c : g.ring[RingPlace(h, B, j)] = Row(l, MinuteOf(l, bg[L - j + 1]))
        /\ g.ring \in [0..(B - 1) -> Bucket]
    BY DEF Rows, Buckets
  <1>3. L \in Nat /\ \A p, q \in 1..L : MinuteOf(l, bg[p]) = MinuteOf(l, bg[q]) => p = q
    BY <1>2, StartsFacts
  <1>4. Recent(l, k) = {MinuteOf(l, bg[j]) : j \in K}
    <2>1. k \in Nat
      BY <1>1
    <2>2. QED
      BY <1>2, <2>1, RecentMinutes
  <1> HIDE DEF L, B, c, h
  <1>5. w \in Nat /\ w <= c /\ w <= L /\ w \in 0..B /\ (w = L \/ w = k) /\ w <= k
    BY <1>1, <1>2, <1>3 DEF Smaller
  <1>6. places = Newest(g, B, w)
    BY DEF B, c
  <1> HIDE DEF w
  <1>7. DOMAIN places = 1..w /\ \A i \in 1..w : places[i] = RingPlace(h, B, w - i + 1) /\ w - i + 1 \in 1..w
    <2>1. DOMAIN places = 1..w
      BY <1>6 DEF Newest
    <2>2. ASSUME NEW i \in 1..w PROVE places[i] = RingPlace(h, B, w - i + 1) /\ w - i + 1 \in 1..w
      <3>1. g.head \in 0..(B - 1) /\ w \in 0..B /\ B \in Nat /\ B > 0
        BY <1>1, <1>2, <1>5 DEF h
      <3>2. Newest(g, B, w)[i] = RingPlace(g.head, B, w - i + 1) /\ w - i + 1 \in 1..w
        BY <3>1, NewestPlace
      <3>3. QED
        BY <1>6, <3>2 DEF h
    <2>3. QED
      BY <2>1, <2>2
  <1>8. ASSUME NEW i \in 1..w PROVE items[i] = Row(l, ms[i]) /\ items[i] \in Bucket
    <2> DEFINE j == w - i + 1
    <2>1. j \in 1..w /\ j \in 1..c /\ j \in 1..B /\ L - j + 1 = L - w + i
      <3>1. c \in Nat /\ c <= B /\ w \in Nat /\ w <= c /\ L \in Nat /\ B \in Nat
        BY <1>1, <1>2, <1>3, <1>5
      <3>2. QED
        BY <3>1
    <2>2. items[i] = g.ring[RingPlace(h, B, j)]
      BY <1>7
    <2>3. RingPlace(h, B, j) \in 0..(B - 1)
      BY <1>1, <1>2, <2>1, RingShift
    <2>4. QED
      BY <1>2, <2>1, <2>2, <2>3
  <1>9. items \in Seq(Items) /\ Len(items) = w
    <2>1. items = [i \in 1..w |-> items[i]]
      BY <1>7
    <2> HIDE DEF items
    <2>2. items \in [1..w -> Items]
      BY <1>8, <2>1 DEF Items
    <2>3. QED
      BY <1>5, <2>2, SeqDef
  <1>10. \A i \in 1..w : L - w + i \in 1..L /\ L - w + i \in K
    BY <1>1, <1>3, <1>5
  <1>11. ASSUME NEW i \in 1..w, NEW j \in 1..w, ms[i] = ms[j] PROVE i = j
    <2>1. L - w + i = L - w + j
      BY <1>3, <1>10, <1>11
    <2>2. QED
      BY <1>3, <1>5, <2>1
  <1>12. Total(items) = Figures(l, {ms[i] : i \in 1..w})
    <2>1. DOMAIN ms = 1..w
      OBVIOUS
    <2> HIDE DEF items, ms
    <2>2. QED
      BY <1>8, <1>9, <1>11, <2>1, RowsTotal
  <1>13. {ms[i] : i \in 1..w} = {MinuteOf(l, bg[j]) : j \in K}
    <2>1. ASSUME NEW i \in 1..w PROVE ms[i] \in {MinuteOf(l, bg[j]) : j \in K}
      BY <1>10
    <2>2. ASSUME NEW j \in K PROVE \E i \in 1..w : MinuteOf(l, bg[j]) = ms[i]
      <3>1. j \in 1..L /\ L - j < k
        OBVIOUS
      <3>2. j - (L - w) \in 1..w /\ L - w + (j - (L - w)) = j
        BY <1>1, <1>3, <1>5, <3>1
      <3>3. ms[j - (L - w)] = MinuteOf(l, bg[j])
        BY <3>2
      <3>4. QED
        BY <3>2, <3>3
    <2> HIDE DEF ms, K
    <2>3. QED
      BY <2>1, <2>2
  <1>14. QED
    BY <1>4, <1>12, <1>13

(* The statistics of all hops are exactly those of what was reported in    *)
(* the minutes that began last (compute_window_stats, bucket_add), however *)
(* often the ring of minutes has gone round, also after the clock was set  *)
(* back as long as no minute has been dropped.                             *)
THEOREM GlobalIsExact == PctlSpec => []GlobalExact
  <1>1. PctlInv => GlobalExact
    <2>1. SUFFICES ASSUME PctlInv PROVE GlobalExact
      OBVIOUS
    <2>2. /\ g_samples \in Samples /\ g_buckets \in Buckets /\ log \in Seq(Sample)
          /\ Tracked(g_buckets, log)
      BY <2>1 DEF PctlInv, State, States
    <2>3. PctlTypeOK
      <3>1. /\ g_samples.head \in 0..(SampleMax - 1) /\ g_samples.count \in 0..SampleMax
            /\ g_samples.ring \in [0..(SampleMax - 1) -> Sample]
        BY <2>2 DEF Samples
      <3>2. /\ g_buckets.head \in 0..(BucketMax - 1) /\ g_buckets.count \in 0..BucketMax
            /\ g_buckets.ring \in [0..(BucketMax - 1) -> Bucket]
        BY <2>2 DEF Buckets
      <3>3. \A x \in Sample : x.addr \in HopAddr \cup {NoHopAddr}
        BY DEF Sample
      <3>4. \A x \in Bucket : x.min <= Infinity
        BY PctlSizes DEF Bucket
      <3>5. QED
        BY <3>1, <3>2, <3>3, <3>4 DEF PctlTypeOK
    <2>4. ASSUME setBacks = 0 \/ Cardinality(Minutes(log)) <= BucketMax PROVE Covered(log)
      <3>1. CASE setBacks = 0
        <4>1. \A i, j \in 1..Len(log) : i <= j => log[i].ts <= log[j].ts
          BY <2>1, <3>1 DEF PctlInv, Timely, State
        <4>2. \A i \in 1..Len(log) : log[i].ts \in Nat
          <5>1. \A i \in 1..Len(log) : log[i] \in Sample
            BY <2>2, ElementOfSeq
          <5>2. QED
            BY <5>1 DEF Sample
        <4>3. QED
          BY <4>1, <4>2, MinuteOrder DEF Covered, MinuteOf
      <3>2. QED
        BY <2>4, <3>1 DEF Covered
    <2>5. ASSUME Covered(log), NEW k \in Sizes
          PROVE  handle_render(NoHopAddr).global[k] = Stats(Within(log, Recent(log, k)))
      <3>1. PICK bg : Rows(g_buckets, log, bg)
        BY <2>2, <2>5 DEF Tracked
      <3> DEFINE places == Newest(g_buckets, BucketMax, Smaller(k, g_buckets.count))
                 items == [i \in DOMAIN places |-> g_buckets.ring[places[i]]]
      <3>2. handle_render(NoHopAddr).global[k] = Stats(items)
        BY DEF handle_render, compute_window_stats
      <3>3. k \in 1..BucketMax
        BY PctlSizes
      <3>4. Total(items) = Total(Within(log, Recent(log, k)))
        BY <2>2, <3>1, <3>3, WindowTotal DEF Figures
      <3> HIDE DEF items
      <3>5. QED
        BY <3>2, <3>4 DEF Stats
    <2>6. QED
      BY <2>3, <2>4, <2>5 DEF GlobalExact
  <1>2. QED
    BY <1>1, PctlInvariant, PTL
=============================================================================
