-------------------------- MODULE PluginHostProofs --------------------------
(***************************************************************************)
(* Proofs about the plugin host: the calls to a running plugin             *)
(* (PluginHost), the settings that decide which ones run (PluginConfig)    *)
(* and the writer of the messages (JsonWriter).                            *)
(***************************************************************************)
EXTENDS PluginHost, PluginConfig, JsonWriter, SequenceTheorems, SetInduction

(***************************************************************************)
(* Proofs about PluginHost for every length of the key queue, capacity of  *)
(* the pipe, set of keys and bound of a run: NoIdleQueue, AnswersMatch and *)
(* KeysInOrder.                                                            *)
(*                                                                         *)
(* The invariant follows requests, keys and the entry itself.  Matching: a *)
(* message or an answer anywhere has a smaller id than the next request,   *)
(* and the kind of the request that is pending under its id, if one is.    *)
(* Transit: while the plugin lives, a pending request is on its way.       *)
(* KeyOrder: KeysInOrder with the number of keys pressed as a bound.       *)
(* Fresh: a plugin that is switched off has left nothing behind, so that   *)
(* ids and keys can start again with the next one.                         *)
(***************************************************************************)

Slots == {"render", "hops", "key"}

EntrySet ==
    [initialized : BOOLEAN, dead : BOOLEAN, rpcDead : BOOLEAN, next : Nat \ {0},
     render : Nat, hops : Nat, key : Nat, shown : {"none", "yes", "no"}, modal : BOOLEAN,
     queue : Seq(1..MaxKeys), lastKey : Key \cup {NoKey}, armed : BOOLEAN, editor : BOOLEAN,
     rx : Seq(Lines), pipe : Seq(Lines), out : Seq(Msg), told : BOOLEAN]

Fits(e, x) == x.id < e.next /\ \A s \in Slots : e[s] # 0 /\ x.id = e[s] => x.kind = s

GoodLines(e) == {line \in Lines : Fits(e, line) /\ (line.kind = "render" => line.modal # "absent")}
GoodMsgs(e)  == {msg \in Msg : Fits(e, msg)}

Matching(e, sin) ==
    /\ \A s \in Slots : e[s] < e.next
    /\ e.rx \in Seq(GoodLines(e)) /\ e.pipe \in Seq(GoodLines(e))
    /\ e.out \in Seq(GoodMsgs(e)) /\ sin \in Seq(GoodMsgs(e))

Under(e, sin) == Elements(e.out) \cup Elements(sin) \cup Elements(e.pipe) \cup Elements(e.rx)

(* ids: of a line that has left rx and is being handled.                   *)
Transit(e, sin, ids) == \A s \in Slots : e[s] # 0 => e[s] \in ids \cup {m.id : m \in Under(e, sin)}

KeyOrder(sent, queue, read, last) ==
    /\ read \in Nat /\ last \in Nat /\ read <= last
    /\ \A i, j \in DOMAIN sent :
          sent[i].kind = "key" /\ sent[j].kind = "key" /\ i < j => sent[i].n < sent[j].n
    /\ \A i \in DOMAIN sent : sent[i].kind = "key" => read < sent[i].n /\ sent[i].n <= last
    /\ Increasing(queue)
    /\ \A j \in DOMAIN queue :
          /\ read < queue[j] /\ queue[j] <= last
          /\ \A i \in DOMAIN sent : sent[i].kind = "key" => sent[i].n < queue[j]

(* What every call of the host keeps of its entry, with the plugin's stdin *)
(* and state, the last key read and the number of keys pressed.            *)
Good(e, sin, ch, read, last, ids) ==
    /\ e \in EntrySet /\ Len(e.queue) <= QueueLen
    /\ Matching(e, sin)
    /\ ch = "up" => Transit(e, sin, ids)
    /\ KeyOrder(sin \o e.out, e.queue, read, last)

NoIdle(e) == e.initialized /\ ~e.rpcDead /\ e.queue # <<>> => e.key # 0

Fresh(e, sin, ch) ==
    /\ ch = "none" /\ ~e.initialized
    /\ \A s \in Slots : e[s] = 0
    /\ e.queue = <<>> /\ e.rx = <<>> /\ e.pipe = <<>> /\ e.out = <<>> /\ sin = <<>>

Loop ==
    /\ Len(stdin) <= PipeCap /\ pressed \in 0..MaxKeys
    /\ enabled \in BOOLEAN /\ pc \in {"tel", "hops", "draw", "keys", "stop"}
    /\ host \in {"up", "killed"} /\ child \in {"up", "gone", "none"}

HostInv ==
    /\ Loop
    /\ Good(ent, stdin, child, lastRead, pressed, {})
    /\ NoIdle(ent)
    /\ pc = "stop" => ~enabled
    /\ ~enabled /\ pc # "stop" => Fresh(ent, stdin, child)

-----------------------------------------------------------------------------
(* Sequences.                                                              *)

LEMMA ElementsConcat ==
    ASSUME NEW S, NEW p \in Seq(S), NEW q \in Seq(S)
    PROVE  Elements(p \o q) = Elements(p) \cup Elements(q)
  <1>1. /\ Len(p) \in Nat /\ Len(q) \in Nat
        /\ DOMAIN p = 1..Len(p) /\ DOMAIN q = 1..Len(q) /\ DOMAIN (p \o q) = 1..(Len(p) + Len(q))
    BY ConcatProperties, LenProperties
  <1>2. \A i \in 1..(Len(p) + Len(q)) : (p \o q)[i] = IF i <= Len(p) THEN p[i] ELSE q[i - Len(p)]
    BY ConcatProperties
  <1>3. \A x \in Elements(p \o q) : x \in Elements(p) \cup Elements(q)
    <2> TAKE x \in Elements(p \o q)
    <2>1. PICK i \in 1..(Len(p) + Len(q)) : x = (p \o q)[i]
      BY <1>1 DEF Elements
    <2>2. CASE i <= Len(p)
      BY <1>1, <1>2, <2>1, <2>2 DEF Elements
    <2>3. CASE ~(i <= Len(p))
      <3>1. i - Len(p) \in 1..Len(q)
        BY <1>1, <2>3
      <3>2. QED
        BY <1>1, <1>2, <2>1, <2>3, <3>1 DEF Elements
    <2>4. QED
      BY <2>2, <2>3
  <1>4. \A x \in Elements(p) : x \in Elements(p \o q)
    <2> TAKE x \in Elements(p)
    <2>1. PICK i \in 1..Len(p) : x = p[i]
      BY <1>1 DEF Elements
    <2>2. i \in 1..(Len(p) + Len(q)) /\ i <= Len(p)
      BY <1>1
    <2>3. QED
      BY <1>1, <1>2, <2>1, <2>2 DEF Elements
  <1>5. \A x \in Elements(q) : x \in Elements(p \o q)
    <2> TAKE x \in Elements(q)
    <2>1. PICK i \in 1..Len(q) : x = q[i]
      BY <1>1 DEF Elements
    <2>2. i + Len(p) \in 1..(Len(p) + Len(q)) /\ ~(i + Len(p) <= Len(p)) /\ (i + Len(p)) - Len(p) = i
      BY <1>1
    <2>3. (p \o q)[i + Len(p)] = q[i]
      BY <1>2, <2>2
    <2>4. QED
      BY <1>1, <2>1, <2>2, <2>3 DEF Elements
  <1>6. QED
    BY <1>3, <1>4, <1>5

LEMMA ElementsAppend ==
    ASSUME NEW S, NEW q \in Seq(S), NEW x \in S
    PROVE  Elements(Append(q, x)) = Elements(q) \cup {x}
  <1>1. Append(q, x) = q \o <<x>> /\ <<x>> \in Seq(S)
    BY AppendIsConcat
  <1>2. Elements(<<x>>) = {x}
    BY DEF Elements
  <1>3. Elements(q \o <<x>>) = Elements(q) \cup Elements(<<x>>)
    BY <1>1, ElementsConcat, ZenonT(40)
  <1>4. QED
    BY <1>1, <1>2, <1>3

LEMMA ElementsHead ==
    ASSUME NEW S, NEW q \in Seq(S), q # <<>>
    PROVE  Elements(q) = {Head(q)} \cup Elements(Tail(q))
  <1>1. q = <<Head(q)>> \o Tail(q)
    OBVIOUS
  <1>2. Head(q) \in S /\ Tail(q) \in Seq(S) /\ <<Head(q)>> \in Seq(S)
    BY HeadTailProperties
  <1>3. Elements(<<Head(q)>>) = {Head(q)}
    BY DEF Elements
  <1>4. Elements(<<Head(q)>> \o Tail(q)) = Elements(<<Head(q)>>) \cup Elements(Tail(q))
    BY <1>2, ElementsConcat, ZenonT(40)
  <1>5. QED
    BY <1>1, <1>3, <1>4

LEMMA SplitFacts ==
    ASSUME NEW S, NEW q \in Seq(S), NEW n \in 1..Len(q)
    PROVE  /\ SubSeq(q, 1, n) \in Seq(S) /\ SubSeq(q, n + 1, Len(q)) \in Seq(S)
           /\ SubSeq(q, 1, n) # <<>>
           /\ Elements(q) = Elements(SubSeq(q, 1, n)) \cup Elements(SubSeq(q, n + 1, Len(q)))
  <1>1. Len(q) \in Nat /\ \A i \in 1..Len(q) : q[i] \in S
    BY LenProperties, ElementOfSeq
  <1>2. SubSeq(q, 1, n) \in Seq(S) /\ SubSeq(q, n + 1, Len(q)) \in Seq(S) /\ Len(SubSeq(q, 1, n)) = n
    BY <1>1, SubSeqProperties
  <1>3. SubSeq(q, 1, n) \o SubSeq(q, n + 1, Len(q)) = q
    <2>1. 1 \in 1..(Len(q) + 1) /\ n \in (1 - 1)..Len(q) /\ Len(q) \in n..Len(q)
      BY <1>1
    <2>2. SubSeq(q, 1, n) \o SubSeq(q, n + 1, Len(q)) = SubSeq(q, 1, Len(q))
      BY <2>1, ConcatAdjacentSubSeq
    <2>3. QED
      BY <2>2, SubSeqFull
  <1>4. SubSeq(q, 1, n) # <<>>
    BY <1>1, <1>2
  <1>5. QED
    BY <1>2, <1>3, <1>4, ElementsConcat, ZenonT(40)

LEMMA ConcatAppend ==
    ASSUME NEW S, NEW p \in Seq(S), NEW q \in Seq(S), NEW x \in S
    PROVE  p \o Append(q, x) = Append(p \o q, x) /\ p \o q \in Seq(S)
  <1>1. Append(q, x) = q \o <<x>> /\ <<x>> \in Seq(S) /\ p \o q \in Seq(S)
    BY AppendIsConcat, ConcatProperties
  <1>2. Append(p \o q, x) = (p \o q) \o <<x>>
    BY <1>1, AppendIsConcat
  <1>3. QED
    BY <1>1, <1>2, ConcatAssociative

LEMMA ConcatMove ==
    ASSUME NEW S, NEW p \in Seq(S), NEW q \in Seq(S), q # <<>>
    PROVE  Append(p, Head(q)) \o Tail(q) = p \o q
  <1>1. q = <<Head(q)>> \o Tail(q)
    OBVIOUS
  <1>2. Head(q) \in S /\ Tail(q) \in Seq(S) /\ <<Head(q)>> \in Seq(S)
    BY HeadTailProperties
  <1>3. Append(p, Head(q)) = p \o <<Head(q)>>
    BY <1>2, AppendIsConcat
  <1>4. (p \o <<Head(q)>>) \o Tail(q) = p \o (<<Head(q)>> \o Tail(q))
    BY <1>2, ConcatAssociative
  <1>5. QED
    BY <1>1, <1>3, <1>4

LEMMA ConcatTail ==
    ASSUME NEW S, NEW p \in Seq(S), NEW q \in Seq(S), p # <<>>
    PROVE  p \o q \in Seq(S) /\ p \o q # <<>> /\ Tail(p) \o q = Tail(p \o q) /\ Head(p \o q) = Head(p)
  <1>1. p \o q \in Seq(S) /\ Len(p \o q) = Len(p) + Len(q) /\ Len(p) \in Nat \ {0} /\ Len(q) \in Nat
    BY ConcatProperties, LenProperties, EmptySeq
  <1>2. p \o q # <<>>
    BY <1>1, EmptySeq
  <1>3. p = <<Head(p)>> \o Tail(p)
    OBVIOUS
  <1>4. Head(p) \in S /\ Tail(p) \in Seq(S) /\ <<Head(p)>> \in Seq(S)
    BY HeadTailProperties
  <1>5. p \o q = <<Head(p)>> \o (Tail(p) \o q)
    BY <1>3, <1>4, ConcatAssociative
  <1>6. Tail(p) \o q \in Seq(S)
    BY <1>4, ConcatProperties
  <1>7. \A r \in Seq(S), h \in S : Head(<<h>> \o r) = h /\ Tail(<<h>> \o r) = r
    OBVIOUS
  <1>8. QED
    BY <1>1, <1>2, <1>4, <1>5, <1>6, <1>7, SMTT(30)

-----------------------------------------------------------------------------
(* The order of the keys.                                                  *)

LEMMA SentNumbers ==
    ASSUME NEW sent \in Seq(Msg)
    PROVE  \A i \in DOMAIN sent : sent[i].n \in Nat
  <1>1. \A i \in DOMAIN sent : sent[i] \in Msg
    BY LenProperties, ElementOfSeq
  <1>2. \A m \in Msg : m.n \in Nat
    BY DEF Msg
  <1>3. QED
    BY <1>1, <1>2

(* A message that is no key, behind the others.                            *)
LEMMA OrderAppend ==
    ASSUME NEW sent \in Seq(Msg), NEW queue, NEW read, NEW last, NEW msg \in Msg,
           KeyOrder(sent, queue, read, last), msg.kind # "key"
    PROVE  KeyOrder(Append(sent, msg), queue, read, last)
  <1>1. /\ Len(sent) \in Nat /\ DOMAIN sent = 1..Len(sent)
        /\ DOMAIN Append(sent, msg) = 1..(Len(sent) + 1)
        /\ \A i \in 1..Len(sent) : Append(sent, msg)[i] = sent[i]
        /\ Append(sent, msg)[Len(sent) + 1] = msg
    BY AppendProperties, LenProperties
  <1>2. \A i \in DOMAIN Append(sent, msg) :
           Append(sent, msg)[i].kind = "key" => i \in DOMAIN sent /\ Append(sent, msg)[i] = sent[i]
    BY <1>1
  <1>3. QED
    BY <1>2 DEF KeyOrder

(* plugin_send_next_key: from the queue behind the others.                 *)
LEMMA OrderSend ==
    ASSUME NEW sent \in Seq(Msg), NEW queue \in Seq(1..MaxKeys), NEW read, NEW last, NEW msg \in Msg,
           KeyOrder(sent, queue, read, last), queue # <<>>, msg.n = Head(queue)
    PROVE  KeyOrder(Append(sent, msg), Tail(queue), read, last)
  <1>1. /\ Len(sent) \in Nat /\ DOMAIN sent = 1..Len(sent)
        /\ DOMAIN Append(sent, msg) = 1..(Len(sent) + 1)
        /\ \A i \in 1..Len(sent) : Append(sent, msg)[i] = sent[i]
        /\ Append(sent, msg)[Len(sent) + 1] = msg
    BY AppendProperties, LenProperties
  <1>2. /\ Len(queue) \in Nat \ {0} /\ DOMAIN queue = 1..Len(queue)
        /\ DOMAIN Tail(queue) = 1..(Len(queue) - 1)
        /\ \A i \in 1..(Len(queue) - 1) : Tail(queue)[i] = queue[i + 1]
    BY HeadTailProperties, LenProperties, EmptySeq
  <1>3. Head(queue) = queue[1] /\ 1 \in DOMAIN queue
    BY <1>2
  <1>4. /\ \A i \in DOMAIN sent : sent[i].kind = "key" => sent[i].n < msg.n
        /\ read < msg.n /\ msg.n <= last
    BY <1>3 DEF KeyOrder
  <1>5. \A j \in DOMAIN Tail(queue) :
           /\ j + 1 \in DOMAIN queue /\ 1 < j + 1 /\ Tail(queue)[j] = queue[j + 1] /\ msg.n < queue[j + 1]
    <2>1. \A j \in DOMAIN Tail(queue) : j + 1 \in DOMAIN queue /\ 1 < j + 1 /\ Tail(queue)[j] = queue[j + 1]
      BY <1>2
    <2>2. \A j \in DOMAIN queue : 1 < j => msg.n < queue[j]
      BY <1>3 DEF KeyOrder, Increasing
    <2>3. QED
      BY <2>1, <2>2
  <1>6. Increasing(Tail(queue))
    <2>1. \A i, j \in DOMAIN Tail(queue) : i < j => i + 1 < j + 1
      BY <1>2
    <2>2. QED
      BY <1>5, <2>1 DEF Increasing, KeyOrder
  <1>7. ASSUME NEW i \in DOMAIN Append(sent, msg), NEW j \in DOMAIN Append(sent, msg),
               Append(sent, msg)[i].kind = "key", Append(sent, msg)[j].kind = "key", i < j
        PROVE  Append(sent, msg)[i].n < Append(sent, msg)[j].n
    <2>1. i \in DOMAIN sent /\ Append(sent, msg)[i] = sent[i]
      BY <1>1, <1>7
    <2>2. CASE j = Len(sent) + 1
      BY <1>1, <1>4, <1>7, <2>1, <2>2
    <2>3. CASE j # Len(sent) + 1
      <3>1. j \in DOMAIN sent /\ Append(sent, msg)[j] = sent[j]
        BY <1>1, <2>3
      <3>2. QED
        BY <1>7, <2>1, <3>1 DEF KeyOrder
    <2>4. QED
      BY <2>2, <2>3
  <1>8. \A i \in DOMAIN Append(sent, msg) :
           \/ i \in DOMAIN sent /\ Append(sent, msg)[i] = sent[i]
           \/ Append(sent, msg)[i] = msg
    BY <1>1
  <1>9. \A i \in DOMAIN Append(sent, msg) : Append(sent, msg)[i].kind = "key" =>
           read < Append(sent, msg)[i].n /\ Append(sent, msg)[i].n <= last
    BY <1>4, <1>8 DEF KeyOrder
  <1>10. \A j \in DOMAIN Tail(queue), i \in DOMAIN Append(sent, msg) :
            Append(sent, msg)[i].kind = "key" => Append(sent, msg)[i].n < Tail(queue)[j]
    BY <1>5, <1>8 DEF KeyOrder
  <1>11. \A j \in DOMAIN Tail(queue) : read < Tail(queue)[j] /\ Tail(queue)[j] <= last
    BY <1>5 DEF KeyOrder
  <1>12. read \in Nat /\ last \in Nat /\ read <= last
    BY DEF KeyOrder
  <1>13. QED
    BY <1>6, <1>7, <1>9, <1>10, <1>11, <1>12 DEF KeyOrder

LEMMA OrderTailQueue ==
    ASSUME NEW sent, NEW queue \in Seq(1..MaxKeys), NEW read, NEW last,
           KeyOrder(sent, queue, read, last), queue # <<>>
    PROVE  KeyOrder(sent, Tail(queue), read, last)
  <1>1. /\ Len(queue) \in Nat \ {0} /\ DOMAIN queue = 1..Len(queue)
        /\ DOMAIN Tail(queue) = 1..(Len(queue) - 1)
        /\ \A i \in 1..(Len(queue) - 1) : Tail(queue)[i] = queue[i + 1]
    BY HeadTailProperties, LenProperties, EmptySeq
  <1>2. \A j \in DOMAIN Tail(queue) : j + 1 \in DOMAIN queue /\ Tail(queue)[j] = queue[j + 1]
    BY <1>1
  <1>3. \A i, j \in DOMAIN Tail(queue) : i < j => i + 1 < j + 1
    BY <1>1
  <1>4. Increasing(Tail(queue))
    BY <1>2, <1>3 DEF KeyOrder, Increasing
  <1>5. QED
    BY <1>2, <1>4 DEF KeyOrder

(* The key just pressed, behind the others.                                *)
LEMMA OrderPress ==
    ASSUME NEW sent \in Seq(Msg), NEW queue \in Seq(1..MaxKeys), NEW read, NEW last,
           KeyOrder(sent, queue, read, last), last + 1 \in 1..MaxKeys
    PROVE  KeyOrder(sent, Append(queue, last + 1), read, last + 1)
  <1>1. /\ Len(queue) \in Nat /\ DOMAIN queue = 1..Len(queue)
        /\ DOMAIN Append(queue, last + 1) = 1..(Len(queue) + 1)
        /\ \A i \in 1..Len(queue) : Append(queue, last + 1)[i] = queue[i]
        /\ Append(queue, last + 1)[Len(queue) + 1] = last + 1
    BY AppendProperties, LenProperties
  <1>2. read \in Nat /\ last \in Nat /\ read <= last
    BY DEF KeyOrder
  <1>3. \A j \in DOMAIN queue : queue[j] \in Nat /\ queue[j] < last + 1
    <2>1. \A j \in DOMAIN queue : queue[j] \in 1..MaxKeys /\ queue[j] <= last
      BY <1>1, ElementOfSeq DEF KeyOrder
    <2>2. MaxKeys \in Nat
      BY PluginAssumption
    <2>3. QED
      BY <1>2, <2>1, <2>2
  <1>4. \A i \in DOMAIN sent : sent[i].n \in Nat
    BY SentNumbers
  <1>5. \A i \in DOMAIN sent : sent[i].kind = "key" => sent[i].n < last + 1 /\ sent[i].n <= last + 1
    BY <1>2, <1>4 DEF KeyOrder
  <1>6. \A j \in DOMAIN Append(queue, last + 1) :
           \/ j \in DOMAIN queue /\ Append(queue, last + 1)[j] = queue[j]
           \/ j = Len(queue) + 1 /\ Append(queue, last + 1)[j] = last + 1
    BY <1>1
  <1>7. Increasing(Append(queue, last + 1))
    <2>1. \A i \in DOMAIN Append(queue, last + 1), j \in DOMAIN queue : i < j => i \in DOMAIN queue
      BY <1>1
    <2>2. \A i \in DOMAIN Append(queue, last + 1) : i < Len(queue) + 1 => i \in DOMAIN queue
      BY <1>1
    <2>3. \A i \in DOMAIN queue : i # Len(queue) + 1
      BY <1>1
    <2>4. QED
      BY <1>3, <1>6, <2>1, <2>2, <2>3 DEF KeyOrder, Increasing
  <1>8. \A j \in DOMAIN Append(queue, last + 1) :
           /\ read < Append(queue, last + 1)[j] /\ Append(queue, last + 1)[j] <= last + 1
           /\ \A i \in DOMAIN sent : sent[i].kind = "key" => sent[i].n < Append(queue, last + 1)[j]
    BY <1>2, <1>3, <1>5, <1>6 DEF KeyOrder
  <1>9. QED
    BY <1>2, <1>5, <1>7, <1>8 DEF KeyOrder

LEMMA OrderEnqueue ==
    ASSUME NEW sent \in Seq(Msg), NEW queue \in Seq(1..MaxKeys), NEW read, NEW last,
           KeyOrder(sent, queue, read, last), last + 1 \in 1..MaxKeys, Len(queue) <= QueueLen
    PROVE  /\ plugin_key_queue_enqueue(queue, last + 1) \in Seq(1..MaxKeys)
           /\ Len(plugin_key_queue_enqueue(queue, last + 1)) <= QueueLen
           /\ KeyOrder(sent, plugin_key_queue_enqueue(queue, last + 1), read, last + 1)
  <1>1. QueueLen \in Nat \ {0} /\ Len(queue) \in Nat
    BY PluginAssumption, LenProperties
  <1>2. CASE Len(queue) >= QueueLen
    <2>1. queue # <<>>
      BY <1>1, <1>2
    <2>2. Tail(queue) \in Seq(1..MaxKeys) /\ Len(Tail(queue)) = Len(queue) - 1
      BY <2>1, HeadTailProperties
    <2>3. KeyOrder(sent, Tail(queue), read, last)
      BY <2>1, OrderTailQueue
    <2>4. KeyOrder(sent, Append(Tail(queue), last + 1), read, last + 1)
      BY <2>2, <2>3, OrderPress
    <2>5. /\ Append(Tail(queue), last + 1) \in Seq(1..MaxKeys)
          /\ Len(Append(Tail(queue), last + 1)) = Len(queue)
      BY <1>1, <2>2, AppendProperties
    <2>6. QED
      BY <1>2, <2>4, <2>5 DEF plugin_key_queue_enqueue
  <1>3. CASE ~(Len(queue) >= QueueLen)
    <2>1. KeyOrder(sent, Append(queue, last + 1), read, last + 1)
      BY OrderPress
    <2>2. /\ Append(queue, last + 1) \in Seq(1..MaxKeys)
          /\ Len(Append(queue, last + 1)) = Len(queue) + 1
      BY AppendProperties
    <2>3. Len(queue) + 1 <= QueueLen
      BY <1>1, <1>3
    <2>4. QED
      BY <1>3, <2>1, <2>2, <2>3 DEF plugin_key_queue_enqueue
  <1>4. QED
    BY <1>2, <1>3

(* Keys are thrown away, or a key pressed goes elsewhere.                  *)
LEMMA OrderLess ==
    ASSUME NEW sent \in Seq(Msg), NEW queue, NEW read, NEW last,
           KeyOrder(sent, queue, read, last)
    PROVE  KeyOrder(sent, <<>>, read, last)
  BY DEF KeyOrder, Increasing

LEMMA OrderLater ==
    ASSUME NEW sent \in Seq(Msg), NEW queue \in Seq(1..MaxKeys), NEW read, NEW last,
           KeyOrder(sent, queue, read, last)
    PROVE  KeyOrder(sent, queue, read, last + 1)
  <1>1. \A i \in DOMAIN sent : sent[i].n \in Nat
    BY SentNumbers
  <1>2. MaxKeys \in Nat /\ \A j \in DOMAIN queue : queue[j] \in 1..MaxKeys
    BY LenProperties, ElementOfSeq, PluginAssumption
  <1>3. read \in Nat /\ last \in Nat
    BY DEF KeyOrder
  <1>4. \A x \in Nat : x <= last => x <= last + 1
    BY <1>3
  <1>5. \A j \in DOMAIN queue : queue[j] \in Nat
    BY <1>2
  <1>6. QED
    BY <1>1, <1>3, <1>4, <1>5 DEF KeyOrder

(* The plugin reads the first message.                                     *)
LEMMA OrderRead ==
    ASSUME NEW sent \in Seq(Msg), NEW queue, NEW read, NEW last,
           KeyOrder(sent, queue, read, last), sent # <<>>
    PROVE  KeyOrder(Tail(sent), queue, IF Head(sent).kind = "key" THEN Head(sent).n ELSE read, last)
  <1>1. /\ Len(sent) \in Nat \ {0} /\ DOMAIN sent = 1..Len(sent)
        /\ DOMAIN Tail(sent) = 1..(Len(sent) - 1)
        /\ \A i \in 1..(Len(sent) - 1) : Tail(sent)[i] = sent[i + 1]
    BY HeadTailProperties, LenProperties, EmptySeq
  <1>2. Head(sent) = sent[1] /\ 1 \in DOMAIN sent /\ sent[1] \in Msg
    BY <1>1, ElementOfSeq
  <1>3. sent[1].n \in Nat
    BY <1>2 DEF Msg
  <1>4. \A i \in DOMAIN Tail(sent) : i + 1 \in DOMAIN sent /\ 1 < i + 1 /\ Tail(sent)[i] = sent[i + 1]
    BY <1>1
  <1>5. \A i, j \in DOMAIN Tail(sent) : i < j => i + 1 < j + 1
    BY <1>1
  <1>6. KeyOrder(Tail(sent), queue, read, last)
    BY <1>4, <1>5 DEF KeyOrder
  <1>7. CASE Head(sent).kind = "key"
    <2>1. \A i \in DOMAIN Tail(sent) : Tail(sent)[i].kind = "key" => sent[1].n < Tail(sent)[i].n
      BY <1>2, <1>4, <1>7 DEF KeyOrder
    <2>2. \A j \in DOMAIN queue : sent[1].n < queue[j]
      BY <1>2, <1>7 DEF KeyOrder
    <2>3. sent[1].n <= last
      BY <1>2, <1>7 DEF KeyOrder
    <2>4. KeyOrder(Tail(sent), queue, sent[1].n, last)
      BY <1>3, <1>6, <2>1, <2>2, <2>3 DEF KeyOrder
    <2>5. QED
      BY <1>2, <1>7, <2>4
  <1>8. QED
    BY <1>6, <1>7

(* The plugin dies, and with it what it has not read.                      *)
LEMMA OrderDrop ==
    ASSUME NEW p \in Seq(Msg), NEW q \in Seq(Msg), NEW queue, NEW read, NEW last,
           KeyOrder(p \o q, queue, read, last)
    PROVE  KeyOrder(q, queue, read, last)
  <1>1. /\ Len(p) \in Nat /\ Len(q) \in Nat
        /\ DOMAIN q = 1..Len(q) /\ DOMAIN (p \o q) = 1..(Len(p) + Len(q))
    BY ConcatProperties, LenProperties
  <1>2. \A i \in 1..(Len(p) + Len(q)) : (p \o q)[i] = IF i <= Len(p) THEN p[i] ELSE q[i - Len(p)]
    BY ConcatProperties
  <1>3. \A i \in DOMAIN q : i + Len(p) \in DOMAIN (p \o q) /\ (p \o q)[i + Len(p)] = q[i]
    <2> TAKE i \in DOMAIN q
    <2>1. i + Len(p) \in 1..(Len(p) + Len(q)) /\ ~(i + Len(p) <= Len(p)) /\ (i + Len(p)) - Len(p) = i
      BY <1>1
    <2>2. QED
      BY <1>1, <1>2, <2>1
  <1>4. \A i, j \in DOMAIN q : i < j => i + Len(p) < j + Len(p)
    BY <1>1
  <1>5. QED
    BY <1>3, <1>4 DEF KeyOrder

-----------------------------------------------------------------------------
(* The entry.                                                              *)

LEMMA LinesLess ==
    ASSUME NEW e, NEW f, f.next = e.next, \A s \in Slots : f[s] = 0 \/ f[s] = e[s]
    PROVE  GoodLines(e) \subseteq GoodLines(f) /\ GoodMsgs(e) \subseteq GoodMsgs(f)
  <1>1. \A x : Fits(e, x) => Fits(f, x)
    BY DEF Fits
  <1>2. QED
    BY <1>1 DEF GoodLines, GoodMsgs

LEMMA LinesTyped ==
    ASSUME NEW e, NEW q \in Seq(GoodMsgs(e))
    PROVE  q \in Seq(Msg)
  <1>1. GoodMsgs(e) \subseteq Msg
    BY DEF GoodMsgs
  <1>2. QED
    BY <1>1, SeqMonotonic

(* A call that takes answers, requests or keys away.                       *)
LEMMA GoodLess ==
    ASSUME NEW e, NEW f \in EntrySet, NEW sin, NEW ch, NEW read, NEW last, NEW last2, NEW ids, NEW ids2,
           Good(e, sin, ch, read, last, ids),
           f.next = e.next, \A s \in Slots : f[s] = 0 \/ f[s] = e[s], f.out = e.out,
           f.rx \in Seq(GoodLines(e)), f.pipe \in Seq(GoodLines(e)),
           Len(f.queue) <= QueueLen, KeyOrder(sin \o e.out, f.queue, read, last2),
           ch = "up" => Transit(f, sin, ids2)
    PROVE  Good(f, sin, ch, read, last2, ids2)
  <1>1. GoodLines(e) \subseteq GoodLines(f) /\ GoodMsgs(e) \subseteq GoodMsgs(f)
    BY LinesLess
  <1>2. e \in EntrySet /\ Matching(e, sin)
    BY DEF Good
  <1>3. \A s \in Slots : f[s] < f.next
    <2>1. f.next \in Nat \ {0}
      BY DEF EntrySet
    <2>2. QED
      BY <1>2, <2>1 DEF Matching
  <1>4. f.rx \in Seq(GoodLines(f)) /\ f.pipe \in Seq(GoodLines(f))
    BY <1>1, SeqMonotonic
  <1>5. f.out \in Seq(GoodMsgs(f)) /\ sin \in Seq(GoodMsgs(f))
    BY <1>1, <1>2, SeqMonotonic DEF Matching
  <1>6. Matching(f, sin)
    BY <1>3, <1>4, <1>5 DEF Matching
  <1>7. QED
    BY <1>6 DEF Good

(* A call that changes neither answers, requests nor keys.                 *)
LEMMA GoodSame ==
    ASSUME NEW e, NEW f \in EntrySet, NEW sin, NEW ch, NEW read, NEW last, NEW ids,
           Good(e, sin, ch, read, last, ids),
           f.next = e.next, \A s \in Slots : f[s] = e[s], f.out = e.out, f.rx = e.rx, f.pipe = e.pipe,
           f.queue = e.queue
    PROVE  Good(f, sin, ch, read, last, ids)
  <1>1. ch = "up" => Transit(f, sin, ids)
    BY DEF Good, Transit, Under
  <1>2. e.rx \in Seq(GoodLines(e)) /\ e.pipe \in Seq(GoodLines(e)) /\ Len(e.queue) <= QueueLen
    BY DEF Good, Matching
  <1>3. KeyOrder(sin \o e.out, e.queue, read, last)
    BY DEF Good
  <1>4. QED
    BY <1>1, <1>2, <1>3, GoodLess

LEMMA GoodFields ==
    ASSUME NEW e, NEW sin, NEW ch, NEW read, NEW last, NEW ids, Good(e, sin, ch, read, last, ids)
    PROVE  /\ e \in EntrySet /\ Len(e.queue) <= QueueLen /\ e.queue \in Seq(1..MaxKeys)
           /\ e.rx \in Seq(GoodLines(e)) /\ e.pipe \in Seq(GoodLines(e))
           /\ e.out \in Seq(GoodMsgs(e)) /\ sin \in Seq(GoodMsgs(e))
           /\ e.out \in Seq(Msg) /\ sin \in Seq(Msg) /\ sin \o e.out \in Seq(Msg)
           /\ KeyOrder(sin \o e.out, e.queue, read, last)
  <1>1. /\ e \in EntrySet /\ Len(e.queue) <= QueueLen
        /\ e.rx \in Seq(GoodLines(e)) /\ e.pipe \in Seq(GoodLines(e))
        /\ e.out \in Seq(GoodMsgs(e)) /\ sin \in Seq(GoodMsgs(e))
        /\ KeyOrder(sin \o e.out, e.queue, read, last)
    BY DEF Good, Matching
  <1>2. e.queue \in Seq(1..MaxKeys)
    BY <1>1 DEF EntrySet
  <1>3. e.out \in Seq(Msg) /\ sin \in Seq(Msg)
    BY <1>1, LinesTyped
  <1>4. QED
    BY <1>1, <1>2, <1>3, ConcatProperties

LEMMA GoodFlags ==
    ASSUME NEW e, NEW sin, NEW ch, NEW read, NEW last, NEW ids, Good(e, sin, ch, read, last, ids)
    PROVE  /\ \A b \in BOOLEAN :
                 /\ Good([e EXCEPT !.dead = b], sin, ch, read, last, ids)
                 /\ Good([e EXCEPT !.rpcDead = b], sin, ch, read, last, ids)
                 /\ Good([e EXCEPT !.editor = b], sin, ch, read, last, ids)
                 /\ Good([e EXCEPT !.armed = b], sin, ch, read, last, ids)
           /\ \A b, c \in BOOLEAN :
                 /\ Good([e EXCEPT !.dead = b, !.initialized = c], sin, ch, read, last, ids)
                 /\ Good([e EXCEPT !.modal = b, !.told = c], sin, ch, read, last, ids)
           /\ \A m \in {"none", "yes", "no"}, k \in Key \cup {NoKey} :
                 Good([e EXCEPT !.shown = m, !.lastKey = k], sin, ch, read, last, ids)
  <1>1. e \in EntrySet
    BY GoodFields
  <1> DEFINE Flags(b, c, m, k) ==
                {[e EXCEPT !.dead = b], [e EXCEPT !.rpcDead = b], [e EXCEPT !.editor = b],
                 [e EXCEPT !.armed = b], [e EXCEPT !.dead = b, !.initialized = c],
                 [e EXCEPT !.modal = b, !.told = c], [e EXCEPT !.shown = m, !.lastKey = k]}
  <1>2. ASSUME NEW b \in BOOLEAN, NEW c \in BOOLEAN, NEW m \in {"none", "yes", "no"}, NEW k \in Key \cup {NoKey},
               NEW f \in Flags(b, c, m, k)
        PROVE  Good(f, sin, ch, read, last, ids)
    <2> DEFINE Same(x) == /\ x \in EntrySet /\ x.next = e.next /\ \A s \in Slots : x[s] = e[s]
                          /\ x.out = e.out /\ x.rx = e.rx /\ x.pipe = e.pipe /\ x.queue = e.queue
    <2>1. Same([e EXCEPT !.dead = b])
      BY <1>1 DEF EntrySet, Slots
    <2>2. Same([e EXCEPT !.rpcDead = b])
      BY <1>1 DEF EntrySet, Slots
    <2>3. Same([e EXCEPT !.editor = b])
      BY <1>1 DEF EntrySet, Slots
    <2>4. Same([e EXCEPT !.armed = b])
      BY <1>1 DEF EntrySet, Slots
    <2>5. Same([e EXCEPT !.dead = b, !.initialized = c])
      BY <1>1 DEF EntrySet, Slots
    <2>6. Same([e EXCEPT !.modal = b, !.told = c])
      BY <1>1 DEF EntrySet, Slots
    <2>7. Same([e EXCEPT !.shown = m, !.lastKey = k])
      BY <1>1 DEF EntrySet, Slots
    <2>8. Same(f)
      <3> HIDE DEF Same
      <3>1. QED
        BY <2>1, <2>2, <2>3, <2>4, <2>5, <2>6, <2>7
    <2>9. QED
      BY <2>8, GoodSame
  <1>3. "none" \in {"none", "yes", "no"} /\ NoKey \in Key \cup {NoKey} /\ TRUE \in BOOLEAN
    OBVIOUS
  <1>4. QED
    BY <1>2, <1>3

-----------------------------------------------------------------------------
(* Requests and notifications.                                             *)

LEMMA MessageType ==
    ASSUME NEW kind \in {"telemetry", "cleanup", "render", "hops", "key"}, NEW id \in Nat, NEW n \in Nat
    PROVE  /\ Message(kind, id, n) \in Msg
           /\ Message(kind, id, n).kind = kind /\ Message(kind, id, n).id = id /\ Message(kind, id, n).n = n
  BY DEF Message, Msg, Ids

LEMMA GoodMore ==
    ASSUME NEW e, NEW f \in EntrySet, NEW sin, NEW ch, NEW read, NEW last, NEW ids, NEW s \in Slots, NEW n \in Nat,
           Good(e, sin, ch, read, last, ids),
           f.next = e.next + 1, f[s] = e.next, \A t \in Slots : t # s => f[t] = e[t],
           f.rx = e.rx, f.pipe = e.pipe, f.out = Append(e.out, Message(s, e.next, n)),
           Len(f.queue) <= QueueLen, KeyOrder(sin \o f.out, f.queue, read, last)
    PROVE  Good(f, sin, ch, read, last, ids)
  <1> DEFINE msg == Message(s, e.next, n)
  <1>1. /\ e \in EntrySet /\ e.rx \in Seq(GoodLines(e)) /\ e.pipe \in Seq(GoodLines(e))
        /\ e.out \in Seq(GoodMsgs(e)) /\ sin \in Seq(GoodMsgs(e)) /\ e.out \in Seq(Msg)
    BY GoodFields
  <1>2. e.next \in Nat \ {0} /\ \A t \in Slots : e[t] \in Nat /\ e[t] < e.next
    BY <1>1 DEF EntrySet, Good, Matching, Slots
  <1>3. msg \in Msg /\ msg.kind = s /\ msg.id = e.next
    <2>1. s \in {"telemetry", "cleanup", "render", "hops", "key"} /\ e.next \in Nat
      BY <1>2 DEF Slots
    <2>2. QED
      BY <2>1, MessageType, SMTT(30)
  <1> HIDE DEF msg
  <1>4. \A x : x.id \in Nat /\ Fits(e, x) => Fits(f, x)
    <2> SUFFICES ASSUME NEW x, x.id \in Nat, Fits(e, x) PROVE Fits(f, x)
      OBVIOUS
    <2>1. x.id < f.next /\ x.id # e.next
      BY <1>2 DEF Fits
    <2>2. \A t \in Slots : f[t] # 0 /\ x.id = f[t] => x.kind = t
      BY <2>1 DEF Fits
    <2>3. QED
      BY <2>1, <2>2 DEF Fits
  <1>5. GoodLines(e) \subseteq GoodLines(f) /\ GoodMsgs(e) \subseteq GoodMsgs(f)
    <2>1. (\A x \in Lines : x.id \in Nat) /\ (\A x \in Msg : x.id \in Nat)
      BY DEF Lines, Msg, Ids
    <2>2. QED
      BY <1>4, <2>1 DEF GoodLines, GoodMsgs
  <1>6. msg \in GoodMsgs(f)
    <2>1. msg.id < f.next
      BY <1>2, <1>3
    <2>2. \A t \in Slots : msg.id = f[t] => t = s
      BY <1>2, <1>3
    <2>3. QED
      BY <1>3, <2>1, <2>2 DEF GoodMsgs, Fits
  <1>7. f.rx \in Seq(GoodLines(f)) /\ f.pipe \in Seq(GoodLines(f)) /\ sin \in Seq(GoodMsgs(f))
    BY <1>1, <1>5, SeqMonotonic
  <1>8. f.out \in Seq(GoodMsgs(f))
    <2>1. e.out \in Seq(GoodMsgs(f))
      BY <1>1, <1>5, SeqMonotonic
    <2>2. QED
      BY <1>6, <2>1, AppendProperties DEF msg
  <1>9. \A t \in Slots : f[t] < f.next
    BY <1>2, SMTT(30)
  <1>10. Elements(f.out) = Elements(e.out) \cup {msg}
    BY <1>1, <1>3, ElementsAppend DEF msg
  <1>11. ch = "up" => Transit(f, sin, ids)
    <2> SUFFICES ASSUME ch = "up", NEW t \in Slots, f[t] # 0 PROVE f[t] \in ids \cup {m.id : m \in Under(f, sin)}
      BY DEF Transit
    <2>1. Under(f, sin) = Under(e, sin) \cup {msg}
      BY <1>10 DEF Under
    <2>2. CASE t = s
      BY <1>3, <2>1, <2>2
    <2>3. CASE t # s
      <3>1. e[t] \in ids \cup {m.id : m \in Under(e, sin)}
        BY <2>3 DEF Good, Transit
      <3>2. QED
        BY <2>1, <2>3, <3>1
    <2>4. QED
      BY <2>2, <2>3
  <1>12. QED
    BY <1>7, <1>8, <1>9, <1>11 DEF Good, Matching

LEMMA SendRequest ==
    ASSUME NEW e, NEW sin, NEW ch, NEW read, NEW last, NEW ids, NEW s \in {"render", "hops"},
           Good(e, sin, ch, read, last, ids)
    PROVE  /\ Good(send_request(e, s, 0), sin, ch, read, last, ids)
           /\ NoIdle(e) => NoIdle(send_request(e, s, 0))
  <1> DEFINE msg == Message(s, e.next, 0)
             f == [e EXCEPT !.next = @ + 1, ![s] = e.next, !.out = Append(@, Message(s, e.next, 0))]
  <1>1. /\ e \in EntrySet /\ e.out \in Seq(Msg) /\ sin \in Seq(Msg) /\ sin \o e.out \in Seq(Msg)
        /\ Len(e.queue) <= QueueLen /\ KeyOrder(sin \o e.out, e.queue, read, last)
    BY GoodFields
  <1>2. CASE e.rpcDead
    <2>1. send_request(e, s, 0) = [e EXCEPT !.dead = TRUE]
      BY <1>2 DEF send_request
    <2>2. NoIdle(e) => NoIdle([e EXCEPT !.dead = TRUE])
      BY <1>1 DEF NoIdle, EntrySet
    <2>3. TRUE \in BOOLEAN
      OBVIOUS
    <2>4. Good([e EXCEPT !.dead = TRUE], sin, ch, read, last, ids)
      BY <2>3, GoodFlags, Zenon
    <2>5. QED
      BY <2>1, <2>2, <2>4
  <1>3. CASE ~e.rpcDead
    <2>1. send_request(e, s, 0) = f
      BY <1>3 DEF send_request
    <2>2. e.next \in Nat \ {0} /\ msg \in Msg /\ msg.kind = s
      <3>1. e.next \in Nat \ {0}
        BY <1>1 DEF EntrySet
      <3>2. QED
        BY <3>1, MessageType
    <2>3. Append(e.out, msg) \in Seq(Msg)
      BY <1>1, <2>2, AppendProperties
    <2> HIDE DEF msg
    <2>4. f = [e EXCEPT !.next = e.next + 1, ![s] = e.next, !.out = Append(e.out, msg)]
      BY <1>1 DEF EntrySet, msg
    <2>5. /\ f \in EntrySet /\ f.next = e.next + 1 /\ f[s] = e.next /\ \A t \in Slots : t # s => f[t] = e[t]
          /\ f.rx = e.rx /\ f.pipe = e.pipe /\ f.queue = e.queue /\ f.out = Append(e.out, msg)
          /\ f.initialized = e.initialized /\ f.rpcDead = e.rpcDead /\ f.key = e.key
      <3> DEFINE g == [e EXCEPT !.next = e.next + 1, !.render = e.next, !.out = Append(e.out, msg)]
                 h == [e EXCEPT !.next = e.next + 1, !.hops = e.next, !.out = Append(e.out, msg)]
      <3> HIDE DEF f
      <3>1. e.next \in Nat /\ e.next + 1 \in Nat \ {0}
        BY <2>2
      <3>2. g \in EntrySet /\ h \in EntrySet
        BY <1>1, <2>3, <3>1 DEF EntrySet
      <3>3. s = "render" => f = g
        BY <2>4
      <3>4. s = "hops" => f = h
        BY <2>4
      <3>5. CASE s = "render"
        BY <1>1, <3>2, <3>3, <3>5, ZenonT(40) DEF EntrySet, Slots
      <3>6. CASE s = "hops"
        BY <1>1, <3>2, <3>4, <3>6, ZenonT(40) DEF EntrySet, Slots
      <3>7. QED
        BY <3>5, <3>6
    <2>6. KeyOrder(sin \o f.out, f.queue, read, last)
      <3>1. sin \o Append(e.out, msg) = Append(sin \o e.out, msg)
        BY <1>1, <2>2, ConcatAppend, SMTT(30)
      <3>2. KeyOrder(Append(sin \o e.out, msg), e.queue, read, last)
        BY <1>1, <2>2, OrderAppend
      <3>3. QED
        BY <2>5, <3>1, <3>2
    <2> HIDE DEF f
    <2>7. s \in Slots /\ 0 \in Nat /\ Len(f.queue) <= QueueLen
      BY <1>1, <2>5 DEF Slots
    <2>8. Good(f, sin, ch, read, last, ids)
      BY <2>5, <2>6, <2>7, GoodMore DEF msg
    <2>9. NoIdle(e) => NoIdle(f)
      BY <2>5 DEF NoIdle
    <2>10. QED
      BY <2>1, <2>8, <2>9
  <1>4. QED
    BY <1>2, <1>3

LEMMA SendNextKey ==
    ASSUME NEW e, NEW sin, NEW ch, NEW read, NEW last, NEW ids, Good(e, sin, ch, read, last, ids)
    PROVE  Good(plugin_send_next_key(e), sin, ch, read, last, ids) /\ NoIdle(plugin_send_next_key(e))
  <1>1. /\ e \in EntrySet /\ e.out \in Seq(Msg) /\ sin \in Seq(Msg) /\ sin \o e.out \in Seq(Msg)
        /\ e.queue \in Seq(1..MaxKeys) /\ Len(e.queue) <= QueueLen
        /\ KeyOrder(sin \o e.out, e.queue, read, last)
    BY GoodFields
  <1>2. CASE e.key # 0 \/ e.rpcDead \/ e.queue = <<>>
    BY <1>1, <1>2 DEF plugin_send_next_key, NoIdle
  <1>3. CASE ~(e.key # 0 \/ e.rpcDead \/ e.queue = <<>>)
    <2> DEFINE n == Head(e.queue)
               msg == Message("key", e.next, n)
               d == [e EXCEPT !.queue = Tail(e.queue)]
               f == [d EXCEPT !.next = d.next + 1, !.key = d.next, !.out = Append(d.out, Message("key", d.next, n))]
    <2>1. n \in Nat /\ Tail(e.queue) \in Seq(1..MaxKeys) /\ Len(Tail(e.queue)) <= QueueLen
      <3>1. MaxKeys \in Nat /\ QueueLen \in Nat /\ Len(e.queue) \in Nat
        BY <1>1, PluginAssumption, LenProperties
      <3>2. n \in 1..MaxKeys /\ Tail(e.queue) \in Seq(1..MaxKeys) /\ Len(Tail(e.queue)) = Len(e.queue) - 1
        BY <1>1, <1>3, HeadTailProperties
      <3>3. QED
        BY <1>1, <3>1, <3>2
    <2> HIDE DEF n
    <2>2. e.next \in Nat \ {0} /\ msg \in Msg /\ msg.kind = "key" /\ msg.n = n
      <3>1. e.next \in Nat \ {0}
        BY <1>1 DEF EntrySet
      <3>2. QED
        BY <2>1, <3>1, MessageType
    <2>3. Append(e.out, msg) \in Seq(Msg)
      BY <1>1, <2>2, AppendProperties
    <2>4. d \in EntrySet /\ d.next = e.next /\ d.out = e.out /\ d.rpcDead = e.rpcDead
      BY <1>1, <2>1 DEF EntrySet
    <2>5. plugin_send_next_key(e) = f
      BY <1>1, <1>3, <2>4 DEF plugin_send_next_key, send_request, n, EntrySet
    <2>6. f = [d EXCEPT !.next = e.next + 1, !.key = e.next, !.out = Append(e.out, msg)]
      BY <2>4
    <2> HIDE DEF msg
    <2>7. /\ f \in EntrySet /\ f.next = e.next + 1 /\ f["key"] = e.next /\ \A t \in Slots : t # "key" => f[t] = e[t]
          /\ f.rx = e.rx /\ f.pipe = e.pipe /\ f.queue = Tail(e.queue) /\ f.out = Append(e.out, msg)
      <3> HIDE DEF f
      <3>1. e.next \in Nat /\ e.next + 1 \in Nat \ {0}
        BY <2>2
      <3>2. /\ d \in EntrySet /\ d.rx = e.rx /\ d.pipe = e.pipe /\ d.queue = Tail(e.queue)
            /\ \A t \in Slots : d[t] = e[t]
        BY <1>1, <2>4 DEF EntrySet, Slots
      <3> HIDE DEF d
      <3>3. f \in EntrySet
        BY <2>3, <2>6, <3>1, <3>2 DEF EntrySet
      <3>4. QED
        BY <2>6, <3>2, <3>3 DEF EntrySet, Slots
    <2> HIDE DEF f
    <2>8. KeyOrder(sin \o f.out, f.queue, read, last)
      <3>1. sin \o Append(e.out, msg) = Append(sin \o e.out, msg)
        BY <1>1, <2>2, ConcatAppend
      <3>2. KeyOrder(Append(sin \o e.out, msg), Tail(e.queue), read, last)
        BY <1>1, <1>3, <2>2, OrderSend DEF n
      <3>3. QED
        BY <2>7, <3>1, <3>2
    <2>9. "key" \in Slots /\ Len(f.queue) <= QueueLen
      BY <2>1, <2>7 DEF Slots
    <2>10. Good(f, sin, ch, read, last, ids)
      BY <2>1, <2>7, <2>8, <2>9, GoodMore DEF msg
    <2>11. NoIdle(f)
      BY <2>2, <2>7 DEF NoIdle
    <2>12. QED
      BY <2>5, <2>10, <2>11
  <1>4. QED
    BY <1>2, <1>3

LEMMA Notify ==
    ASSUME NEW e, NEW sin, NEW ch, NEW read, NEW last, NEW ids, NEW kind \in {"telemetry", "cleanup"},
           Good(e, sin, ch, read, last, ids)
    PROVE  /\ Good(notify(e, kind), sin, ch, read, last, ids)
           /\ NoIdle(e) => NoIdle(notify(e, kind))
  <1> DEFINE msg == Message(kind, 0, 0)
             f == [e EXCEPT !.out = Append(e.out, msg)]
  <1>1. /\ e \in EntrySet /\ e.out \in Seq(Msg) /\ sin \in Seq(Msg) /\ sin \o e.out \in Seq(Msg)
        /\ e.rx \in Seq(GoodLines(e)) /\ e.pipe \in Seq(GoodLines(e))
        /\ e.out \in Seq(GoodMsgs(e)) /\ sin \in Seq(GoodMsgs(e))
        /\ Len(e.queue) <= QueueLen /\ KeyOrder(sin \o e.out, e.queue, read, last)
    BY GoodFields
  <1>2. CASE e.rpcDead
    BY <1>2 DEF notify
  <1>3. CASE ~e.rpcDead
    <2>1. msg \in Msg /\ msg.kind = kind /\ msg.id = 0 /\ msg.kind # "key"
      BY MessageType
    <2>2. notify(e, kind) = f
      BY <1>1, <1>3 DEF notify, EntrySet
    <2> HIDE DEF msg
    <2>3. Append(e.out, msg) \in Seq(Msg)
      BY <1>1, <2>1, AppendProperties
    <2>4. /\ f \in EntrySet /\ f.next = e.next /\ \A t \in Slots : f[t] = e[t]
          /\ f.rx = e.rx /\ f.pipe = e.pipe /\ f.queue = e.queue /\ f.out = Append(e.out, msg)
          /\ f.initialized = e.initialized /\ f.rpcDead = e.rpcDead /\ f.key = e.key
      BY <1>1, <2>3 DEF EntrySet, Slots
    <2> HIDE DEF f
    <2>5. GoodLines(e) \subseteq GoodLines(f) /\ GoodMsgs(e) \subseteq GoodMsgs(f)
      BY <2>4, LinesLess
    <2>6. msg \in GoodMsgs(f)
      <3>1. f.next \in Nat \ {0}
        BY <2>4 DEF EntrySet
      <3>2. QED
        BY <2>1, <3>1 DEF GoodMsgs, Fits
    <2>7. f.out \in Seq(GoodMsgs(f))
      <3>1. e.out \in Seq(GoodMsgs(f))
        BY <1>1, <2>5, SeqMonotonic
      <3>2. QED
        BY <2>4, <2>6, <3>1, AppendProperties
    <2>8. f.rx \in Seq(GoodLines(f)) /\ f.pipe \in Seq(GoodLines(f)) /\ sin \in Seq(GoodMsgs(f))
      BY <1>1, <2>4, <2>5, SeqMonotonic
    <2>9. \A t \in Slots : f[t] < f.next
      BY <2>4 DEF Good, Matching
    <2>10. ch = "up" => Transit(f, sin, ids)
      <3>1. Elements(f.out) = Elements(e.out) \cup {msg}
        BY <1>1, <2>1, <2>4, ElementsAppend
      <3>2. Under(e, sin) \subseteq Under(f, sin)
        BY <2>4, <3>1 DEF Under
      <3>3. QED
        BY <2>4, <3>2 DEF Good, Transit
    <2>11. KeyOrder(sin \o f.out, f.queue, read, last)
      <3>1. sin \o Append(e.out, msg) = Append(sin \o e.out, msg)
        BY <1>1, <2>1, ConcatAppend, SMTT(30)
      <3>2. KeyOrder(Append(sin \o e.out, msg), e.queue, read, last)
        BY <1>1, <2>1, OrderAppend
      <3>3. QED
        BY <2>4, <3>1, <3>2
    <2>12. Good(f, sin, ch, read, last, ids)
      BY <1>1, <2>4, <2>7, <2>8, <2>9, <2>10, <2>11 DEF Good, Matching
    <2>13. NoIdle(e) => NoIdle(f)
      BY <2>4 DEF NoIdle
    <2>14. QED
      BY <2>2, <2>12, <2>13
  <1>4. QED
    BY <1>2, <1>3

-----------------------------------------------------------------------------
(* Answers.                                                                *)

LEMMA CheckAlive ==
    ASSUME NEW e, NEW sin, NEW ch, NEW read, NEW last, NEW ids, Good(e, sin, ch, read, last, ids), NoIdle(e)
    PROVE  /\ Good(plugin_check_alive(e), sin, ch, read, last, ids) /\ NoIdle(plugin_check_alive(e))
           /\ plugin_check_alive(e).pipe = e.pipe
           /\ ~e.initialized => plugin_check_alive(e) = e
  <1> DEFINE f == [e EXCEPT !.dead = TRUE, !.initialized = FALSE]
  <1>1. e \in EntrySet
    BY GoodFields
  <1>2. TRUE \in BOOLEAN /\ FALSE \in BOOLEAN
    OBVIOUS
  <1>3. Good(f, sin, ch, read, last, ids)
    BY <1>2, GoodFlags, Zenon
  <1>4. NoIdle(f) /\ f.pipe = e.pipe
    BY <1>1 DEF NoIdle, EntrySet
  <1> HIDE DEF f
  <1>5. plugin_check_alive(e) \in {e, f} /\ (~e.initialized => plugin_check_alive(e) = e)
    BY DEF plugin_check_alive, f
  <1>6. QED
    BY <1>3, <1>4, <1>5

LEMMA ForceSync ==
    ASSUME NEW e, NEW sin, NEW ch, NEW read, NEW last, NEW ids, Good(e, sin, ch, read, last, ids)
    PROVE  Good(plugin_force_sync(e), sin, ch, read, last, {})
  <1> DEFINE b == e.rpcDead \/ child = "gone"
             d == [e EXCEPT !.rx = <<>>, !.pipe = <<>>, !.rpcDead = b]
             f == [d EXCEPT !.render = 0, !.hops = 0, !.key = 0, !.shown = "none",
                            !.queue = <<>>, !.lastKey = NoKey, !.armed = FALSE, !.editor = FALSE]
  <1>1. e \in EntrySet /\ KeyOrder(sin \o e.out, e.queue, read, last) /\ sin \o e.out \in Seq(Msg)
    BY GoodFields
  <1>2. b \in BOOLEAN
    OBVIOUS
  <1>3. discard_queued(e) = d
    BY <1>1 DEF discard_queued, EntrySet
  <1> HIDE DEF b
  <1>4. d \in EntrySet /\ d.next = e.next /\ d.out = e.out /\ d.rx = <<>> /\ d.pipe = <<>>
    <2>1. <<>> \in Seq(Lines)
      BY EmptySeq
    <2>2. d \in EntrySet
      BY <1>1, <1>2, <2>1 DEF EntrySet
    <2>3. QED
      BY <1>1, <2>2 DEF EntrySet
  <1>5. plugin_force_sync(e) = f
    BY <1>3 DEF plugin_force_sync
  <1> HIDE DEF d
  <1>6. f \in EntrySet
    <2>1. <<>> \in Seq(1..MaxKeys)
      BY EmptySeq
    <2>2. QED
      BY <1>4, <2>1 DEF EntrySet
  <1>7. /\ f.next = e.next /\ f.out = e.out /\ f.rx = <<>> /\ f.pipe = <<>> /\ f.queue = <<>>
        /\ \A s \in Slots : f[s] = 0
    BY <1>4 DEF EntrySet, Slots
  <1> HIDE DEF f
  <1>8. KeyOrder(sin \o e.out, f.queue, read, last)
    BY <1>1, <1>7, OrderLess
  <1>9. f.rx \in Seq(GoodLines(e)) /\ f.pipe \in Seq(GoodLines(e)) /\ Len(f.queue) <= QueueLen
    BY <1>7, EmptySeq, PluginAssumption
  <1>10. Transit(f, sin, {})
    BY <1>7 DEF Transit
  <1>11. QED
    BY <1>5, <1>6, <1>7, <1>8, <1>9, <1>10, GoodLess

LEMMA GoodModal ==
    ASSUME NEW e, NEW sin, NEW ch, NEW read, NEW last, NEW ids, Good(e, sin, ch, read, last, ids),
           NEW m \in Says
    PROVE  Good(SetModal(e, m), sin, ch, read, last, ids)
  <1>1. (m = "yes") \in BOOLEAN
    OBVIOUS
  <1>2. Good([e EXCEPT !.modal = (m = "yes"), !.told = (m = "yes")], sin, ch, read, last, ids)
    BY <1>1, GoodFlags, Zenon
  <1>3. QED
    BY <1>2 DEF SetModal

LEMMA GoodLineFacts ==
    ASSUME NEW e, NEW line \in GoodLines(e)
    PROVE  /\ line.modal \in Says /\ line.id \in Nat
           /\ line.kind = "render" => line.modal \in {"yes", "no"}
           /\ \A s \in Slots : e[s] # 0 /\ line.id = e[s] => line.kind = s
  BY DEF GoodLines, Fits, Lines, Says, Ids

(* The request in slot s has its answer.                                   *)
LEMMA Answered ==
    ASSUME NEW e, NEW f \in EntrySet, NEW sin, NEW ch, NEW read, NEW last, NEW line \in GoodLines(e), NEW s \in Slots,
           Good(e, sin, ch, read, last, {line.id}), e[s] # 0, line.id = e[s],
           f.next = e.next, f[s] = 0, \A t \in Slots : t # s => f[t] = e[t],
           f.out = e.out, f.rx = e.rx, f.pipe = e.pipe, f.queue = e.queue
    PROVE  Good(f, sin, ch, read, last, {})
  <1>1. /\ e.rx \in Seq(GoodLines(e)) /\ e.pipe \in Seq(GoodLines(e))
        /\ Len(e.queue) <= QueueLen /\ KeyOrder(sin \o e.out, e.queue, read, last)
    BY GoodFields
  <1>2. \A t \in Slots : e[t] # 0 /\ line.id = e[t] => t = s
    BY GoodLineFacts
  <1>3. Under(f, sin) = Under(e, sin)
    BY DEF Under
  <1>4. ch = "up" => Transit(f, sin, {})
    <2> SUFFICES ASSUME ch = "up", NEW t \in Slots, f[t] # 0 PROVE f[t] \in {m.id : m \in Under(f, sin)}
      BY DEF Transit
    <2>1. t # s /\ f[t] = e[t] /\ e[t] # line.id
      BY <1>2
    <2>2. e[t] \in {line.id} \cup {m.id : m \in Under(e, sin)}
      BY <2>1 DEF Good, Transit
    <2>3. QED
      BY <1>3, <2>1, <2>2
  <1>5. \A t \in Slots : f[t] = 0 \/ f[t] = e[t]
    OBVIOUS
  <1>6. QED
    BY <1>1, <1>4, <1>5, GoodLess

LEMMA OnKeyResult ==
    ASSUME NEW e, NEW sin, NEW ch, NEW read, NEW last, Good(e, sin, ch, read, last, {}),
           NEW line, line.modal \in Says
    PROVE  Good(plugin_handle_on_key_result(e, line), sin, ch, read, last, {})
  <1> DEFINE d == SetModal(e, line.modal)
  <1>1. Good(d, sin, ch, read, last, {})
    BY GoodModal
  <1>2. Good(SetModal(plugin_force_sync(e), line.modal), sin, ch, read, last, {})
    BY ForceSync, GoodModal
  <1> HIDE DEF d
  <1>3. TRUE \in BOOLEAN /\ NoKey \in Key \cup {NoKey} /\ "none" \in {"none", "yes", "no"}
    OBVIOUS
  <1>4. Good([d EXCEPT !.editor = TRUE], sin, ch, read, last, {})
    BY <1>1, <1>3, GoodFlags, Zenon
  <1> DEFINE m == IF line.handled THEN "none" ELSE d.shown
  <1>5. d \in EntrySet
    BY <1>1, GoodFields
  <1>6. m \in {"none", "yes", "no"}
    BY <1>5 DEF EntrySet
  <1> HIDE DEF m
  <1>7. Good([d EXCEPT !.shown = m, !.lastKey = NoKey], sin, ch, read, last, {})
    BY <1>1, <1>3, <1>6, GoodFlags, Zenon
  <1>8. plugin_handle_on_key_result(e, line) =
           CASE line.act = "sync"   -> SetModal(plugin_force_sync(e), line.modal)
             [] line.act = "editor" -> [d EXCEPT !.editor = TRUE]
             [] OTHER               -> [d EXCEPT !.shown = m, !.lastKey = NoKey]
    <2>1. [d EXCEPT !.shown = IF line.handled THEN "none" ELSE @, !.lastKey = NoKey]
             = [d EXCEPT !.shown = m, !.lastKey = NoKey]
      BY <1>5 DEF EntrySet, m
    <2>2. QED
      BY <2>1 DEF plugin_handle_on_key_result, d
  <1>9. QED
    BY <1>2, <1>4, <1>7, <1>8

LEMMA HandleOne ==
    ASSUME NEW e, NEW sin, NEW ch, NEW read, NEW last, NEW line \in GoodLines(e),
           Good(e, sin, ch, read, last, {line.id})
    PROVE  Good(HandleLine(e, line), sin, ch, read, last, {}) /\ NoIdle(HandleLine(e, line))
  <1> DEFINE a == SetModal(plugin_force_sync(e), line.modal)
             b == [e EXCEPT !.shown = line.modal, !.render = 0, !.told = e.told /\ line.modal = "yes"]
             c == [e EXCEPT !.hops = 0]
             k == [e EXCEPT !.key = 0]
             d == plugin_handle_on_key_result(k, line)
  <1>1. /\ line.modal \in Says
        /\ line.kind = "render" => line.modal \in {"yes", "no"}
        /\ \A s \in Slots : e[s] # 0 /\ line.id = e[s] => line.kind = s
    BY GoodLineFacts
  <1>2. e \in EntrySet
    BY GoodFields
  <1>3. {"render", "hops", "key"} = Slots
    BY DEF Slots
  <1>4. Good(a, sin, ch, read, last, {})
    <2>1. Good(plugin_force_sync(e), sin, ch, read, last, {})
      BY ForceSync
    <2>2. line.modal \in Says
      BY <1>1
    <2>3. QED
      BY <2>1, <2>2, GoodModal
  <1>5. ASSUME e.render # 0, line.id = e.render PROVE Good(b, sin, ch, read, last, {})
    <2>1. line.modal \in {"yes", "no"}
      <3>1. line.kind = "render"
        BY <1>1, <1>3, <1>5
      <3>2. QED
        BY <1>1, <3>1
    <2>2. (e.told /\ line.modal = "yes") \in BOOLEAN
      OBVIOUS
    <2>3. b \in EntrySet
      BY <1>2, <2>1, <2>2, ZenonT(40) DEF EntrySet
    <2>4. /\ b.next = e.next /\ b["render"] = 0 /\ \A t \in Slots : t # "render" => b[t] = e[t]
          /\ b.out = e.out /\ b.rx = e.rx /\ b.pipe = e.pipe /\ b.queue = e.queue
      BY <1>2 DEF EntrySet, Slots
    <2> HIDE DEF b
    <2>5. QED
      BY <1>3, <1>5, <2>3, <2>4, Answered
  <1>6. ASSUME e.hops # 0, line.id = e.hops PROVE Good(c, sin, ch, read, last, {})
    <2>1. c \in EntrySet
      BY <1>2 DEF EntrySet
    <2>2. /\ c.next = e.next /\ c["hops"] = 0 /\ \A t \in Slots : t # "hops" => c[t] = e[t]
          /\ c.out = e.out /\ c.rx = e.rx /\ c.pipe = e.pipe /\ c.queue = e.queue
      BY <1>2 DEF EntrySet, Slots
    <2> HIDE DEF c
    <2>3. QED
      BY <1>3, <1>6, <2>1, <2>2, Answered
  <1>7. ASSUME e.key # 0, line.id = e.key PROVE Good(d, sin, ch, read, last, {})
    <2>1. k \in EntrySet
      BY <1>2 DEF EntrySet
    <2>2. /\ k.next = e.next /\ k["key"] = 0 /\ \A t \in Slots : t # "key" => k[t] = e[t]
          /\ k.out = e.out /\ k.rx = e.rx /\ k.pipe = e.pipe /\ k.queue = e.queue
      BY <1>2 DEF EntrySet, Slots
    <2> HIDE DEF k
    <2>3. Good(k, sin, ch, read, last, {})
      BY <1>3, <1>7, <2>1, <2>2, Answered
    <2>4. line.modal \in Says
      BY <1>1
    <2>5. QED
      BY <2>3, <2>4, OnKeyResult
  <1>8. ASSUME \A s \in Slots : ~(e[s] # 0 /\ line.id = e[s]) PROVE Good(e, sin, ch, read, last, {})
    <2>1. ch = "up" => Transit(e, sin, {})
      BY <1>8 DEF Good, Transit
    <2>2. QED
      BY <2>1 DEF Good
  <1> DEFINE r == CASE line.kind = "sync" -> a
                    [] e.render # 0 /\ line.id = e.render -> b
                    [] e.hops # 0 /\ line.id = e.hops -> c
                    [] e.key # 0 /\ line.id = e.key -> d
                    [] OTHER -> e
  <1>9. HandleLine(e, line) = plugin_send_next_key(r)
    <2>1. [e EXCEPT !.shown = line.modal, !.render = 0, !.told = @ /\ line.modal = "yes"] = b
      BY <1>2 DEF EntrySet
    <2> HIDE DEF b
    <2>2. QED
      BY <2>1 DEF HandleLine
  <1> HIDE DEF a, b, c, d
  <1>10. Good(r, sin, ch, read, last, {})
    <2>1. CASE line.kind = "sync"
      <3>1. \A s \in Slots : ~(e[s] # 0 /\ line.id = e[s])
        BY <1>1, <2>1 DEF Slots
      <3>2. r = a
        BY <1>3, <2>1, <3>1
      <3>3. QED
        BY <1>4, <3>2
    <2>2. CASE e.render # 0 /\ line.id = e.render
      <3>1. line.kind = "render"
        BY <1>1, <1>3, <2>2
      <3>2. r = b
        BY <1>1, <1>3, <2>2, <3>1
      <3>3. QED
        BY <1>5, <2>2, <3>2
    <2>3. CASE e.hops # 0 /\ line.id = e.hops
      <3>1. line.kind = "hops"
        BY <1>1, <1>3, <2>3
      <3>2. r = c
        BY <1>1, <1>3, <2>3, <3>1
      <3>3. QED
        BY <1>6, <2>3, <3>2
    <2>4. CASE e.key # 0 /\ line.id = e.key
      <3>1. line.kind = "key"
        BY <1>1, <1>3, <2>4
      <3>2. r = d
        BY <1>1, <1>3, <2>4, <3>1
      <3>3. QED
        BY <1>7, <2>4, <3>2
    <2>5. CASE /\ line.kind # "sync" /\ ~(e.render # 0 /\ line.id = e.render)
               /\ ~(e.hops # 0 /\ line.id = e.hops) /\ ~(e.key # 0 /\ line.id = e.key)
      <3>1. r = e
        BY <2>5
      <3>2. \A s \in Slots : ~(e[s] # 0 /\ line.id = e[s])
        BY <2>5 DEF Slots
      <3>3. QED
        BY <1>8, <3>1, <3>2
    <2>6. QED
      BY <2>1, <2>2, <2>3, <2>4, <2>5
  <1> HIDE DEF r
  <1>11. QED
    BY <1>9, <1>10, SendNextKey

LEMMA TakeOne ==
    ASSUME NEW e, NEW sin, NEW ch, NEW read, NEW last, Good(e, sin, ch, read, last, {}), e.rx # <<>>
    PROVE  Good(TakeLine(e), sin, ch, read, last, {}) /\ NoIdle(TakeLine(e))
  <1> DEFINE line == Head(e.rx)
             d == [e EXCEPT !.rx = Tail(e.rx)]
  <1>1. /\ e \in EntrySet /\ e.rx \in Seq(GoodLines(e)) /\ e.pipe \in Seq(GoodLines(e))
        /\ Len(e.queue) <= QueueLen /\ KeyOrder(sin \o e.out, e.queue, read, last)
    BY GoodFields
  <1>2. line \in GoodLines(e) /\ Tail(e.rx) \in Seq(GoodLines(e))
    BY <1>1, HeadTailProperties
  <1>3. Elements(e.rx) = {line} \cup Elements(Tail(e.rx))
    BY <1>1, ElementsHead
  <1>4. Tail(e.rx) \in Seq(Lines)
    <2>1. GoodLines(e) \subseteq Lines
      BY DEF GoodLines
    <2>2. QED
      BY <1>2, <2>1, SeqMonotonic
  <1>5. TakeLine(e) = HandleLine(d, line)
    BY <1>1 DEF TakeLine, EntrySet
  <1> HIDE DEF line
  <1>6. d \in EntrySet
    BY <1>1, <1>4 DEF EntrySet
  <1>7. /\ d.next = e.next /\ \A s \in Slots : d[s] = e[s]
        /\ d.out = e.out /\ d.rx = Tail(e.rx) /\ d.pipe = e.pipe /\ d.queue = e.queue
    BY <1>1 DEF EntrySet, Slots
  <1> HIDE DEF d
  <1>8. ch = "up" => Transit(d, sin, {line.id})
    <2> SUFFICES ASSUME ch = "up", NEW s \in Slots, d[s] # 0
                 PROVE  d[s] \in {line.id} \cup {m.id : m \in Under(d, sin)}
      BY DEF Transit
    <2>1. Under(e, sin) = Under(d, sin) \cup {line}
      BY <1>3, <1>7 DEF Under
    <2>2. e[s] \in {m.id : m \in Under(e, sin)}
      BY <1>7 DEF Good, Transit
    <2>3. QED
      BY <1>7, <2>1, <2>2
  <1>9. Good(d, sin, ch, read, last, {line.id})
    BY <1>1, <1>2, <1>6, <1>7, <1>8, GoodLess, ZenonT(40)
  <1>10. line \in GoodLines(d)
    <2>1. GoodLines(e) \subseteq GoodLines(d)
      BY <1>7, LinesLess
    <2>2. QED
      BY <1>2, <2>1
  <1>11. QED
    BY <1>5, <1>9, <1>10, HandleOne

LEMMA DrainResponse ==
    ASSUME NEW e, NEW sin, NEW ch, NEW read, NEW last, NEW n \in 1..Len(e.pipe) \cup {1},
           Good(e, sin, ch, read, last, {}), NoIdle(e)
    PROVE  /\ Good(plugin_drain_response(e, n), sin, ch, read, last, {})
           /\ NoIdle(plugin_drain_response(e, n))
  <1>1. /\ e \in EntrySet /\ e.rx \in Seq(GoodLines(e)) /\ e.pipe \in Seq(GoodLines(e))
        /\ Len(e.queue) <= QueueLen /\ KeyOrder(sin \o e.out, e.queue, read, last)
    BY GoodFields
  <1>2. CASE e.rpcDead
    BY <1>2 DEF plugin_drain_response
  <1>3. CASE ~e.rpcDead /\ e.rx # <<>>
    <2>1. plugin_drain_response(e, n) = TakeLine(e)
      BY <1>3 DEF plugin_drain_response
    <2>2. QED
      BY <1>3, <2>1, TakeOne
  <1>4. CASE ~e.rpcDead /\ e.rx = <<>> /\ e.pipe # <<>>
    <2> DEFINE p == SubSeq(e.pipe, 1, n)
               q == SubSeq(e.pipe, n + 1, Len(e.pipe))
               d == [e EXCEPT !.rx = p, !.pipe = q]
    <2>1. n \in 1..Len(e.pipe)
      <3>1. Len(e.pipe) \in Nat \ {0}
        BY <1>1, <1>4, EmptySeq
      <3>2. QED
        BY <3>1
    <2>2. /\ p \in Seq(GoodLines(e)) /\ q \in Seq(GoodLines(e)) /\ p # <<>>
          /\ Elements(e.pipe) = Elements(p) \cup Elements(q)
      BY <1>1, <2>1, SplitFacts
    <2>3. plugin_drain_response(e, n) = TakeLine(d)
      BY <1>1, <1>4 DEF plugin_drain_response, EntrySet
    <2> HIDE DEF p, q
    <2>4. p \in Seq(Lines) /\ q \in Seq(Lines)
      <3>1. GoodLines(e) \subseteq Lines
        BY DEF GoodLines
      <3>2. QED
        BY <2>2, <3>1, SeqMonotonic
    <2>5. d \in EntrySet
      BY <1>1, <2>4 DEF EntrySet
    <2>6. /\ d.next = e.next /\ \A s \in Slots : d[s] = e[s]
          /\ d.out = e.out /\ d.rx = p /\ d.pipe = q /\ d.queue = e.queue
      BY <1>1 DEF EntrySet, Slots
    <2> HIDE DEF d
    <2>7. ch = "up" => Transit(d, sin, {})
      <3>1. Elements(e.rx) = {}
        BY <1>4 DEF Elements
      <3>2. Under(d, sin) = Under(e, sin)
        BY <2>2, <2>6, <3>1 DEF Under
      <3>3. QED
        BY <2>6, <3>2 DEF Good, Transit
    <2>8. Good(d, sin, ch, read, last, {})
      BY <1>1, <2>2, <2>5, <2>6, <2>7, GoodLess
    <2>9. QED
      BY <2>2, <2>3, <2>6, <2>8, TakeOne
  <1>5. CASE ~e.rpcDead /\ e.rx = <<>> /\ e.pipe = <<>>
    <2> DEFINE f == [e EXCEPT !.rpcDead = (child = "gone")]
    <2>1. plugin_drain_response(e, n) = f
      BY <1>5 DEF plugin_drain_response
    <2>2. (child = "gone") \in BOOLEAN
      OBVIOUS
    <2>3. Good(f, sin, ch, read, last, {})
      BY <2>2, GoodFlags, Zenon
    <2>4. NoIdle(f)
      BY <1>1, <1>5 DEF NoIdle, EntrySet
    <2>5. QED
      BY <2>1, <2>3, <2>4
  <1>6. QED
    BY <1>2, <1>3, <1>4, <1>5

(* The loop of DrainBuffered keeps what each of its turns keeps.           *)
LEMMA DrainAll ==
    ASSUME NEW e, NEW sin, NEW ch, NEW read, NEW last, Good(e, sin, ch, read, last, {}), NoIdle(e)
    PROVE  Good(DrainBuffered(e), sin, ch, read, last, {}) /\ NoIdle(DrainBuffered(e))
  <1> DEFINE m == Len(e.rx)
             V == {x \in EntrySet : Good(x, sin, ch, read, last, {}) /\ NoIdle(x)}
             Turn(x) == IF x.rx = <<>> \/ x.rpcDead THEN x ELSE TakeLine(x)
             Solves(g) == g = [n \in 0..m |-> IF n = 0 THEN e ELSE Turn(g[n - 1])]
             F == [n \in Nat |-> [x \in V |-> Turn(x)]]
             D == CHOOSE g : Solves(g)
  <1>1. e \in EntrySet /\ e.rx \in Seq(GoodLines(e))
    BY GoodFields
  <1>2. m \in Nat
    BY <1>1, LenProperties
  <1>3. DrainBuffered(e) = D[m]
    BY DEF DrainBuffered
  <1>4. \A x \in V : Turn(x) \in V
    <2> TAKE x \in V
    <2>1. CASE x.rx = <<>> \/ x.rpcDead
      BY <2>1
    <2>2. CASE ~(x.rx = <<>> \/ x.rpcDead)
      <3>1. Good(TakeLine(x), sin, ch, read, last, {}) /\ NoIdle(TakeLine(x))
        BY <2>2, TakeOne
      <3>2. TakeLine(x) \in EntrySet
        BY <3>1, GoodFields
      <3>3. QED
        BY <2>2, <3>1, <3>2
    <2>3. QED
      BY <2>1, <2>2
  <1>5. e \in V
    BY <1>1
  <1> HIDE DEF Turn, V, m
  <1>6. F \in StepFunctions(V)
    BY <1>4 DEF StepFunctions
  <1>7. PICK g : g \in Iterates(V, e, F)
    <2> HIDE DEF F
    <2>1. QED
      BY <1>5, <1>6, NatRecursion
  <1>8. g \in [Nat -> V] /\ g[0] = e /\ \A n \in Nat : g[n + 1] = Turn(g[n])
    BY <1>7 DEF Iterates
  <1> DEFINE h == [n \in 0..m |-> g[n]]
  <1>9. \A n \in 0..m : n # 0 => n - 1 \in Nat /\ n - 1 \in 0..m /\ (n - 1) + 1 = n
    BY <1>2
  <1>10. Solves(h)
    <2>1. \A n \in 0..m : n # 0 => g[n] = Turn(g[n - 1])
      BY <1>8, <1>9
    <2>2. \A n \in 0..m : h[n] = IF n = 0 THEN e ELSE Turn(h[n - 1])
      BY <1>8, <1>9, <2>1
    <2>3. h = [n \in 0..m |-> h[n]]
      BY Zenon
    <2> HIDE DEF h
    <2>4. QED
      BY <2>2, <2>3
  <1>11. Solves(D)
    <2> HIDE DEF Solves, h
    <2>1. QED
      BY <1>10
  <1> HIDE DEF D
  <1>12. \A n \in 0..m : D[n] = IF n = 0 THEN e ELSE Turn(D[n - 1])
    BY <1>11
  <1> DEFINE E == {n \in Nat : n <= m => D[n] \in V}
  <1>13. 0 \in E
    BY <1>2, <1>5, <1>12
  <1>14. ASSUME NEW n \in E PROVE n + 1 \in E
    <2>1. CASE n + 1 <= m
      <3>1. n + 1 \in 0..m /\ n + 1 # 0 /\ (n + 1) - 1 = n /\ n <= m
        BY <1>2, <2>1
      <3>2. D[n + 1] = Turn(D[n]) /\ D[n] \in V
        BY <1>12, <3>1
      <3>3. QED
        BY <1>4, <3>2
    <2>2. QED
      BY <2>1
  <1>15. E = Nat
    <2> HIDE DEF E
    <2>1. E \subseteq Nat
      BY DEF E
    <2>2. QED
      BY <1>13, <1>14, <2>1, NatSetInduction
  <1>16. D[m] \in V
    BY <1>2, <1>15
  <1>17. QED
    BY <1>3, <1>16 DEF V

-----------------------------------------------------------------------------
(* Keys.                                                                   *)

LEMMA GoodLater ==
    ASSUME NEW e, NEW sin, NEW ch, NEW read, NEW last, Good(e, sin, ch, read, last, {})
    PROVE  Good(e, sin, ch, read, last + 1, {})
  <1>1. KeyOrder(sin \o e.out, e.queue, read, last + 1)
    BY GoodFields, OrderLater
  <1>2. QED
    BY <1>1 DEF Good

LEMMA TryOnKey ==
    ASSUME NEW e, NEW sin, NEW st, NEW read, NEW last, Good(e, sin, st, read, last, {}), NoIdle(e),
           last + 1 \in 1..MaxKeys, NEW ch \in Key, NEW modal, NEW soonModal, NEW soonSame
    PROVE  LET f == plugin_try_on_key(e, ch, last + 1, modal, soonModal, soonSame)
           IN  Good(f, sin, st, read, last + 1, {}) /\ NoIdle(f)
  <1> DEFINE d == IF modal THEN [e EXCEPT !.armed = TRUE] ELSE e
             q == plugin_key_queue_enqueue(e.queue, last + 1)
             f == [d EXCEPT !.lastKey = ch, !.queue = q]
  <1>1. e \in EntrySet
    BY GoodFields
  <1>2. TRUE \in BOOLEAN
    OBVIOUS
  <1>3. Good([e EXCEPT !.armed = TRUE], sin, st, read, last, {})
    BY <1>2, GoodFlags, Zenon
  <1>4. Good(d, sin, st, read, last, {})
    BY <1>3
  <1>5. NoIdle(d) /\ d.queue = e.queue
    BY <1>1 DEF NoIdle, EntrySet
  <1>6. plugin_try_on_key(e, ch, last + 1, modal, soonModal, soonSame) \in {e, d, plugin_send_next_key(f)}
    <2>1. [d EXCEPT !.lastKey = ch, !.queue = plugin_key_queue_enqueue(@, last + 1)] = f
      BY <1>1 DEF EntrySet
    <2> HIDE DEF f, q
    <2>2. QED
      BY <2>1 DEF plugin_try_on_key
  <1> HIDE DEF d
  <1>7. /\ d \in EntrySet /\ d.rx \in Seq(GoodLines(d)) /\ d.pipe \in Seq(GoodLines(d)) /\ d.queue \in Seq(1..MaxKeys)
        /\ sin \o d.out \in Seq(Msg)
        /\ Len(d.queue) <= QueueLen /\ KeyOrder(sin \o d.out, d.queue, read, last)
    BY <1>4, GoodFields
  <1>8. q \in Seq(1..MaxKeys) /\ Len(q) <= QueueLen /\ KeyOrder(sin \o d.out, q, read, last + 1)
    BY <1>5, <1>7, OrderEnqueue
  <1> HIDE DEF q
  <1>9. ch \in Key \cup {NoKey}
    OBVIOUS
  <1>10. f \in EntrySet
    BY <1>7, <1>8, <1>9 DEF EntrySet
  <1>11. /\ f.next = d.next /\ \A s \in Slots : f[s] = d[s]
         /\ f.out = d.out /\ f.rx = d.rx /\ f.pipe = d.pipe /\ f.queue = q
    BY <1>7 DEF EntrySet, Slots
  <1> HIDE DEF f
  <1>12. st = "up" => Transit(f, sin, {})
    BY <1>4, <1>11 DEF Good, Transit, Under
  <1>13. Good(f, sin, st, read, last + 1, {})
    BY <1>4, <1>7, <1>8, <1>10, <1>11, <1>12, GoodLess
  <1>14. /\ Good(plugin_send_next_key(f), sin, st, read, last + 1, {})
         /\ NoIdle(plugin_send_next_key(f))
    BY <1>13, SendNextKey
  <1>15. Good(e, sin, st, read, last + 1, {}) /\ Good(d, sin, st, read, last + 1, {})
    BY <1>4, GoodLater
  <1>16. QED
    BY <1>5, <1>6, <1>14, <1>15

LEMMA OnKey ==
    ASSUME NEW e, NEW sin, NEW st, NEW read, NEW last, Good(e, sin, st, read, last, {}), NoIdle(e),
           last + 1 \in 1..MaxKeys, NEW ch \in Key, NEW soonModal, NEW soonSame
    PROVE  LET f == nsr_plugins_on_key(e, ch, last + 1, soonModal, soonSame).ent
           IN  Good(f, sin, st, read, last + 1, {}) /\ NoIdle(f) /\ (~e.initialized => f = e)
  <1> DEFINE d == DrainBuffered(e)
             g == [d EXCEPT !.editor = FALSE]
             h == plugin_try_on_key(d, ch, last + 1, d.modal, soonModal, soonSame)
             f == nsr_plugins_on_key(e, ch, last + 1, soonModal, soonSame).ent
  <1>1. Good(d, sin, st, read, last, {}) /\ NoIdle(d)
    BY DrainAll
  <1> HIDE DEF d
  <1>2. Good(h, sin, st, read, last + 1, {}) /\ NoIdle(h)
    BY <1>1, TryOnKey
  <1>3. Good(g, sin, st, read, last, {}) /\ NoIdle(g)
    <2>1. FALSE \in BOOLEAN /\ d \in EntrySet
      BY <1>1, GoodFields
    <2>2. Good(g, sin, st, read, last, {})
      BY <1>1, <2>1, GoodFlags, Zenon
    <2>3. NoIdle(g)
      BY <1>1, <2>1 DEF NoIdle, EntrySet
    <2>4. QED
      BY <2>2, <2>3
  <1>4. f \in {e, g, d, h} /\ (~e.initialized => f = e)
    <2>1. CASE ~Usable(e)
      BY <2>1 DEF nsr_plugins_on_key
    <2>2. CASE Usable(e)
      <3>1. e.initialized
        BY <2>2 DEF Usable
      <3> HIDE DEF g, h
      <3>2. nsr_plugins_on_key(e, ch, last + 1, soonModal, soonSame) =
               IF d.editor THEN [ent |-> g, handled |-> TRUE]
               ELSE IF ~Usable(d) THEN [ent |-> d, handled |-> FALSE]
               ELSE [ent |-> h, handled |-> d.modal \/ ch \in Reserved]
        BY <2>2 DEF nsr_plugins_on_key, d, g, h
      <3>3. QED
        BY <3>1, <3>2
    <2>3. QED
      BY <2>1, <2>2
  <1> HIDE DEF g, h, f
  <1>5. Good(e, sin, st, read, last + 1, {}) /\ Good(d, sin, st, read, last + 1, {})
    BY <1>1, GoodLater
  <1>6. Good(g, sin, st, read, last + 1, {})
    BY <1>3, GoodLater
  <1>7. Good(f, sin, st, read, last + 1, {}) /\ NoIdle(f)
    BY <1>1, <1>2, <1>3, <1>4, <1>5, <1>6
  <1>8. QED
    BY <1>4, <1>7 DEF f

-----------------------------------------------------------------------------
(* The actions.                                                            *)

LEMMA GoodEmpty ==
    ASSUME NEW e \in EntrySet, NEW ch, NEW read \in Nat, NEW last \in Nat, read <= last,
           \A s \in Slots : e[s] = 0, e.queue = <<>>, e.rx = <<>>, e.pipe = <<>>, e.out = <<>>
    PROVE  Good(e, <<>>, ch, read, last, {}) /\ NoIdle(e)
  <1>1. <<>> \o <<>> = <<>>
    BY EmptySeq, ConcatEmptySeq
  <1>2. KeyOrder(<<>>, <<>>, read, last)
    BY DEF KeyOrder, Increasing
  <1>3. e.next \in Nat \ {0}
    BY DEF EntrySet
  <1>4. Matching(e, <<>>)
    BY <1>3, EmptySeq DEF Matching
  <1>5. Transit(e, <<>>, {})
    BY DEF Transit
  <1>6. Len(e.queue) <= QueueLen
    BY PluginAssumption, EmptySeq
  <1>7. QED
    BY <1>1, <1>2, <1>4, <1>5, <1>6 DEF Good, NoIdle

LEMMA Entry0Type ==
    /\ Entry0 \in EntrySet /\ ~Entry0.initialized
    /\ \A s \in Slots : Entry0[s] = 0
    /\ Entry0.queue = <<>> /\ Entry0.rx = <<>> /\ Entry0.pipe = <<>> /\ Entry0.out = <<>>
  <1>1. <<>> \in Seq(1..MaxKeys) /\ <<>> \in Seq(Lines) /\ <<>> \in Seq(Msg)
    BY EmptySeq
  <1>2. Entry0 \in EntrySet
    BY <1>1 DEF Entry0, EntrySet
  <1>3. QED
    BY <1>2 DEF Entry0, Slots

LEMMA SpawnedGood ==
    ASSUME NEW e \in EntrySet, NEW ch, NEW read \in Nat, NEW last \in Nat, read <= last,
           \A s \in Slots : e[s] = 0, e.queue = <<>>, e.out = <<>>
    PROVE  Good(Spawned(e), <<>>, ch, read, last, {}) /\ NoIdle(Spawned(e))
  <1> DEFINE f == Spawned(e)
             d == [e EXCEPT !.initialized = TRUE, !.rpcDead = FALSE, !.next = 2]
  <1>1. <<>> \in Seq(Lines)
    BY EmptySeq
  <1>2. f \in EntrySet
    <2>1. f = [d EXCEPT !.rx = <<>>, !.pipe = <<>>]
      BY DEF Spawned, EntrySet
    <2>2. d \in EntrySet
      <3>1. \A b, c \in BOOLEAN, k \in Nat \ {0} :
               [e EXCEPT !.initialized = b, !.rpcDead = c, !.next = k] \in EntrySet
        BY DEF EntrySet
      <3>2. TRUE \in BOOLEAN /\ FALSE \in BOOLEAN /\ 2 \in Nat \ {0}
        OBVIOUS
      <3>3. QED
        BY <3>1, <3>2, Zenon
    <2> HIDE DEF d, f
    <2>3. QED
      BY <1>1, <2>1, <2>2 DEF EntrySet
  <1>3. /\ \A s \in Slots : f[s] = 0
        /\ f.queue = <<>> /\ f.rx = <<>> /\ f.pipe = <<>> /\ f.out = <<>>
    BY DEF Spawned, EntrySet, Slots
  <1> HIDE DEF f
  <1>4. QED
    BY <1>2, <1>3, GoodEmpty DEF f

LEMMA Initially == Init => HostInv
  <1> SUFFICES ASSUME Init PROVE HostInv
    OBVIOUS
  <1>1. Good(ent, stdin, child, lastRead, pressed, {}) /\ NoIdle(ent)
    BY Entry0Type, SpawnedGood DEF Init
  <1>2. Loop
    BY EmptySeq, PluginAssumption DEF Init, Loop
  <1>3. enabled /\ pc # "stop"
    BY DEF Init
  <1>4. QED
    BY <1>1, <1>2, <1>3 DEF HostInv

(* A call of the host that leaves a plugin alone which is not running.     *)
LEMMA HostCall ==
    ASSUME HostInv, pc # "stop", pc' \in {"tel", "hops", "draw", "keys"},
           Good(ent', stdin, child, lastRead, pressed', {}), NoIdle(ent'), ~ent.initialized => ent' = ent,
           pressed' \in 0..MaxKeys, UNCHANGED <<enabled, host, child, stdin, lastRead>>
    PROVE  HostInv'
  <1>1. Loop'
    BY DEF HostInv, Loop
  <1>2. Good(ent, stdin, child, lastRead, pressed, {})'
    OBVIOUS
  <1>3. ~enabled' => Fresh(ent', stdin', child')
    <2> SUFFICES ASSUME ~enabled PROVE Fresh(ent', stdin', child')
      OBVIOUS
    <2>1. Fresh(ent, stdin, child)
      BY DEF HostInv
    <2>2. ent' = ent
      BY <2>1 DEF Fresh
    <2>3. QED
      BY <2>1, <2>2
  <1>4. pc' # "stop" /\ NoIdle(ent)'
    OBVIOUS
  <1>5. QED
    BY <1>1, <1>2, <1>3, <1>4 DEF HostInv

LEMMA HostIdle ==
    ASSUME HostInv, pc # "stop", pc' \in {"tel", "hops", "draw", "keys"}, UNCHANGED pressed,
           UNCHANGED <<ent, enabled, host, child, stdin, lastRead>>
    PROVE  HostInv'
  <1>1. Good(ent', stdin, child, lastRead, pressed', {}) /\ NoIdle(ent') /\ pressed' \in 0..MaxKeys
    BY DEF HostInv, Loop
  <1>2. QED
    BY <1>1, HostCall

LEMMA TelemetryStep == HostInv /\ nsr_plugins_update_telemetry => HostInv'
  <1> SUFFICES ASSUME HostInv, nsr_plugins_update_telemetry PROVE HostInv'
    OBVIOUS
  <1> DEFINE e == plugin_check_alive(ent)
  <1>1. Good(ent, stdin, child, lastRead, pressed, {}) /\ NoIdle(ent)
    BY DEF HostInv
  <1>2. /\ Good(e, stdin, child, lastRead, pressed, {}) /\ NoIdle(e)
        /\ ~ent.initialized => e = ent
    BY <1>1, CheckAlive
  <1>3. /\ ent' = IF Usable(e) THEN notify(e, "telemetry") ELSE e
        /\ pc = "tel" /\ pc' = "hops"
        /\ UNCHANGED <<enabled, host, child, stdin, lastRead>> /\ UNCHANGED pressed
    BY DEF nsr_plugins_update_telemetry, Ready
  <1> HIDE DEF e
  <1>4. /\ Good(notify(e, "telemetry"), stdin, child, lastRead, pressed, {})
        /\ NoIdle(notify(e, "telemetry"))
    BY <1>2, Notify
  <1>5. Good(ent', stdin, child, lastRead, pressed', {}) /\ NoIdle(ent')
    BY <1>2, <1>3, <1>4
  <1>6. ~ent.initialized => ent' = ent
    BY <1>2, <1>3 DEF Usable
  <1>7. pressed' \in 0..MaxKeys
    BY <1>3 DEF HostInv, Loop
  <1>8. QED
    BY <1>3, <1>5, <1>6, <1>7, HostCall

LEMMA RenderHopsStep ==
    ASSUME HostInv, NEW n \in 1..Len(ent.pipe) \cup {1}, nsr_plugins_render_hops(n)
    PROVE  HostInv'
  <1> DEFINE e == plugin_check_alive(ent)
             d == plugin_drain_response(e, n)
             f == send_request(d, "hops", 0)
  <1>1. Good(ent, stdin, child, lastRead, pressed, {}) /\ NoIdle(ent)
    BY DEF HostInv
  <1>2. /\ Good(e, stdin, child, lastRead, pressed, {}) /\ NoIdle(e)
        /\ e.pipe = ent.pipe
        /\ ~ent.initialized => e = ent
    BY <1>1, CheckAlive
  <1>3. /\ ent' = IF ~Usable(e) THEN e ELSE IF d.hops = 0 THEN f ELSE d
        /\ pc = "hops" /\ pc' = "draw"
        /\ UNCHANGED <<enabled, host, child, stdin, lastRead>> /\ UNCHANGED pressed
    BY DEF nsr_plugins_render_hops, Ready
  <1> HIDE DEF e
  <1>4. Good(d, stdin, child, lastRead, pressed, {}) /\ NoIdle(d)
    BY <1>2, DrainResponse
  <1> HIDE DEF d
  <1>5. Good(f, stdin, child, lastRead, pressed, {}) /\ NoIdle(f)
    BY <1>4, SendRequest
  <1> HIDE DEF f
  <1>6. Good(ent', stdin, child, lastRead, pressed', {}) /\ NoIdle(ent')
    BY <1>2, <1>3, <1>4, <1>5
  <1>7. ~ent.initialized => ent' = ent
    BY <1>2, <1>3 DEF Usable
  <1>8. pressed' \in 0..MaxKeys
    BY <1>3 DEF HostInv, Loop
  <1>9. QED
    BY <1>3, <1>6, <1>7, <1>8, HostCall

LEMMA RenderStep ==
    ASSUME HostInv, NEW n \in 1..Len(ent.pipe) \cup {1}, nsr_plugins_render(n)
    PROVE  HostInv'
  <1> DEFINE e == plugin_check_alive(ent)
             m == ent.shown = "yes"
             t == e.told \/ m
             c == [e EXCEPT !.modal = m, !.told = t]
             d == plugin_drain_response(c, n)
             f == send_request(d, "render", 0)
  <1>1. Good(ent, stdin, child, lastRead, pressed, {}) /\ NoIdle(ent)
    BY DEF HostInv
  <1>2. /\ Good(e, stdin, child, lastRead, pressed, {}) /\ NoIdle(e)
        /\ e.pipe = ent.pipe
        /\ ~ent.initialized => e = ent
    BY <1>1, CheckAlive
  <1>3. e \in EntrySet
    BY <1>2, GoodFields
  <1>4. /\ ent' = IF ~Usable(e) THEN e ELSE IF d.render = 0 THEN f ELSE d
        /\ pc = "draw" /\ pc' = "keys"
        /\ UNCHANGED <<enabled, host, child, stdin, lastRead>> /\ UNCHANGED pressed
    <2> HIDE DEF e
    <2>1. [e EXCEPT !.modal = m, !.told = @ \/ m] = c
      BY <1>3 DEF EntrySet
    <2> HIDE DEF c, m
    <2>2. QED
      BY <2>1 DEF nsr_plugins_render, Ready, e, m
  <1> HIDE DEF e
  <1>5. m \in BOOLEAN /\ t \in BOOLEAN
    OBVIOUS
  <1>6. c.pipe = e.pipe /\ NoIdle(c)
    BY <1>2, <1>3 DEF NoIdle, EntrySet
  <1> HIDE DEF m, t
  <1>7. Good(c, stdin, child, lastRead, pressed, {})
    BY <1>2, <1>5, GoodFlags, Zenon
  <1> HIDE DEF c
  <1>8. Good(d, stdin, child, lastRead, pressed, {}) /\ NoIdle(d)
    BY <1>2, <1>6, <1>7, DrainResponse
  <1> HIDE DEF d
  <1>9. Good(f, stdin, child, lastRead, pressed, {}) /\ NoIdle(f)
    BY <1>8, SendRequest
  <1> HIDE DEF f
  <1>10. Good(ent', stdin, child, lastRead, pressed', {}) /\ NoIdle(ent')
    BY <1>2, <1>4, <1>8, <1>9
  <1>11. ~ent.initialized => ent' = ent
    BY <1>2, <1>4 DEF Usable
  <1>12. pressed' \in 0..MaxKeys
    BY <1>4 DEF HostInv, Loop
  <1>13. QED
    BY <1>4, <1>10, <1>11, <1>12, HostCall

LEMMA TuiStep ==
    ASSUME HostInv, NEW ch \in Key, NEW soonModal \in BOOLEAN, NEW soonSame \in BOOLEAN,
           nsr_tui_update(ch, soonModal, soonSame)
    PROVE  HostInv'
  <1> DEFINE e == plugin_check_alive(ent)
             f == nsr_plugins_on_key(e, ch, pressed + 1, soonModal, soonSame).ent
  <1>1. Good(ent, stdin, child, lastRead, pressed, {}) /\ NoIdle(ent)
    BY DEF HostInv
  <1>2. /\ Good(e, stdin, child, lastRead, pressed, {}) /\ NoIdle(e)
        /\ ~ent.initialized => e = ent
    BY <1>1, CheckAlive
  <1>3. /\ ent' \in {e, f}
        /\ pc = "keys" /\ pc' = "tel" /\ pressed < MaxKeys /\ pressed' = pressed + 1
        /\ UNCHANGED <<enabled, host, child, stdin, lastRead>>
    <2> HIDE DEF e
    <2>1. pressed' = pressed + 1
      BY DEF nsr_tui_update
    <2>2. QED
      BY <2>1 DEF nsr_tui_update, Ready, e
  <1>4. pressed + 1 \in 1..MaxKeys /\ pressed' \in 0..MaxKeys
    BY <1>3, PluginAssumption DEF HostInv, Loop
  <1> HIDE DEF e
  <1>5. /\ Good(f, stdin, child, lastRead, pressed + 1, {}) /\ NoIdle(f)
        /\ ~e.initialized => f = e
    BY <1>2, <1>4, OnKey
  <1> HIDE DEF f
  <1>6. Good(e, stdin, child, lastRead, pressed + 1, {})
    BY <1>2, GoodLater
  <1>7. Good(ent', stdin, child, lastRead, pressed', {}) /\ NoIdle(ent')
    BY <1>2, <1>3, <1>5, <1>6
  <1>8. ~ent.initialized => ent' = ent
    BY <1>2, <1>3, <1>5
  <1>9. pc # "stop" /\ pc' \in {"tel", "hops", "draw", "keys"}
    BY <1>3
  <1>10. QED
    BY <1>3, <1>4, <1>7, <1>8, <1>9, HostCall

LEMMA HostWriteStep == HostInv /\ HostWrite => HostInv'
  <1> SUFFICES ASSUME HostInv, HostWrite PROVE HostInv'
    OBVIOUS
  <1> DEFINE msg == Head(ent.out)
             f == [ent EXCEPT !.out = Tail(ent.out)]
             sin == Append(stdin, msg)
  <1>1. Loop /\ Good(ent, stdin, child, lastRead, pressed, {}) /\ NoIdle(ent)
    BY DEF HostInv
  <1>2. /\ ent \in EntrySet /\ ent.rx \in Seq(GoodLines(ent)) /\ ent.pipe \in Seq(GoodLines(ent))
        /\ ent.out \in Seq(GoodMsgs(ent)) /\ stdin \in Seq(GoodMsgs(ent)) /\ ent.out \in Seq(Msg)
        /\ Len(ent.queue) <= QueueLen /\ KeyOrder(stdin \o ent.out, ent.queue, lastRead, pressed)
    BY <1>1, GoodFields
  <1>3. ent.out # <<>> /\ UNCHANGED <<enabled, pc, child, lastRead, pressed>>
    BY DEF HostWrite
  <1>4. CASE child = "gone" /\ host' = "killed" /\ UNCHANGED <<stdin, ent>>
    <2>1. Loop'
      BY <1>1, <1>3, <1>4 DEF Loop
    <2>2. QED
      BY <1>3, <1>4, <2>1 DEF HostInv
  <1>5. CASE child = "up" /\ Len(stdin) < PipeCap /\ stdin' = sin /\ ent' = f /\ UNCHANGED host
    <2>1. msg \in GoodMsgs(ent) /\ Tail(ent.out) \in Seq(GoodMsgs(ent)) /\ Tail(ent.out) \in Seq(Msg)
      BY <1>2, <1>3, HeadTailProperties
    <2>2. sin \in Seq(GoodMsgs(ent)) /\ Len(sin) = Len(stdin) + 1
      BY <1>2, <2>1, AppendProperties
    <2>3. Len(stdin) \in Nat /\ PipeCap \in Nat
      BY <1>2, LenProperties, PluginAssumption
    <2>4. sin \o Tail(ent.out) = stdin \o ent.out
      BY <1>2, <1>3, ConcatMove
    <2>5. /\ Elements(sin) = Elements(stdin) \cup {msg}
          /\ Elements(ent.out) = {msg} \cup Elements(Tail(ent.out))
      BY <1>2, <1>3, <2>1, ElementsAppend, ElementsHead
    <2> HIDE DEF sin, msg
    <2>6. f \in EntrySet
      BY <1>2, <2>1 DEF EntrySet
    <2>7. /\ f.next = ent.next /\ \A s \in Slots : f[s] = ent[s]
          /\ f.out = Tail(ent.out) /\ f.rx = ent.rx /\ f.pipe = ent.pipe /\ f.queue = ent.queue
          /\ f.initialized = ent.initialized /\ f.rpcDead = ent.rpcDead /\ f.key = ent.key
      BY <1>2 DEF EntrySet, Slots
    <2> HIDE DEF f
    <2>8. GoodLines(ent) \subseteq GoodLines(f) /\ GoodMsgs(ent) \subseteq GoodMsgs(f)
      BY <2>7, LinesLess
    <2>9. f.rx \in Seq(GoodLines(f)) /\ f.pipe \in Seq(GoodLines(f))
      BY <1>2, <2>7, <2>8, SeqMonotonic
    <2>10. f.out \in Seq(GoodMsgs(f)) /\ sin \in Seq(GoodMsgs(f))
      BY <2>1, <2>2, <2>7, <2>8, SeqMonotonic
    <2>11. Matching(f, sin)
      BY <1>1, <2>7, <2>9, <2>10 DEF Good, Matching
    <2>12. child = "up" => Transit(f, sin, {})
      <3>1. Under(f, sin) = Under(ent, stdin)
        BY <2>5, <2>7 DEF Under
      <3>2. QED
        BY <1>1, <2>7, <3>1 DEF Good, Transit
    <2>13. Good(f, sin, child, lastRead, pressed, {})
      BY <1>2, <2>4, <2>6, <2>7, <2>11, <2>12 DEF Good
    <2>14. NoIdle(f)
      BY <1>1, <2>7 DEF NoIdle
    <2>15. Good(ent, stdin, child, lastRead, pressed, {})' /\ NoIdle(ent)'
      BY <1>3, <1>5, <2>13, <2>14
    <2>16. Loop'
      <3>1. Len(stdin') <= PipeCap
        BY <1>5, <2>2, <2>3
      <3>2. QED
        BY <1>1, <1>3, <1>5, <3>1 DEF Loop
    <2>17. ~(~enabled /\ pc # "stop")
      BY <1>3 DEF HostInv, Fresh
    <2>18. QED
      BY <1>3, <2>15, <2>16, <2>17 DEF HostInv
  <1>6. ent' = [ent EXCEPT !.out = Tail(@)] => ent' = f
    BY <1>2 DEF EntrySet
  <1>7. QED
    BY <1>4, <1>5, <1>6 DEF HostWrite

LEMMA DisableStep == HostInv /\ Disable => HostInv'
  <1> SUFFICES ASSUME HostInv, Disable PROVE HostInv'
    OBVIOUS
  <1>1. Loop /\ Good(ent, stdin, child, lastRead, pressed, {}) /\ NoIdle(ent)
    BY DEF HostInv
  <1>2. Good(notify(ent, "cleanup"), stdin, child, lastRead, pressed, {}) /\ NoIdle(notify(ent, "cleanup"))
    BY <1>1, Notify
  <1>3. /\ ent' \in {notify(ent, "cleanup"), ent} /\ enabled /\ enabled' = ~enabled /\ pc' = "stop"
        /\ UNCHANGED <<host, child, stdin, lastRead, pressed>>
    BY DEF Disable, ToolsKey
  <1>4. Good(ent, stdin, child, lastRead, pressed, {})' /\ NoIdle(ent)'
    BY <1>1, <1>2, <1>3
  <1>5. Loop'
    BY <1>1, <1>3 DEF Loop
  <1>6. QED
    BY <1>3, <1>4, <1>5 DEF HostInv

LEMMA StoppedStep == HostInv /\ Stopped => HostInv'
  <1> SUFFICES ASSUME HostInv, Stopped PROVE HostInv'
    OBVIOUS
  <1> DEFINE b == ent.rpcDead \/ child # "none"
             f == [Entry0 EXCEPT !.rpcDead = b]
  <1>1. Loop /\ Good(ent, stdin, child, lastRead, pressed, {})
    BY DEF HostInv
  <1>2. lastRead \in Nat /\ pressed \in Nat /\ lastRead <= pressed
    BY <1>1 DEF Good, KeyOrder
  <1>3. /\ ent' = f /\ child' = "none" /\ stdin' = <<>> /\ pc = "stop" /\ pc' = "tel"
        /\ UNCHANGED <<enabled, host, lastRead, pressed>>
    BY DEF Stopped, Ready
  <1>4. b \in BOOLEAN
    OBVIOUS
  <1> HIDE DEF b
  <1>5. f \in EntrySet
    BY <1>4, Entry0Type DEF EntrySet
  <1>6. /\ \A s \in Slots : f[s] = 0
        /\ f.queue = <<>> /\ f.rx = <<>> /\ f.pipe = <<>> /\ f.out = <<>> /\ ~f.initialized
    BY Entry0Type DEF EntrySet, Slots
  <1> HIDE DEF f
  <1>7. Good(f, <<>>, "none", lastRead, pressed, {}) /\ NoIdle(f)
    BY <1>2, <1>5, <1>6, GoodEmpty
  <1>8. Good(ent, stdin, child, lastRead, pressed, {})' /\ NoIdle(ent)'
    BY <1>3, <1>7
  <1>9. Loop'
    BY <1>1, <1>3, EmptySeq, PluginAssumption DEF Loop
  <1>10. Fresh(ent, stdin, child)' /\ pc' # "stop"
    BY <1>3, <1>6 DEF Fresh
  <1>11. QED
    BY <1>8, <1>9, <1>10 DEF HostInv

LEMMA EnableStep == HostInv /\ Enable => HostInv'
  <1> SUFFICES ASSUME HostInv, Enable PROVE HostInv'
    OBVIOUS
  <1>1. Loop /\ Good(ent, stdin, child, lastRead, pressed, {}) /\ NoIdle(ent)
    BY DEF HostInv
  <1>2. lastRead \in Nat /\ pressed \in Nat /\ lastRead <= pressed /\ ent \in EntrySet
    BY <1>1 DEF Good, KeyOrder
  <1>3. /\ ~enabled /\ enabled' = ~enabled /\ pc = "keys" /\ pc' = "tel"
        /\ UNCHANGED <<stdin, lastRead, pressed>>
    BY DEF Enable, ToolsKey, Ready
  <1>4. Fresh(ent, stdin, child)
    BY <1>3 DEF HostInv
  <1> DEFINE c == [ent EXCEPT !.dead = TRUE, !.rpcDead = TRUE]
             d == [ent EXCEPT !.rpcDead = FALSE]
  <1>5. \/ ent' = Spawned(ent) /\ child' = "up" /\ UNCHANGED host
        \/ ent' \in {c, d} /\ UNCHANGED <<child, host>>
        \/ host' = "killed" /\ UNCHANGED <<ent, child>>
    BY DEF Enable
  <1>6. Good(Spawned(ent), <<>>, "up", lastRead, pressed, {}) /\ NoIdle(Spawned(ent))
    BY <1>2, <1>4, SpawnedGood DEF Fresh
  <1>7. ASSUME NEW f \in {c, d} PROVE Good(f, stdin, child, lastRead, pressed, {}) /\ NoIdle(f)
    <2>1. \A x, y \in BOOLEAN : /\ [ent EXCEPT !.dead = x, !.rpcDead = y] \in EntrySet
                                /\ [ent EXCEPT !.rpcDead = y] \in EntrySet
      BY <1>2, ZenonT(40) DEF EntrySet
    <2>2. TRUE \in BOOLEAN /\ FALSE \in BOOLEAN
      OBVIOUS
    <2>3. c \in EntrySet /\ d \in EntrySet
      BY <2>1, <2>2, Zenon
    <2>4. /\ f.next = ent.next /\ \A s \in Slots : f[s] = ent[s]
          /\ f.out = ent.out /\ f.rx = ent.rx /\ f.pipe = ent.pipe /\ f.queue = ent.queue
          /\ f.initialized = ent.initialized
      <3>1. CASE f = c
        BY <1>2, <3>1, SMTT(30) DEF EntrySet, Slots
      <3>2. CASE f = d
        BY <1>2, <3>2, SMTT(30) DEF EntrySet, Slots
      <3>3. QED
        BY <3>1, <3>2
    <2> HIDE DEF c, d
    <2>5. Good(f, stdin, child, lastRead, pressed, {})
      BY <1>1, <2>3, <2>4, GoodSame
    <2>6. NoIdle(f)
      BY <1>4, <2>4 DEF NoIdle, Fresh
    <2>7. QED
      BY <2>5, <2>6
  <1> HIDE DEF c, d
  <1>8. stdin = <<>>
    BY <1>4 DEF Fresh
  <1>9. Good(ent', stdin', child', lastRead', pressed', {}) /\ NoIdle(ent')
    BY <1>1, <1>3, <1>5, <1>6, <1>7, <1>8
  <1>10. Good(ent, stdin, child, lastRead, pressed, {})' /\ NoIdle(ent)'
    BY <1>9
  <1>11. Loop'
    BY <1>1, <1>3, <1>5 DEF Loop
  <1>12. QED
    BY <1>3, <1>10, <1>11 DEF HostInv

(* A pending request that has been read has its answer in lines.           *)
Replied(e, sin, sin2, lines) ==
    \A s \in Slots, x \in Elements(sin) : e[s] # 0 /\ x.id = e[s] =>
        x \in Elements(sin2) \/ \E y \in Elements(lines) : y.id = x.id

(* The plugin writes lines, and has read what is not in sin2 any more.     *)
LEMMA LinesArrive ==
    ASSUME NEW e, NEW sin, NEW sin2, NEW ch, NEW read, NEW read2, NEW last, NEW lines,
           Good(e, sin, ch, read, last, {}),
           lines \in Seq(GoodLines(e)), sin2 \in Seq(GoodMsgs(e)),
           KeyOrder(sin2 \o e.out, e.queue, read2, last),
           Replied(e, sin, sin2, lines)
    PROVE  LET f == [e EXCEPT !.pipe = @ \o lines]
           IN  /\ Good(f, sin2, ch, read2, last, {})
               /\ NoIdle(e) => NoIdle(f)
  <1> DEFINE f == [e EXCEPT !.pipe = e.pipe \o lines]
  <1>1. /\ e \in EntrySet /\ e.rx \in Seq(GoodLines(e)) /\ e.pipe \in Seq(GoodLines(e))
        /\ e.out \in Seq(GoodMsgs(e)) /\ Len(e.queue) <= QueueLen
    BY GoodFields
  <1>2. [e EXCEPT !.pipe = @ \o lines] = f
    BY <1>1 DEF EntrySet
  <1>3. e.pipe \o lines \in Seq(GoodLines(e))
    BY <1>1, ConcatProperties
  <1>4. e.pipe \o lines \in Seq(Lines)
    <2>1. GoodLines(e) \subseteq Lines
      BY DEF GoodLines
    <2>2. QED
      BY <1>3, <2>1, SeqMonotonic
  <1>5. Elements(e.pipe \o lines) = Elements(e.pipe) \cup Elements(lines)
    <2>1. e.pipe \in Seq(GoodLines(e)) /\ lines \in Seq(GoodLines(e))
      BY <1>1
    <2>2. QED
      BY <2>1, ElementsConcat, ZenonT(40)
  <1>6. f \in EntrySet
    BY <1>1, <1>4 DEF EntrySet
  <1>7. /\ f.next = e.next /\ \A s \in Slots : f[s] = e[s]
        /\ f.out = e.out /\ f.rx = e.rx /\ f.pipe = e.pipe \o lines /\ f.queue = e.queue
        /\ f.initialized = e.initialized /\ f.rpcDead = e.rpcDead /\ f.key = e.key
    BY <1>1 DEF EntrySet, Slots
  <1> HIDE DEF f
  <1>8. GoodLines(e) \subseteq GoodLines(f) /\ GoodMsgs(e) \subseteq GoodMsgs(f)
    BY <1>7, LinesLess
  <1>9. /\ f.rx \in Seq(GoodLines(f)) /\ f.pipe \in Seq(GoodLines(f))
        /\ f.out \in Seq(GoodMsgs(f)) /\ sin2 \in Seq(GoodMsgs(f))
    BY <1>1, <1>3, <1>7, <1>8, SeqMonotonic
  <1>10. Matching(f, sin2)
    BY <1>7, <1>9 DEF Good, Matching
  <1>11. ch = "up" => Transit(f, sin2, {})
    <2> SUFFICES ASSUME ch = "up", NEW s \in Slots, e[s] # 0 PROVE \E m \in Under(f, sin2) : m.id = e[s]
      BY <1>7 DEF Transit
    <2>1. PICK x \in Under(e, sin) : x.id = e[s]
      BY DEF Good, Transit
    <2>2. Under(f, sin2) = Elements(e.out) \cup Elements(sin2) \cup Elements(e.pipe)
                              \cup Elements(lines) \cup Elements(e.rx)
      BY <1>5, <1>7 DEF Under
    <2>3. CASE x \in Elements(sin)
      BY <2>1, <2>2, <2>3 DEF Replied
    <2>4. CASE x \notin Elements(sin)
      BY <2>1, <2>2, <2>4 DEF Under
    <2>5. QED
      BY <2>3, <2>4
  <1>12. Good(f, sin2, ch, read2, last, {})
    BY <1>1, <1>6, <1>7, <1>10, <1>11 DEF Good
  <1>13. NoIdle(e) => NoIdle(f)
    BY <1>7 DEF NoIdle
  <1>14. QED
    BY <1>2, <1>12, <1>13

(* What the plugin answers fits the request.                               *)
LEMMA AnswerFits ==
    ASSUME NEW e, NEW msg \in GoodMsgs(e), NEW lines \in Answers(msg)
    PROVE  /\ lines \in Seq(GoodLines(e))
           /\ msg.kind \in Slots => \E y \in Elements(lines) : y.id = msg.id
  <1>1. msg.id \in Nat /\ Fits(e, msg)
    BY DEF GoodMsgs, Msg, Ids
  <1>2. ASSUME NEW line, lines = <<line>>, line \in Lines, line.id = msg.id, line.kind = msg.kind,
               line.kind = "render" => line.modal # "absent"
        PROVE  lines \in Seq(GoodLines(e)) /\ \E y \in Elements(lines) : y.id = msg.id
    <2>1. line \in GoodLines(e)
      BY <1>1, <1>2 DEF GoodLines, Fits
    <2>2. line \in Elements(lines)
      BY <1>2 DEF Elements
    <2>3. QED
      BY <1>2, <2>1, <2>2
  <1>3. CASE msg.kind = "render"
    <2>1. PICK m \in {"yes", "no"} : lines = <<Line("render", msg.id, m, FALSE, "none")>>
      BY <1>3 DEF Answers
    <2> DEFINE line == Line("render", msg.id, m, FALSE, "none")
    <2>2. line \in Lines /\ line.id = msg.id /\ line.kind = msg.kind /\ line.modal # "absent"
      BY <1>1, <1>3 DEF Line, Lines, Ids, Says
    <2> HIDE DEF line
    <2>3. QED
      BY <1>2, <2>1, <2>2 DEF line
  <1>4. CASE msg.kind = "hops"
    <2> DEFINE line == Line("hops", msg.id, "absent", FALSE, "none")
    <2>1. lines = <<line>>
      BY <1>4 DEF Answers
    <2>2. line \in Lines /\ line.id = msg.id /\ line.kind = msg.kind /\ line.kind # "render"
      BY <1>1, <1>4 DEF Line, Lines, Ids, Says
    <2> HIDE DEF line
    <2>3. QED
      BY <1>2, <2>1, <2>2
  <1>5. CASE msg.kind = "key"
    <2>1. PICK line \in KeyAnswers(msg.id) : lines = <<line>>
      BY <1>5 DEF Answers
    <2>2. line \in Lines /\ line.id = msg.id /\ line.kind = msg.kind /\ line.kind # "render"
      <3> DEFINE A == {Line("key", msg.id, m, h, "none") : m \in Says, h \in BOOLEAN}
                 B == {Line("key", msg.id, m, TRUE, a) : m \in {"yes", "absent"}, a \in {"sync", "editor"}}
      <3>1. CASE line \in A
        <4>1. PICK m \in Says, h \in BOOLEAN : line = Line("key", msg.id, m, h, "none")
          BY <3>1
        <4>2. QED
          BY <1>1, <1>5, <4>1 DEF Line, Lines, Ids
      <3>2. CASE line \in B
        <4>1. PICK m \in {"yes", "absent"}, a \in {"sync", "editor"} : line = Line("key", msg.id, m, TRUE, a)
          BY <3>2 DEF Line
        <4>2. QED
          BY <1>1, <1>5, <4>1 DEF Line, Lines, Ids, Says
      <3>3. KeyAnswers(msg.id) = A \cup B
        BY DEF KeyAnswers
      <3> HIDE DEF A, B
      <3>4. QED
        BY <3>1, <3>2, <3>3
    <2>3. QED
      BY <1>2, <2>1, <2>2
  <1>6. CASE msg.kind \notin Slots
    <2>1. lines = <<>>
      BY <1>6 DEF Answers, Slots
    <2>2. QED
      BY <1>6, <2>1, EmptySeq
  <1>7. QED
    BY <1>3, <1>4, <1>5, <1>6 DEF Slots

LEMMA PluginStepStep == HostInv /\ PluginStep => HostInv'
  <1> SUFFICES ASSUME HostInv, PluginStep PROVE HostInv'
    OBVIOUS
  <1> DEFINE msg == Head(stdin)
             read == IF msg.kind = "key" THEN msg.n ELSE lastRead
  <1>1. Loop /\ Good(ent, stdin, child, lastRead, pressed, {}) /\ NoIdle(ent)
    BY DEF HostInv
  <1>2. /\ child = "up" /\ stdin # <<>> /\ stdin' = Tail(stdin) /\ lastRead' = read
        /\ UNCHANGED <<enabled, pc, host, child, pressed>>
    BY DEF PluginStep
  <1>3. PICK lines \in Answers(msg) : ent' = [ent EXCEPT !.pipe = @ \o lines]
    BY DEF PluginStep
  <1>4. /\ stdin \in Seq(GoodMsgs(ent)) /\ stdin \in Seq(Msg) /\ ent.out \in Seq(Msg)
        /\ KeyOrder(stdin \o ent.out, ent.queue, lastRead, pressed)
    BY <1>1, GoodFields
  <1>5. msg \in GoodMsgs(ent) /\ Tail(stdin) \in Seq(GoodMsgs(ent)) /\ Len(Tail(stdin)) = Len(stdin) - 1
    BY <1>2, <1>4, HeadTailProperties
  <1>6. Elements(stdin) = {msg} \cup Elements(Tail(stdin))
    BY <1>2, <1>4, ElementsHead
  <1>7. KeyOrder(Tail(stdin) \o ent.out, ent.queue, read, pressed)
    <2>1. /\ stdin \o ent.out \in Seq(Msg) /\ stdin \o ent.out # <<>>
          /\ Tail(stdin) \o ent.out = Tail(stdin \o ent.out) /\ Head(stdin \o ent.out) = msg
      BY <1>2, <1>4, ConcatTail
    <2> HIDE DEF msg
    <2>2. QED
      BY <1>4, <2>1, OrderRead
  <1> HIDE DEF msg
  <1>8. /\ lines \in Seq(GoodLines(ent))
        /\ msg.kind \in Slots => \E y \in Elements(lines) : y.id = msg.id
    BY <1>3, <1>5, AnswerFits
  <1>9. Replied(ent, stdin, Tail(stdin), lines)
    <2> SUFFICES ASSUME NEW s \in Slots, NEW x \in Elements(stdin), ent[s] # 0, x.id = ent[s],
                        x \notin Elements(Tail(stdin))
                 PROVE  \E y \in Elements(lines) : y.id = x.id
      BY DEF Replied
    <2>1. x = msg
      BY <1>6
    <2>2. msg.kind = s
      BY <1>5, <2>1 DEF GoodMsgs, Fits
    <2>3. QED
      BY <1>8, <2>1, <2>2
  <1> HIDE DEF read
  <1>10. Good(ent', Tail(stdin), child, read, pressed, {}) /\ NoIdle(ent')
    BY <1>1, <1>3, <1>5, <1>7, <1>8, <1>9, LinesArrive
  <1>11. Good(ent, stdin, child, lastRead, pressed, {})' /\ NoIdle(ent)'
    BY <1>2, <1>10
  <1>12. Loop'
    <2>1. Len(stdin) \in Nat /\ PipeCap \in Nat
      BY <1>4, LenProperties, PluginAssumption
    <2>2. Len(stdin') <= PipeCap
      BY <1>1, <1>2, <1>5, <2>1 DEF Loop
    <2>3. QED
      BY <1>1, <1>2, <2>2 DEF Loop
  <1>13. ~(~enabled /\ pc # "stop")
    BY <1>2 DEF HostInv, Fresh
  <1>14. QED
    BY <1>2, <1>11, <1>12, <1>13 DEF HostInv

LEMMA PluginSyncStep == HostInv /\ PluginSync => HostInv'
  <1> SUFFICES ASSUME HostInv, PluginSync PROVE HostInv'
    OBVIOUS
  <1>1. Loop /\ Good(ent, stdin, child, lastRead, pressed, {}) /\ NoIdle(ent)
    BY DEF HostInv
  <1>2. child = "up" /\ UNCHANGED <<enabled, pc, host, child, stdin, lastRead, pressed>>
    BY DEF PluginSync
  <1>3. PICK m \in {"yes", "absent"} : ent' = [ent EXCEPT !.pipe = Append(@, Line("sync", 0, m, FALSE, "none"))]
    BY DEF PluginSync
  <1> DEFINE line == Line("sync", 0, m, FALSE, "none")
  <1>4. line \in Lines /\ line.id = 0 /\ line.kind = "sync"
    BY DEF Line, Lines, Ids, Says
  <1> HIDE DEF line
  <1>5. /\ ent \in EntrySet /\ stdin \in Seq(GoodMsgs(ent)) /\ ent.pipe \in Seq(GoodLines(ent))
        /\ KeyOrder(stdin \o ent.out, ent.queue, lastRead, pressed)
    BY <1>1, GoodFields
  <1>6. line \in GoodLines(ent)
    <2>1. ent.next \in Nat \ {0}
      BY <1>5 DEF EntrySet
    <2>2. QED
      BY <1>4, <2>1 DEF GoodLines, Fits
  <1>7. <<line>> \in Seq(GoodLines(ent)) /\ Append(ent.pipe, line) = ent.pipe \o <<line>>
    BY <1>5, <1>6, AppendIsConcat
  <1>8. ent' = [ent EXCEPT !.pipe = @ \o <<line>>]
    <2>1. ent' = [ent EXCEPT !.pipe = Append(ent.pipe, line)]
      BY <1>3, <1>5 DEF EntrySet, line
    <2>2. QED
      BY <1>5, <1>7, <2>1 DEF EntrySet
  <1>9. Good(ent', stdin, child, lastRead, pressed, {}) /\ NoIdle(ent')
    <2>1. Replied(ent, stdin, stdin, <<line>>)
      BY DEF Replied
    <2>2. QED
      BY <1>1, <1>5, <1>7, <1>8, <2>1, LinesArrive
  <1>10. Good(ent, stdin, child, lastRead, pressed, {})' /\ NoIdle(ent)'
    BY <1>2, <1>9
  <1>11. Loop'
    BY <1>1, <1>2 DEF Loop
  <1>12. ~(~enabled /\ pc # "stop")
    BY <1>2 DEF HostInv, Fresh
  <1>13. QED
    BY <1>2, <1>10, <1>11, <1>12 DEF HostInv

LEMMA PluginDiesStep == HostInv /\ PluginDies => HostInv'
  <1> SUFFICES ASSUME HostInv, PluginDies PROVE HostInv'
    OBVIOUS
  <1>1. Loop /\ Good(ent, stdin, child, lastRead, pressed, {}) /\ NoIdle(ent)
    BY DEF HostInv
  <1>2. /\ child = "up" /\ child' = "gone" /\ stdin' = <<>>
        /\ UNCHANGED <<ent, enabled, pc, host, lastRead, pressed>>
    BY DEF PluginDies
  <1>3. /\ stdin \in Seq(Msg) /\ ent.out \in Seq(Msg)
        /\ KeyOrder(stdin \o ent.out, ent.queue, lastRead, pressed)
    BY <1>1, GoodFields
  <1>4. <<>> \o ent.out = ent.out
    BY <1>3, ConcatEmptySeq
  <1>5. KeyOrder(<<>> \o ent.out, ent.queue, lastRead, pressed)
    BY <1>3, <1>4, OrderDrop
  <1>6. Matching(ent, <<>>)
    BY <1>1, EmptySeq DEF Good, Matching
  <1>7. Good(ent, <<>>, "gone", lastRead, pressed, {})
    BY <1>1, <1>5, <1>6 DEF Good
  <1>8. Good(ent, stdin, child, lastRead, pressed, {})' /\ NoIdle(ent)'
    BY <1>1, <1>2, <1>7
  <1>9. Loop'
    BY <1>1, <1>2, EmptySeq, PluginAssumption DEF Loop
  <1>10. ~(~enabled /\ pc # "stop")
    BY <1>2 DEF HostInv, Fresh
  <1>11. QED
    BY <1>2, <1>8, <1>9, <1>10 DEF HostInv

-----------------------------------------------------------------------------
(* The invariant, and what it says.                                        *)

LEMMA StepKeeps == HostInv /\ [Next]_vars => HostInv'
  <1> SUFFICES ASSUME HostInv, [Next]_vars PROVE HostInv'
    OBVIOUS
  <1>1. CASE HostWrite
    BY <1>1, HostWriteStep
  <1>2. CASE nsr_plugins_update_telemetry
    BY <1>2, TelemetryStep
  <1>3. CASE \E n \in 1..Len(ent.pipe) \cup {1} : nsr_plugins_render_hops(n) \/ nsr_plugins_render(n)
    BY <1>3, RenderHopsStep, RenderStep
  <1>4. CASE SkipHops
    BY <1>4, HostIdle DEF SkipHops, Ready
  <1>5. CASE NoKeyPressed
    BY <1>5, HostIdle DEF NoKeyPressed, Ready
  <1>6. CASE Stopped
    BY <1>6, StoppedStep
  <1>7. CASE \E ch \in Key, soonModal, soonSame \in BOOLEAN : nsr_tui_update(ch, soonModal, soonSame)
    BY <1>7, TuiStep
  <1>8. CASE Disable
    BY <1>8, DisableStep
  <1>9. CASE Enable
    BY <1>9, EnableStep
  <1>10. CASE PluginStep
    BY <1>10, PluginStepStep
  <1>11. CASE PluginSync
    BY <1>11, PluginSyncStep
  <1>12. CASE PluginDies
    BY <1>12, PluginDiesStep
  <1>13. CASE UNCHANGED vars
    BY <1>13 DEF vars, HostInv, Loop
  <1>14. QED
    BY <1>1, <1>2, <1>3, <1>4, <1>5, <1>6, <1>7, <1>8, <1>9, <1>10, <1>11, <1>12, <1>13 DEF Next, Host, User

LEMMA Invariance == Spec => []HostInv
  BY Initially, StepKeeps, PTL DEF Spec

LEMMA TypesHold ==
    ASSUME HostInv
    PROVE  TypeOK
  <1>1. /\ ent \in EntrySet /\ Len(ent.queue) <= QueueLen /\ stdin \in Seq(Msg)
    BY GoodFields DEF HostInv
  <1>2. QED
    BY <1>1 DEF HostInv, Loop, TypeOK, EntrySet, Ids

(* plugin_send_next_key is called wherever a key may have become the next: *)
(* a key in the queue of a running plugin waits for the answer to another. *)
THEOREM QueueIsServed == Spec => []NoIdleQueue
  <1>1. HostInv => NoIdleQueue
    BY DEF HostInv, NoIdle, NoIdleQueue
  <1>2. QED
    BY <1>1, Invariance, PTL

(* An answer is only taken for the request it answers, although ids start  *)
(* again with every plugin and force_sync forgets requests that are still  *)
(* on their way; and no request is waited for whose answer the host has    *)
(* thrown away itself.                                                     *)
THEOREM AnswersAreMatched == Spec => []AnswersMatch
  <1>1. ASSUME HostInv PROVE AnswersMatch
    <2>1. TypeOK
      BY <1>1, TypesHold
    <2>2. Good(ent, stdin, child, lastRead, pressed, {})
      BY <1>1 DEF HostInv
    <2>3. ent.rx \in Seq(GoodLines(ent)) /\ ent.pipe \in Seq(GoodLines(ent))
      BY <2>2, GoodFields
    <2>4. \A line \in Elements(ent.pipe) \cup Elements(ent.rx) : line \in GoodLines(ent)
      BY <2>3, LenProperties, ElementOfSeq DEF Elements
    <2>5. \A line \in Elements(ent.pipe) \cup Elements(ent.rx), s \in Slots :
             ent[s] # 0 /\ line.id = ent[s] /\ line.kind # "sync" => line.kind = s
      BY <2>4, GoodLineFacts
    <2>6. child = "up" => \A s \in Slots : ent[s] # 0 => ent[s] \in InTransit
      BY <2>2 DEF Good, Transit, Under, InTransit
    <2>7. QED
      BY <2>1, <2>5, <2>6 DEF AnswersMatch, Slots
  <1>2. QED
    BY <1>1, Invariance, PTL

(* PLUGINS.md:185: the plugin gets the keys it gets in the order in which  *)
(* they were pressed, each once, whatever is dropped on the way.           *)
THEOREM KeysStayInOrder == Spec => []KeysInOrder
  <1>1. ASSUME HostInv PROVE KeysInOrder
    <2>1. KeyOrder(stdin \o ent.out, ent.queue, lastRead, pressed)
      BY <1>1 DEF HostInv, Good
    <2>2. QED
      BY <2>1 DEF KeyOrder, KeysInOrder
  <1>2. QED
    BY <1>1, Invariance, PTL

-----------------------------------------------------------------------------
(***************************************************************************)
(* Proofs about PluginConfig for any number of processes, plugins, lines,  *)
(* changes and faults: SaveEffective and Persisted.                        *)
(*                                                                         *)
(* SaveEffective needs that wherever a line of the text about to be        *)
(* written begins with the key that is being saved, it has the new value   *)
(* (Own).  That is a fact about lines, which may hold several settings     *)
(* when newlines are missing: those of a flattened sequence of lines begin *)
(* where its parts do.  Persisted needs more of the undisturbed saves      *)
(* (Undisturbed): there is one at a time, each line is one setting, and    *)
(* what the file says, or when it is empty the text about to be written,   *)
(* is what was last wanted.                                                *)
(***************************************************************************)

SettingSet == [key : Keys, val : BOOLEAN, nl : BOOLEAN]

\* a line: settings that run into one another, the last one perhaps ended
LineSet == {l \in Seq(SettingSet) : l # <<>> /\ \A i \in 1..(Len(l) - 1) : ~l[i].nl}

ConfigTypeOK ==
    /\ file \in Seq(SettingSet)
    /\ phase \in [Actors -> {"down", "load", "up", "config", "read", "open"}]
    /\ reg \in [Hosts -> Seq([name : Plugins, dir : Nat, enabled : BOOLEAN])]
    /\ plugin_dir \in [Hosts -> 0..Len(Dirs)] /\ todo \in [Hosts -> SUBSET Plugins]
    /\ DOMAIN config = Tools /\ DOMAIN change = Actors
    /\ buf \in [Actors -> Seq(SettingSet)]
    /\ want \in [Plugins -> BOOLEAN] /\ appended \in Nat /\ clean \in BOOLEAN

(* Whatever line of the text begins with the key has the new setting.      *)
Own(text, s) == \A i \in Heads(text) : text[i].key = s.key => text[i] = s

(* The settings nsr-plugged holds: lines of their keys, the changed one    *)
(* being just the change.                                                  *)
Holds(cfg, s) ==
    /\ IsFiniteSet(DOMAIN cfg)
    /\ \A k \in DOMAIN cfg : cfg[k] \in LineSet /\ cfg[k][1].key = k
    /\ s \in SettingSet /\ s.nl /\ s.key \in DOMAIN cfg /\ cfg[s.key] = <<s>>

Savings ==
    /\ \A a \in Actors : phase[a] \in {"read", "open"} => Own(buf[a], change[a])
    /\ \A t \in Tools : phase[t] = "config" => Holds(config[t], change[t])

\* every line is one setting
Plain(f) == \A i \in 1..(Len(f) - 1) : f[i].nl

Tells(f, p, v) ==
    /\ \A i \in DOMAIN f : f[i].key = p => f[i].val = v
    /\ v => \E i \in DOMAIN f : f[i].key = p

Whole(f) == Plain(f) /\ Cardinality({i \in DOMAIN f : f[i].key = Other}) = appended

SaysWanted(f) == Whole(f) /\ \A p \in Plugins : Tells(f, p, want[p])

(* nsr-plugged between its two readings: the file is what it was at the    *)
(* first one.                                                              *)
Between(cfg, s) ==
    /\ Whole(file) /\ \A p \in Plugins \ {s.key} : Tells(file, p, want[p])
    /\ s.key \in Plugins /\ s.val = want[s.key]
    /\ DOMAIN cfg = {file[i].key : i \in DOMAIN file} \cup {s.key}
    /\ \A k \in DOMAIN cfg \ {s.key} : \E i \in DOMAIN file : file[i].key = k /\ cfg[k] = <<file[i]>>

Undisturbed ==
    clean =>
        /\ \A a, b \in Saving : a = b
        /\ Saving = {} => SaysWanted(file)
        /\ \A t \in Tools : phase[t] = "config" => Between(config[t], change[t])
        /\ \A a \in Actors : phase[a] \in {"read", "open"} => SaysWanted(buf[a])
        /\ \A a \in Actors : phase[a] = "open" => file = <<>>

ConfigInv == ConfigTypeOK /\ Savings /\ Undisturbed

-----------------------------------------------------------------------------
(* Lines.                                                                  *)

LEMMA HeadsFacts ==
    ASSUME NEW f \in Seq(SettingSet)
    PROVE  /\ Len(f) \in Nat /\ DOMAIN f = 1..Len(f) /\ \A i \in 1..Len(f) : f[i] \in SettingSet
           /\ Heads(f) \subseteq 1..Len(f) /\ IsFiniteSet(Heads(f)) /\ IsFiniteSet(1..Len(f))
           /\ Cardinality(1..Len(f)) = Len(f)
  <1>1. Len(f) \in Nat /\ DOMAIN f = 1..Len(f) /\ \A i \in 1..Len(f) : f[i] \in SettingSet
    BY LenProperties, ElementOfSeq
  <1>2. Heads(f) \subseteq 1..Len(f)
    BY <1>1 DEF Heads
  <1>3. IsFiniteSet(1..Len(f)) /\ Cardinality(1..Len(f)) = Len(f)
    <2> DEFINE n == Len(f)
    <2>1. 1 \in Int /\ n \in Int
      BY <1>1
    <2> HIDE DEF n
    <2>2. IsFiniteSet(1..n) /\ Cardinality(1..n) = IF 1 > n THEN 0 ELSE n - 1 + 1
      BY <2>1, FS_Interval
    <2>3. QED
      BY <1>1, <2>2 DEF n
  <1>4. QED
    BY <1>1, <1>2, <1>3, FS_Subset

(* The line that begins at i.                                              *)
LEMMA LineAtFacts ==
    ASSUME NEW f \in Seq(SettingSet), NEW i \in 1..Len(f)
    PROVE  LineAt(f, i) \in LineSet /\ LineAt(f, i)[1] = f[i]
  <1> DEFINE n == Len(f)
             Ends(j) == (f[j].nl \/ j = n) /\ \A k \in i..(j - 1) : ~f[k].nl
             S == {j \in i..n : f[j].nl \/ j = n}
             e == CHOOSE j \in i..n : Ends(j)
  <1>1. n \in Nat /\ i \in 1..n
    BY HeadsFacts
  <1>2. S \subseteq Nat /\ S # {}
    <2> HIDE DEF n
    <2>1. n \in S
      BY <1>1
    <2>2. QED
      BY <1>1, <2>1
  <1>3. PICK m \in S : \A j \in S : m <= j
    <2> HIDE DEF S
    <2>1. QED
      BY <1>2, NatSetLeast
  <1>4. m \in i..n /\ Ends(m)
    <2> HIDE DEF n
    <2>1. ASSUME NEW k \in i..(m - 1) PROVE ~f[k].nl
      <3>1. k \in i..n /\ ~(m <= k)
        BY <1>1, <1>3
      <3>2. QED
        BY <1>3, <3>1
    <2>2. QED
      BY <1>3, <2>1
  <1>5. e \in i..n /\ Ends(e)
    BY <1>4
  <1>6. LineAt(f, i) = SubSeq(f, i, e)
    BY DEF LineAt
  <1> DEFINE l == SubSeq(f, i, e)
  <1>7. ~f[n].nl \/ f[n].nl
    OBVIOUS
  <1> HIDE DEF e, n
  <1>8. /\ l \in Seq(SettingSet) /\ Len(l) = e - i + 1
        /\ \A k \in 1..(e - i + 1) : l[k] = f[i + k - 1]
    <2>1. i..e \subseteq 1..Len(f)
      BY <1>1, <1>5 DEF n
    <2>2. \A k \in 1..Len(f) : f[k] \in SettingSet
      BY HeadsFacts
    <2>3. QED
      BY <1>1, <1>5, <2>1, <2>2, SubSeqProperties DEF n
  <1> HIDE DEF l
  <1>9. \A k \in 1..(Len(l) - 1) : ~l[k].nl
    <2>1. TAKE k \in 1..(Len(l) - 1)
    <2>2. i + k - 1 \in i..(e - 1) /\ k \in 1..(e - i + 1)
      BY <1>1, <1>5, <1>8
    <2>3. QED
      BY <1>5, <1>8, <2>2
  <1>10. Len(l) > 0 /\ l[1] = f[i]
    <2>1. 1 \in 1..(e - i + 1) /\ i + 1 - 1 = i /\ e - i + 1 > 0
      BY <1>1, <1>5
    <2>2. QED
      BY <1>8, <2>1
  <1>11. l # <<>>
    BY <1>10
  <1>12. QED
    BY <1>6, <1>8, <1>9, <1>10, <1>11 DEF l, LineSet

LEMMA LineAtPlain ==
    ASSUME NEW f \in Seq(SettingSet), Plain(f), NEW i \in 1..Len(f)
    PROVE  LineAt(f, i) = <<f[i]>>
  <1> DEFINE n == Len(f)
             Ends(j) == (f[j].nl \/ j = n) /\ \A k \in i..(j - 1) : ~f[k].nl
             e == CHOOSE j \in i..n : Ends(j)
  <1>1. n \in Nat /\ i \in 1..n
    BY HeadsFacts
  <1>2. \A j \in 1..(n - 1) : f[j].nl
    BY DEF Plain
  <1>3. LineAt(f, i) = SubSeq(f, i, e)
    BY DEF LineAt
  <1> HIDE DEF n
  <1>4. i \in i..n /\ Ends(i)
    BY <1>1, <1>2
  <1>5. \A j \in i..n : Ends(j) => j = i
    <2>1. SUFFICES ASSUME NEW j \in i..n, Ends(j), j # i PROVE FALSE
      OBVIOUS
    <2>2. i \in i..(j - 1) /\ i \in 1..(n - 1)
      BY <1>1, <2>1
    <2>3. QED
      BY <1>2, <2>1, <2>2
  <1>6. e = i
    BY <1>4, <1>5
  <1>7. SubSeq(f, i, i) = <<f[i]>>
    <2>1. i..i \subseteq 1..Len(f) /\ i \in Int /\ i - i + 1 = 1 /\ i + 1 - 1 = i /\ f[i] \in SettingSet
      BY <1>1, HeadsFacts DEF n
    <2>2. /\ SubSeq(f, i, i) \in Seq(SettingSet) /\ Len(SubSeq(f, i, i)) = 1
          /\ SubSeq(f, i, i)[1] = f[i]
      BY <1>1, <2>1, SubSeqProperties DEF n
    <2>3. <<f[i]>> \in Seq(SettingSet) /\ Len(<<f[i]>>) = 1 /\ <<f[i]>>[1] = f[i]
      BY <2>1
    <2>4. \A k \in 1..1 : SubSeq(f, i, i)[k] = <<f[i]>>[k]
      <3>1. \A k \in 1..1 : k = 1
        OBVIOUS
      <3>2. QED
        BY <2>2, <2>3, <3>1
    <2>5. QED
      BY <2>2, <2>3, <2>4, SeqEqual
  <1>8. QED
    BY <1>3, <1>6, <1>7

(* A sequence of the lines of a file.                                      *)
LEMMA LinesFacts ==
    ASSUME NEW f \in Seq(SettingSet)
    PROVE  /\ LinesOf(f) \in Seq(LineSet)
           /\ Len(LinesOf(f)) = Cardinality(Heads(f))
  <1> DEFINE H == Heads(f)
             c == Cardinality(H)
             R == {p \in H \X H : p[1] < p[2]}
             Nth(n) == CHOOSE i \in H : Cardinality({j \in H : j < i}) = n - 1
  <1>1. H \subseteq 1..Len(f) /\ IsFiniteSet(H) /\ Len(f) \in Nat
    BY HeadsFacts
  <1> HIDE DEF H
  <1>2. /\ \A i \in H : i \in Nat
        /\ \A i, j \in H : <<i, j>> \in R <=> i < j
    BY <1>1
  <1>3. \A i \in H : {j \in H : j < i} = Below(H, R, i)
    BY <1>2 DEF Below
  <1>4. /\ \A i \in H : <<i, i>> \notin R
        /\ \A i, j, k \in H : <<i, j>> \in R /\ <<j, k>> \in R => <<i, k>> \in R
        /\ \A i, j \in H : i = j \/ <<i, j>> \in R \/ <<j, i>> \in R
    BY <1>2
  <1> HIDE DEF R
  <1>5. c \in Nat /\ \A n \in 1..c : \E i \in H : Cardinality(Below(H, R, i)) = n - 1
    BY <1>1, <1>4, Ranking
  <1>6. \A n \in 1..c : Nth(n) \in H
    <2>1. TAKE n \in 1..c
    <2>2. \E i \in H : Cardinality({j \in H : j < i}) = n - 1
      BY <1>3, <1>5
    <2>3. QED
      BY <2>2
  <1> HIDE DEF c, Nth
  <1>7. LinesOf(f) = [n \in 1..c |-> LineAt(f, Nth(n))]
    BY DEF LinesOf, c, Nth, H
  <1>8. \A n \in 1..c : LineAt(f, Nth(n)) \in LineSet
    BY <1>1, <1>6, LineAtFacts
  <1>9. LinesOf(f) \in Seq(LineSet) /\ Len(LinesOf(f)) = c
    BY <1>5, <1>7, <1>8
  <1>10. QED
    BY <1>9 DEF c, H

LEMMA LinesPlain ==
    ASSUME NEW f \in Seq(SettingSet), Plain(f)
    PROVE  /\ Heads(f) = 1..Len(f)
           /\ LinesOf(f) = [n \in 1..Len(f) |-> <<f[n]>>]
  <1> DEFINE m == Len(f)
             Nth(n) == CHOOSE i \in 1..m : Cardinality({j \in 1..m : j < i}) = n - 1
  <1>1. m \in Nat /\ DOMAIN f = 1..m /\ Cardinality(1..m) = m
    BY HeadsFacts
  <1>2. Heads(f) = 1..m
    <2>1. \A i \in 1..m : i = 1 \/ i - 1 \in 1..(m - 1)
      BY <1>1
    <2>2. QED
      BY <1>1, <2>1 DEF Heads, Plain
  <1> HIDE DEF m
  <1> DEFINE before == [i \in 1..m |-> Cardinality({j \in 1..m : j < i})]
  <1>3. \A i \in 1..m : before[i] = i - 1
    <2>1. TAKE i \in 1..m
    <2>2. {j \in 1..m : j < i} = 1..(i - 1)
      BY <1>1
    <2>3. i - 1 \in Nat /\ i - 1 \in Int /\ 1 \in Int
      BY <1>1
    <2> DEFINE k == i - 1
    <2> HIDE DEF k
    <2>4. Cardinality(1..k) = IF 1 > k THEN 0 ELSE k - 1 + 1
      BY <2>3, FS_Interval DEF k
    <2>5. Cardinality(1..k) = k
      BY <2>3, <2>4 DEF k
    <2>6. QED
      BY <2>2, <2>5 DEF k
  <1>4. \A n \in 1..m : Nth(n) = n
    <2>1. TAKE n \in 1..m
    <2>2. Nth(n) = CHOOSE i \in 1..m : before[i] = n - 1
      OBVIOUS
    <2> HIDE DEF before, Nth
    <2>3. n \in 1..m /\ before[n] = n - 1
      BY <1>3
    <2>4. \A i \in 1..m : before[i] = n - 1 => i = n
      BY <1>1, <1>3
    <2>5. QED
      BY <2>2, <2>3, <2>4
  <1> HIDE DEF Nth, m
  <1>5. LinesOf(f) = [n \in 1..m |-> LineAt(f, Nth(n))]
    BY <1>1, <1>2 DEF LinesOf, Nth
  <1>6. \A n \in 1..m : LineAt(f, Nth(n)) = <<f[n]>>
    BY <1>4, LineAtPlain DEF m
  <1>7. QED
    BY <1>2, <1>5, <1>6 DEF m

LEMMA OneBack ==
    ASSUME NEW m \in Nat, NEW o \in Nat, NEW j \in 1..m, j # 1
    PROVE  j - 1 \in 1..(m - 1) /\ j - 1 \in 1..m /\ (o + j) - 1 = o + (j - 1) /\ o + j # 1
  OBVIOUS

(* A line of a sequence of lines begins where one of them does.            *)
LEMMA FlatHeads ==
    ASSUME NEW ls \in Seq(LineSet)
    PROVE  /\ FlattenSeq(ls) \in Seq(SettingSet)
           /\ \A i \in Heads(FlattenSeq(ls)) : \E n \in DOMAIN ls : FlattenSeq(ls)[i] = ls[n][1]
  <1> DEFINE f == FlattenSeq(ls)
  <1>1. ls \in Seq(Seq(SettingSet))
    <2>1. LineSet \subseteq Seq(SettingSet)
      BY DEF LineSet
    <2>2. QED
      BY <2>1, SeqMonotonic
  <1>2. Len(ls) \in Nat /\ DOMAIN ls = 1..Len(ls) /\ \A n \in 1..Len(ls) : ls[n] \in LineSet
    BY LenProperties, ElementOfSeq
  <1>3. f \in Seq(SettingSet) /\ \E off : Offsets(ls, f, off)
    BY <1>1, Flattened
  <1> HIDE DEF f
  <1>4. PICK off : Offsets(ls, f, off)
    BY <1>3
  <1>5. ASSUME NEW i \in Heads(f) PROVE \E n \in DOMAIN ls : f[i] = ls[n][1]
    <2>1. i \in 1..Len(f) /\ Len(f) \in Nat /\ (i = 1 \/ f[i - 1].nl)
      BY <1>3, HeadsFacts DEF Heads
    <2>2. PICK n \in 1..Len(ls) : \E j \in 1..Len(ls[n]) : i = off[n - 1] + j
      BY <1>4, <2>1 DEF Offsets
    <2>3. PICK j \in 1..Len(ls[n]) : i = off[n - 1] + j
      BY <2>2
    <2>4. off \in [0..Len(ls) -> Nat] /\ \A k \in 1..Len(ls[n]) : f[off[n - 1] + k] = ls[n][k]
      BY <1>4 DEF Offsets
    <2>5. n - 1 \in 0..Len(ls) /\ off[n - 1] \in Nat
      BY <1>2, <2>4
    <2>6. ls[n] \in Seq(SettingSet) /\ Len(ls[n]) \in Nat /\ \A k \in 1..(Len(ls[n]) - 1) : ~ls[n][k].nl
      BY <1>2, LenProperties DEF LineSet
    <2>7. j = 1
      <3>1. SUFFICES ASSUME j # 1 PROVE FALSE
        OBVIOUS
      <3>2. j - 1 \in 1..(Len(ls[n]) - 1) /\ j - 1 \in 1..Len(ls[n]) /\ i - 1 = off[n - 1] + (j - 1) /\ i # 1
        BY <2>3, <2>5, <2>6, <3>1, OneBack
      <3>3. f[i - 1] = ls[n][j - 1]
        BY <2>4, <3>2
      <3>4. QED
        BY <2>1, <2>6, <3>2, <3>3
    <2>8. f[i] = ls[n][1]
      BY <2>3, <2>4, <2>7
    <2>9. QED
      BY <1>2, <2>8
  <1>6. QED
    BY <1>3, <1>5 DEF f

(* Lines of one setting each.                                              *)
LEMMA FlatSingles ==
    ASSUME NEW ls \in Seq(Seq(SettingSet)), \A n \in DOMAIN ls : Len(ls[n]) = 1
    PROVE  /\ FlattenSeq(ls) \in Seq(SettingSet)
           /\ FlattenSeq(ls) = [n \in 1..Len(ls) |-> ls[n][1]]
  <1> DEFINE f == FlattenSeq(ls)
             m == Len(ls)
  <1>1. m \in Nat /\ DOMAIN ls = 1..m
    BY LenProperties
  <1>2. f \in Seq(SettingSet) /\ \E off : Offsets(ls, f, off)
    BY Flattened
  <1> HIDE DEF f
  <1>3. PICK off : Offsets(ls, f, off)
    BY <1>2
  <1>4. /\ off \in [0..m -> Nat] /\ off[0] = 0 /\ off[m] = Len(f)
        /\ \A n \in 1..m : off[n] = off[n - 1] + 1 /\ f[off[n - 1] + 1] = ls[n][1]
    <2>1. \A n \in 1..m : Len(ls[n]) = 1
      BY <1>1, Zenon
    <2>2. /\ off \in [0..m -> Nat] /\ off[0] = 0 /\ off[m] = Len(f)
          /\ \A n \in 1..m : /\ off[n] = off[n - 1] + Len(ls[n])
                            /\ \A j \in 1..Len(ls[n]) : f[off[n - 1] + j] = ls[n][j]
      BY <1>3 DEF Offsets
    <2> HIDE DEF m
    <2>3. ASSUME NEW n \in 1..m PROVE off[n] = off[n - 1] + 1 /\ f[off[n - 1] + 1] = ls[n][1]
      <3>1. Len(ls[n]) = 1
        BY <2>1, Zenon
      <3>2. 1 \in 1..1
        OBVIOUS
      <3>3. 1 \in 1..Len(ls[n])
        BY <3>1, <3>2, Zenon
      <3>4. QED
        BY <2>2, <3>1, <3>3, Zenon
    <2>4. QED
      BY <2>2, <2>3
  <1> HIDE DEF m
  <1> DEFINE E == {n \in 0..m : off[n] = n}
  <1>5. 0 \in E
    BY <1>1, <1>4
  <1>6. \A n \in 0..(m - 1) : n \in E => n + 1 \in E
    <2>1. ASSUME NEW n \in 0..(m - 1), n \in E PROVE n + 1 \in E
      <3>1. n + 1 \in 1..m /\ (n + 1) - 1 = n /\ n + 1 \in 0..m
        BY <1>1
      <3>2. QED
        BY <1>4, <2>1, <3>1
    <2>2. QED
      BY <2>1
  <1>7. 0..m \subseteq E
    <2> HIDE DEF E
    <2>1. QED
      BY <1>1, <1>5, <1>6, IntervalInduction
  <1>8. \A n \in 1..m : f[n] = ls[n][1]
    <2>1. TAKE n \in 1..m
    <2>2. n - 1 \in E /\ (n - 1) + 1 = n
      BY <1>1, <1>7
    <2>3. QED
      BY <1>4, <2>2
  <1>9. Len(f) = m
    BY <1>1, <1>4, <1>7
  <1>10. f = [n \in 1..m |-> ls[n][1]]
    BY <1>2, <1>8, <1>9
  <1>11. QED
    BY <1>2, <1>10 DEF f, m

(* The image of a finite set.                                              *)
LEMMA FiniteImage ==
    ASSUME NEW S, IsFiniteSet(S), NEW g, DOMAIN g = S
    PROVE  IsFiniteSet({g[x] : x \in S})
  <1> DEFINE T == {g[x] : x \in S}
             h == [x \in S |-> g[x]]
  <1>1. h \in [S -> T]
    OBVIOUS
  <1>2. \A t \in T : \E x \in S : h[x] = t
    OBVIOUS
  <1> HIDE DEF T, h
  <1>3. h \in Surjection(S, T)
    BY <1>1, <1>2 DEF Surjection
  <1>4. IsFiniteSet(T)
    BY <1>3, FS_Surjection
  <1>5. QED
    BY <1>4 DEF T

(* A finite set as a sequence.                                             *)
LEMMA SetToSeqFacts ==
    ASSUME NEW S, IsFiniteSet(S)
    PROVE  SetToSeq(S) \in Seq(S) /\ SetToSeq(S) \in [1..Cardinality(S) -> S]
  <1> DEFINE n == Cardinality(S)
  <1>1. n \in Nat /\ ExistsBijection(1..n, S)
    BY FS_CardinalityType
  <1>2. PICK g : g \in Bijection(1..n, S)
    BY <1>1 DEF ExistsBijection
  <1>3. g \in [1..n -> S] /\ \A i, j \in 1..n : g[i] = g[j] => i = j
    BY <1>2, Zenon DEF Bijection, Injection, IsInjective
  <1>4. \E h \in [1..n -> S] : IsInjective(h)
    BY <1>3 DEF IsInjective
  <1>5. SetToSeq(S) \in [1..n -> S]
    BY <1>4, Zenon DEF SetToSeq
  <1>6. SetToSeq(S) \in Seq(S)
    <2> HIDE DEF n
    <2>1. QED
      BY <1>1, <1>5
  <1>7. QED
    BY <1>5, <1>6

-----------------------------------------------------------------------------
(* What a save writes.                                                     *)

LEMMA SingleLine ==
    ASSUME NEW s \in SettingSet
    PROVE  <<s>> \in LineSet /\ <<s>>[1] = s /\ Len(<<s>>) = 1
  <1>1. <<s>> \in Seq(SettingSet) /\ <<s>> # <<>> /\ <<s>>[1] = s /\ Len(<<s>>) = 1
    OBVIOUS
  <1>2. \A i \in 1..(Len(<<s>>) - 1) : ~<<s>>[i].nl
    BY <1>1
  <1>3. QED
    BY <1>1, <1>2 DEF LineSet

(* Text made of lines, all those that begin with the key being the setting.*)
LEMMA OwnText ==
    ASSUME NEW ls \in Seq(LineSet), NEW s,
           \A n \in 1..Len(ls) : ls[n][1].key = s.key => ls[n][1] = s
    PROVE  FlattenSeq(ls) \in Seq(SettingSet) /\ Own(FlattenSeq(ls), s)
  <1> DEFINE f == FlattenSeq(ls)
  <1>1. f \in Seq(SettingSet) /\ \A i \in Heads(f) : \E n \in DOMAIN ls : f[i] = ls[n][1]
    BY FlatHeads
  <1>2. DOMAIN ls = 1..Len(ls)
    BY LenProperties
  <1> HIDE DEF f
  <1>3. ASSUME NEW i \in Heads(f), f[i].key = s.key PROVE f[i] = s
    <2>1. PICK n \in 1..Len(ls) : f[i] = ls[n][1]
      BY <1>1, <1>2
    <2>2. ls[n][1].key = s.key
      BY <1>3, <2>1
    <2>3. QED
      BY <2>1, <2>2
  <1>4. QED
    BY <1>1, <1>3 DEF Own, f

LEMMA RewrittenOwn ==
    ASSUME NEW f \in Seq(SettingSet), NEW s \in SettingSet
    PROVE  Rewritten(f, s) \in Seq(SettingSet) /\ Own(Rewritten(f, s), s)
  <1> DEFINE ls   == LinesOf(f)
             m    == IF Len(ls) < MaxLines THEN Len(ls) ELSE MaxLines
             kept == SubSeq(ls, 1, m)
             put  == [n \in DOMAIN kept |-> IF kept[n][1].key = s.key THEN <<s>> ELSE kept[n]]
             here == \E n \in DOMAIN kept : kept[n][1].key = s.key
             all  == IF here \/ Len(put) >= MaxLines THEN put ELSE Append(put, <<s>>)
  <1>1. Rewritten(f, s) = FlattenSeq(all)
    BY DEF Rewritten
  <1>2. ls \in Seq(LineSet) /\ Len(ls) \in Nat
    BY LinesFacts, LenProperties
  <1> HIDE DEF ls
  <1>3. MaxLines \in Nat
    BY ConfigAssumption
  <1>4. m \in Nat /\ m <= Len(ls)
    BY <1>2, <1>3
  <1> HIDE DEF m
  <1>5. kept \in Seq(LineSet) /\ Len(kept) = m /\ DOMAIN kept = 1..m /\ \A n \in 1..m : kept[n] \in LineSet
    <2>1. kept \in Seq(LineSet) /\ Len(kept) = m
      <3>1. \A n \in 1..Len(ls) : ls[n] \in LineSet
        BY <1>2, ElementOfSeq
      <3>2. 1..m \subseteq 1..Len(ls) /\ 1 \in Int /\ m \in Int /\ (IF 1 <= m THEN m - 1 + 1 ELSE 0) = m
        BY <1>2, <1>4
      <3>3. QED
        BY <1>2, <1>4, <3>1, <3>2, SubSeqProperties
    <2>2. QED
      BY <2>1, LenProperties, ElementOfSeq
  <1> HIDE DEF kept
  <1>6. <<s>> \in LineSet /\ <<s>>[1] = s
    BY SingleLine
  <1>7. /\ put \in Seq(LineSet) /\ Len(put) = m
        /\ \A n \in 1..m : put[n][1].key = s.key => put[n][1] = s
    <2>1. \A n \in 1..m : put[n] \in LineSet /\ (put[n][1].key = s.key => put[n][1] = s)
      <3>1. TAKE n \in 1..m
      <3>2. put[n] = IF kept[n][1].key = s.key THEN <<s>> ELSE kept[n]
        BY <1>5
      <3>3. QED
        BY <1>5, <1>6, <3>2
    <2>2. put = [n \in 1..m |-> put[n]]
      BY <1>5
    <2> HIDE DEF put
    <2>3. QED
      BY <1>4, <2>1, <2>2
  <1> HIDE DEF put, here
  <1>8. all \in Seq(LineSet) /\ \A n \in 1..Len(all) : all[n][1].key = s.key => all[n][1] = s
    <2>1. CASE here \/ Len(put) >= MaxLines
      BY <1>7, <2>1
    <2>2. CASE ~(here \/ Len(put) >= MaxLines)
      <3>1. all = Append(put, <<s>>)
        BY <2>2
      <3>2. /\ Append(put, <<s>>) \in Seq(LineSet) /\ Len(Append(put, <<s>>)) = m + 1
            /\ \A n \in 1..m : Append(put, <<s>>)[n] = put[n]
            /\ Append(put, <<s>>)[m + 1] = <<s>>
        BY <1>6, <1>7, AppendProperties
      <3>3. \A n \in 1..(m + 1) : n \in 1..m \/ n = m + 1
        BY <1>4
      <3>4. QED
        BY <1>6, <1>7, <3>1, <3>2, <3>3
    <2>3. QED
      BY <2>1, <2>2
  <1> HIDE DEF all
  <1>9. QED
    BY <1>1, <1>8, OwnText

(* A line with its newline.                                                *)
LEMMA EndedLine ==
    ASSUME NEW l \in LineSet
    PROVE  /\ Ended(l) \in LineSet /\ Ended(l)[1].key = l[1].key /\ Ended(l)[1].val = l[1].val
           /\ Len(Ended(l)) = Len(l)
           /\ Ended(l)[Len(l)].nl
  <1> DEFINE n == Len(l)
             e == [l[n] EXCEPT !.nl = TRUE]
             r == Ended(l)
  <1>1. l \in Seq(SettingSet) /\ n \in Nat /\ l # <<>> /\ \A i \in 1..(n - 1) : ~l[i].nl
    BY LenProperties DEF LineSet
  <1>2. n > 0 /\ n \in 1..n /\ 1 \in 1..n
    BY <1>1, EmptySeq
  <1>3. l[n] \in SettingSet /\ l[1] \in SettingSet
    BY <1>1, <1>2, ElementOfSeq
  <1>4. e \in SettingSet /\ e.key = l[n].key /\ e.val = l[n].val /\ e.nl
    BY <1>3 DEF SettingSet
  <1>5. r = [l EXCEPT ![n] = e]
    BY DEF Ended
  <1> HIDE DEF n, e
  <1>6. r \in Seq(SettingSet) /\ Len(r) = n /\ \A i \in 1..n : r[i] = IF i = n THEN e ELSE l[i]
    <2> HIDE DEF r
    <2>1. QED
      BY <1>1, <1>2, <1>4, <1>5, ExceptSeq DEF n
  <1> HIDE DEF r
  <1>7. r # <<>>
    BY <1>2, <1>6
  <1>8. \A i \in 1..(Len(r) - 1) : ~r[i].nl
    <2>1. TAKE i \in 1..(Len(r) - 1)
    <2>2. i \in 1..(n - 1) /\ i \in 1..n /\ i # n
      BY <1>1, <1>6
    <2>3. QED
      BY <1>1, <1>6, <2>2
  <1>9. r[1].key = l[1].key /\ r[1].val = l[1].val /\ r[n].nl
    BY <1>2, <1>4, <1>6
  <1>10. QED
    BY <1>6, <1>7, <1>8, <1>9 DEF r, n, LineSet

(* The sequence of lines write_config writes.                              *)
Put(f, cfg) == [n \in DOMAIN LinesOf(f) |->
                   IF LinesOf(f)[n][1].key \in DOMAIN cfg THEN Ended(cfg[LinesOf(f)[n][1].key])
                   ELSE LinesOf(f)[n]]

Added(f, cfg) == {Ended(cfg[k]) : k \in DOMAIN cfg \ {f[i].key : i \in Heads(f)}}

LEMMA WriteOwn ==
    ASSUME NEW f \in Seq(SettingSet), NEW cfg, NEW s, Holds(cfg, s)
    PROVE  /\ write_config(f, cfg) = FlattenSeq(Put(f, cfg) \o SetToSeq(Added(f, cfg)))
           /\ write_config(f, cfg) \in Seq(SettingSet) /\ Own(write_config(f, cfg), s)
  <1> DEFINE P == Put(f, cfg)
             A == SetToSeq(Added(f, cfg))
             D == DOMAIN cfg
             ls == LinesOf(f)
             m == Len(ls)
             G == {l \in LineSet : l[1].key = s.key => l[1] = s}
  <1>1. write_config(f, cfg) = FlattenSeq(P \o A)
    BY DEF write_config, Put, Added
  <1>2. ls \in Seq(LineSet) /\ m \in Nat /\ DOMAIN ls = 1..m /\ \A n \in 1..m : ls[n] \in LineSet
    BY LinesFacts, LenProperties, ElementOfSeq
  <1>3. ASSUME NEW k \in D PROVE Ended(cfg[k]) \in G
    <2>1. cfg[k] \in LineSet /\ cfg[k][1].key = k
      BY DEF Holds
    <2>2. Ended(cfg[k]) \in LineSet /\ Ended(cfg[k])[1].key = k
      BY <2>1, EndedLine
    <2>3. CASE k = s.key
      <3>1. cfg[k] = <<s>> /\ s \in SettingSet /\ s.nl
        BY <2>3 DEF Holds
      <3>2. /\ <<s>> \in LineSet /\ Len(<<s>>) = 1 /\ <<s>>[1] = s
        BY <3>1, SingleLine
      <3>3. Ended(<<s>>) \in LineSet /\ Ended(<<s>>)[1].key = s.key /\ Ended(<<s>>)[1].val = s.val /\ Ended(<<s>>)[1].nl
        BY <3>2, EndedLine
      <3>4. Ended(<<s>>)[1] \in SettingSet
        <4>1. Ended(<<s>>) \in Seq(SettingSet) /\ Ended(<<s>>) # <<>>
          BY <3>3 DEF LineSet
        <4>2. QED
          BY <4>1
      <3>5. s.nl = TRUE /\ Ended(<<s>>)[1].nl = TRUE
        BY <3>1, <3>3, <3>4 DEF SettingSet
      <3>6. Ended(<<s>>)[1] = s
        BY <3>1, <3>3, <3>4, <3>5 DEF SettingSet
      <3>7. QED
        BY <2>2, <3>1, <3>6
    <2>4. QED
      BY <2>2, <2>3
  <1>4. P \in Seq(G)
    <2>1. P = [n \in 1..m |-> IF ls[n][1].key \in D THEN Ended(cfg[ls[n][1].key]) ELSE ls[n]]
      BY <1>2 DEF Put
    <2>2. \A n \in 1..m : ls[n][1].key \notin D => ls[n] \in G
      BY <1>2 DEF Holds
    <2> HIDE DEF P, G, m, ls, D
    <2>3. \A n \in 1..m : (IF ls[n][1].key \in D THEN Ended(cfg[ls[n][1].key]) ELSE ls[n]) \in G
      BY <1>3, <2>2
    <2>4. QED
      BY <1>2, <2>1, <2>3
  <1>5. A \in Seq(G)
    <2> DEFINE N == D \ {f[i].key : i \in Heads(f)}
               B == {Ended(cfg[k]) : k \in N}
    <2>1. IsFiniteSet(D)
      BY DEF Holds
    <2>2. IsFiniteSet(N)
      BY <2>1, FS_Subset
    <2> HIDE DEF G
    <2>3. B \subseteq G
      BY <1>3
    <2> HIDE DEF N
    <2>4. IsFiniteSet(B)
      <3> DEFINE g == [k \in N |-> Ended(cfg[k])]
      <3>1. B = {g[k] : k \in N} /\ DOMAIN g = N
        OBVIOUS
      <3> HIDE DEF g, B
      <3>2. QED
        BY <2>2, <3>1, FiniteImage
    <2>5. A = SetToSeq(B)
      BY DEF Added, N
    <2> HIDE DEF B
    <2>6. SetToSeq(B) \in Seq(B)
      BY <2>4, SetToSeqFacts
    <2>7. QED
      BY <2>3, <2>5, <2>6, SeqMonotonic
  <1> HIDE DEF P, A
  <1>6. P \o A \in Seq(G)
    BY <1>4, <1>5, ConcatProperties
  <1> DEFINE all == P \o A
  <1> HIDE DEF all
  <1>7. all \in Seq(LineSet) /\ \A n \in 1..Len(all) : all[n][1].key = s.key => all[n][1] = s
    <2>1. all \in Seq(G)
      BY <1>6 DEF all
    <2>2. \A n \in 1..Len(all) : all[n] \in G
      BY <2>1, ElementOfSeq
    <2>3. G \subseteq LineSet
      OBVIOUS
    <2>4. QED
      BY <2>1, <2>2, <2>3, SeqMonotonic
  <1>8. FlattenSeq(all) \in Seq(SettingSet) /\ Own(FlattenSeq(all), s)
    BY <1>7, OwnText
  <1>9. QED
    BY <1>1, <1>8 DEF all, P, A

(* What nsr-plugged holds after reading.                                   *)
LEMMA ReadFacts ==
    ASSUME NEW f \in Seq(SettingSet)
    PROVE  /\ DOMAIN read_config(f) = {f[i].key : i \in Heads(f)}
           /\ IsFiniteSet(DOMAIN read_config(f))
           /\ \A k \in DOMAIN read_config(f) :
                 \E i \in Heads(f) : /\ f[i].key = k /\ read_config(f)[k] = LineAt(f, i)
                                     /\ \A j \in Heads(f) : f[j].key = k => j <= i
  <1> DEFINE H == Heads(f)
             K == {f[i].key : i \in H}
             Final(k, i) == f[i].key = k /\ \A j \in H : f[j].key = k => j <= i
             c == read_config(f)
  <1>1. H \subseteq 1..Len(f) /\ IsFiniteSet(H) /\ Len(f) \in Nat
    BY HeadsFacts
  <1>2. c = [k \in K |-> LineAt(f, CHOOSE i \in H : Final(k, i))]
    BY DEF read_config
  <1>3. DOMAIN c = K
    BY <1>2
  <1> HIDE DEF H
  <1>4. IsFiniteSet(K)
    <2> DEFINE g == [i \in H |-> f[i].key]
    <2>1. K = {g[i] : i \in H} /\ DOMAIN g = H
      OBVIOUS
    <2> HIDE DEF g, K
    <2>2. QED
      BY <1>1, <2>1, FiniteImage
  <1>5. ASSUME NEW k \in K PROVE \E i \in H : Final(k, i) /\ c[k] = LineAt(f, i)
    <2> DEFINE n == Len(f)
               S == {d \in 0..n : n - d \in H /\ f[n - d].key = k}
    <2>1. PICK i0 \in H : f[i0].key = k
      OBVIOUS
    <2>2. n - i0 \in 0..n /\ n - (n - i0) = i0
      BY <1>1
    <2>3. n - i0 \in S /\ S \subseteq Nat
      BY <2>1, <2>2
    <2>4. PICK d \in S : \A x \in S : d <= x
      <3> HIDE DEF S
      <3>1. QED
        BY <2>3, NatSetLeast
    <2>5. n - d \in H /\ f[n - d].key = k /\ d \in 0..n
      BY <2>4
    <2>6. ASSUME NEW j \in H, f[j].key = k PROVE j <= n - d
      <3>1. n - j \in 0..n /\ n - (n - j) = j /\ j \in Nat /\ n \in Nat
        BY <1>1
      <3>2. n - j \in S
        BY <2>6, <3>1
      <3>3. d <= n - j /\ d \in 0..n
        BY <2>4, <3>2
      <3> HIDE DEF n, S
      <3>4. QED
        BY <3>1, <3>3
    <2>7. Final(k, n - d)
      BY <2>5, <2>6
    <2>8. \E i \in H : Final(k, i)
      BY <2>5, <2>7
    <2> HIDE DEF Final
    <2>9. (CHOOSE i \in H : Final(k, i)) \in H /\ Final(k, CHOOSE i \in H : Final(k, i))
      BY <2>8
    <2>10. QED
      BY <1>2, <2>9
  <1>6. QED
    BY <1>3, <1>4, <1>5 DEF H

(* ... and after the change.                                               *)
Changed(cfg, s) == [k \in DOMAIN cfg \cup {s.key} |-> IF k = s.key THEN <<s>> ELSE cfg[k]]

LEMMA ReadHolds ==
    ASSUME NEW f \in Seq(SettingSet), NEW s \in SettingSet, s.nl
    PROVE  Holds(Changed(read_config(f), s), s)
  <1> DEFINE c == read_config(f)
             d == Changed(c, s)
  <1>1. IsFiniteSet(DOMAIN c) /\ \A k \in DOMAIN c : \E i \in Heads(f) : f[i].key = k /\ c[k] = LineAt(f, i)
    BY ReadFacts
  <1>2. \A k \in DOMAIN c : c[k] \in LineSet /\ c[k][1].key = k
    BY <1>1, HeadsFacts, LineAtFacts
  <1> HIDE DEF c
  <1>3. DOMAIN d = DOMAIN c \cup {s.key} /\ \A k \in DOMAIN d : d[k] = IF k = s.key THEN <<s>> ELSE c[k]
    BY DEF Changed
  <1> HIDE DEF d
  <1>4. IsFiniteSet(DOMAIN d)
    BY <1>1, <1>3, FS_AddElement
  <1>5. <<s>> \in LineSet /\ <<s>>[1] = s
    BY SingleLine
  <1>6. \A k \in DOMAIN d : d[k] \in LineSet /\ d[k][1].key = k
    BY <1>2, <1>3, <1>5
  <1>7. s.key \in DOMAIN d /\ d[s.key] = <<s>>
    BY <1>3
  <1>8. QED
    BY <1>4, <1>6, <1>7 DEF Holds, d, c

-----------------------------------------------------------------------------
(* Undisturbed saves.                                                      *)

(* Reading a file in which every line is one setting.                      *)
LEMMA PlainReads ==
    ASSUME NEW f \in Seq(SettingSet), Plain(f), NEW p, NEW v \in BOOLEAN, Tells(f, p, v)
    PROVE  config_get_bool_default(f, p) = v /\ is_plugin_enabled(p, read_config(f)) = v
  <1> DEFINE m == Len(f)
             at == {i \in Heads(f) : f[i].key = p}
             first == CHOOSE i \in at : \A j \in at : i <= j
             c == read_config(f)
  <1>1. m \in Nat /\ DOMAIN f = 1..m /\ Heads(f) = 1..m /\ \A i \in 1..m : f[i] \in SettingSet
    BY HeadsFacts, LinesPlain
  <1>2. at = {i \in 1..m : f[i].key = p}
    BY <1>1
  <1>3. at \subseteq Nat
    BY <1>1, <1>2
  <1>4. \A i \in at : f[i].val = v
    BY <1>1, <1>2 DEF Tells
  <1>5. v => at # {}
    BY <1>1, <1>2 DEF Tells
  <1>6. at # {} => first \in at
    <2> HIDE DEF at
    <2>1. SUFFICES ASSUME at # {} PROVE first \in at
      OBVIOUS
    <2>2. \E i \in at : \A j \in at : i <= j
      BY <1>3, <2>1, NatSetLeast
    <2>3. QED
      BY <2>2
  <1>7. config_get_bool_default(f, p) = v
    <2>1. config_get_bool_default(f, p) = (at # {} /\ f[first].val)
      BY DEF config_get_bool_default
    <2> HIDE DEF at, first
    <2>2. CASE at = {}
      <3>1. v = FALSE
        BY <1>5, <2>2
      <3>2. QED
        BY <2>1, <2>2, <3>1
    <2>3. CASE at # {}
      <3>1. f[first].val = v
        BY <1>4, <1>6, <2>3
      <3>2. QED
        BY <2>1, <2>3, <3>1
    <2>4. QED
      BY <2>2, <2>3
  <1>8. DOMAIN c = {f[i].key : i \in 1..m}
    BY <1>1, ReadFacts
  <1>9. p \in DOMAIN c <=> at # {}
    BY <1>2, <1>8
  <1>10. ASSUME p \in DOMAIN c PROVE c[p][1].val = v /\ Len(c[p]) = 1
    <2>1. PICK i \in Heads(f) : f[i].key = p /\ c[p] = LineAt(f, i)
      BY <1>10, ReadFacts
    <2>2. i \in 1..m /\ i \in at
      BY <1>1, <2>1
    <2>3. c[p] = <<f[i]>>
      BY <2>1, <2>2, LineAtPlain
    <2>4. f[i].val = v
      BY <1>4, <2>2
    <2>5. <<f[i]>>[1] = f[i] /\ Len(<<f[i]>>) = 1
      OBVIOUS
    <2>6. QED
      BY <2>3, <2>4, <2>5
  <1> HIDE DEF c, at
  <1>11. is_plugin_enabled(p, c) = v
    <2>1. is_plugin_enabled(p, c) = (p \in DOMAIN c /\ c[p][1].val /\ Len(c[p]) = 1)
      BY DEF is_plugin_enabled
    <2>2. CASE p \in DOMAIN c
      <3>1. c[p][1].val = v /\ Len(c[p]) = 1
        BY <1>10, <2>2
      <3>2. QED
        BY <2>1, <2>2, <3>1
    <2>3. CASE p \notin DOMAIN c
      <3>1. v = FALSE
        BY <1>5, <1>9, <2>3
      <3>2. QED
        BY <2>1, <2>3, <3>1
    <2>4. QED
      BY <2>2, <2>3
  <1>12. QED
    BY <1>7, <1>11 DEF c

\* the settings of the file, those of the key replaced
Replaced(f, s) == [n \in 1..Len(f) |-> IF f[n].key = s.key THEN s ELSE f[n]]

LEMMA RewrittenPlain ==
    ASSUME NEW f \in Seq(SettingSet), NEW s \in SettingSet, Plain(f), ~(Len(LinesOf(f)) > MaxLines)
    PROVE  LET r == Rewritten(f, s)
           IN  \/ r = Replaced(f, s)
               \/ r = Append(Replaced(f, s), s) /\ \A n \in 1..Len(f) : f[n].key # s.key
  <1> DEFINE ls   == LinesOf(f)
             m    == Len(f)
             k    == IF Len(ls) < MaxLines THEN Len(ls) ELSE MaxLines
             kept == SubSeq(ls, 1, k)
             put  == [n \in DOMAIN kept |-> IF kept[n][1].key = s.key THEN <<s>> ELSE kept[n]]
             here == \E n \in DOMAIN kept : kept[n][1].key = s.key
             all  == IF here \/ Len(put) >= MaxLines THEN put ELSE Append(put, <<s>>)
  <1>1. Rewritten(f, s) = FlattenSeq(all)
    BY DEF Rewritten
  <1>2. m \in Nat /\ \A n \in 1..m : f[n] \in SettingSet
    BY HeadsFacts
  <1>3. ls = [n \in 1..m |-> <<f[n]>>]
    BY LinesPlain
  <1>4. ls \in Seq(Seq(SettingSet)) /\ Len(ls) = m
    <2> HIDE DEF ls, m
    <2>1. \A n \in 1..m : <<f[n]>> \in Seq(SettingSet)
      BY <1>2
    <2>2. QED
      BY <1>2, <1>3, <2>1
  <1>5. MaxLines \in Nat
    BY ConfigAssumption
  <1> HIDE DEF ls
  <1>6. k = m
    <2>1. ~(m > MaxLines)
      BY <1>4 DEF ls
    <2> HIDE DEF m
    <2>2. QED
      BY <1>2, <1>4, <1>5, <2>1
  <1>7. kept = ls
    <2> HIDE DEF k, m
    <2>1. \A n \in 1..Len(ls) : ls[n] \in Seq(SettingSet)
      BY <1>4, ElementOfSeq
    <2>2. 1..k \subseteq 1..Len(ls) /\ 1 \in Int /\ k \in Int /\ k \in Nat /\ (IF 1 <= k THEN k - 1 + 1 ELSE 0) = k
      BY <1>2, <1>4, <1>6
    <2>3. kept \in Seq(Seq(SettingSet)) /\ Len(kept) = k /\ \A n \in 1..k : kept[n] = ls[1 + n - 1]
      BY <1>4, <2>1, <2>2, SubSeqProperties
    <2>4. \A n \in 1..k : 1 + n - 1 = n
      BY <2>2
    <2>5. QED
      BY <1>4, <1>6, <2>3, <2>4, SeqEqual
  <1> HIDE DEF kept, k
  <1>8. \A n \in 1..m : kept[n] = <<f[n]>> /\ kept[n][1] = f[n]
    BY <1>3, <1>7
  <1>9. DOMAIN kept = 1..m
    BY <1>3, <1>7
  <1>10. put = [n \in 1..m |-> IF f[n].key = s.key THEN <<s>> ELSE <<f[n]>>]
    BY <1>8, <1>9
  <1>11. here <=> \E n \in 1..m : f[n].key = s.key
    BY <1>8, <1>9
  <1> HIDE DEF put, here, m
  <1>12. \A n \in 1..m : /\ (IF f[n].key = s.key THEN <<s>> ELSE <<f[n]>>) \in Seq(SettingSet)
                         /\ Len(IF f[n].key = s.key THEN <<s>> ELSE <<f[n]>>) = 1
                         /\ (IF f[n].key = s.key THEN <<s>> ELSE <<f[n]>>)[1] = IF f[n].key = s.key THEN s ELSE f[n]
    BY <1>2
  <1>13. /\ put \in Seq(Seq(SettingSet)) /\ Len(put) = m /\ \A n \in 1..m : Len(put[n]) = 1
         /\ \A n \in 1..m : put[n][1] = IF f[n].key = s.key THEN s ELSE f[n]
    BY <1>2, <1>10, <1>12
  <1>14. Replaced(f, s) = [n \in 1..m |-> IF f[n].key = s.key THEN s ELSE f[n]]
    BY DEF Replaced, m
  <1>15. CASE here \/ Len(put) >= MaxLines
    <2>1. all = put
      BY <1>15
    <2>2. \A n \in DOMAIN put : Len(put[n]) = 1
      BY <1>10, <1>13
    <2>3. FlattenSeq(put) = [n \in 1..Len(put) |-> put[n][1]]
      BY <1>13, <2>2, FlatSingles
    <2>4. FlattenSeq(put) = Replaced(f, s)
      BY <1>13, <1>14, <2>3
    <2>5. QED
      BY <1>1, <2>1, <2>4
  <1>16. CASE ~(here \/ Len(put) >= MaxLines)
    <2> DEFINE more == Append(put, <<s>>)
    <2>1. all = more /\ \A n \in 1..m : f[n].key # s.key
      BY <1>11, <1>16
    <2>2. <<s>> \in Seq(SettingSet) /\ Len(<<s>>) = 1 /\ <<s>>[1] = s
      OBVIOUS
    <2>3. /\ more \in Seq(Seq(SettingSet)) /\ Len(more) = m + 1 /\ DOMAIN more = 1..(m + 1)
          /\ \A n \in 1..m : more[n] = put[n]
          /\ more[m + 1] = <<s>>
      <3>1. more \in Seq(Seq(SettingSet)) /\ Len(more) = m + 1
            /\ (\A n \in 1..m : more[n] = put[n]) /\ more[m + 1] = <<s>>
        BY <1>13, <2>2, AppendProperties
      <3> HIDE DEF more
      <3>2. QED
        BY <3>1, LenProperties
    <2> HIDE DEF more, all
    <2>4. \A n \in 1..(m + 1) : n \in 1..m \/ n = m + 1
      BY <1>2
    <2>5. \A n \in DOMAIN more : Len(more[n]) = 1
      BY <1>13, <2>2, <2>3, <2>4
    <2>6. FlattenSeq(more) \in Seq(SettingSet) /\ FlattenSeq(more) = [n \in 1..Len(more) |-> more[n][1]]
      BY <2>3, <2>5, FlatSingles
    <2> DEFINE old == Replaced(f, s)
               new == Append(old, s)
               res == FlattenSeq(more)
    <2>7. old \in Seq(SettingSet) /\ Len(old) = m /\ \A n \in 1..m : old[n] = put[n][1]
      BY <1>2, <1>13, <1>14
    <2> HIDE DEF old
    <2>8. /\ new \in Seq(SettingSet) /\ Len(new) = m + 1 /\ (\A n \in 1..m : new[n] = old[n]) /\ new[m + 1] = s
      BY <2>7, AppendProperties
    <2>9. res \in Seq(SettingSet) /\ Len(res) = m + 1 /\ \A n \in 1..(m + 1) : res[n] = more[n][1]
      BY <1>2, <2>3, <2>6
    <2> HIDE DEF new, res
    <2>10. \A n \in 1..(m + 1) : res[n] = new[n]
      <3>1. TAKE n \in 1..(m + 1)
      <3>2. CASE n \in 1..m
        <4>1. res[n] = more[n][1] /\ more[n] = put[n]
          BY <2>3, <2>9, <3>2
        <4>2. new[n] = old[n] /\ old[n] = put[n][1]
          BY <2>7, <2>8, <3>2
        <4>3. QED
          BY <4>1, <4>2
      <3>3. CASE n = m + 1
        <4>1. res[n] = more[n][1] /\ more[n] = <<s>> /\ new[n] = s
          BY <2>3, <2>8, <2>9, <3>3
        <4>2. QED
          BY <2>2, <4>1
      <3>4. QED
        BY <2>4, <3>2, <3>3
    <2>11. res = new
      BY <2>8, <2>9, <2>10, SeqEqual
    <2>12. QED
      BY <1>1, <2>1, <2>11 DEF res, new, old, m
  <1>17. QED
    BY <1>15, <1>16

(* An undisturbed save of NSR.                                             *)
LEMMA RewrittenWhole ==
    ASSUME NEW f \in Seq(SettingSet), NEW s \in SettingSet, s.nl, s.key \in Plugins,
           SaysWanted(f), ~Disturbed(f, s)
    PROVE  /\ Whole(Rewritten(f, s))
           /\ \A p \in Plugins : Tells(Rewritten(f, s), p, IF p = s.key THEN s.val ELSE want[p])
  <1> DEFINE m == Len(f)
             old == Replaced(f, s)
             r == Rewritten(f, s)
  <1>1. /\ Plain(f) /\ Cardinality({i \in DOMAIN f : f[i].key = Other}) = appended
        /\ \A p \in Plugins : Tells(f, p, want[p])
    BY DEF SaysWanted, Whole
  <1>2. /\ ~(~Terminated(f) /\ s.key # Last(LinesOf(f))[1].key)
        /\ ~(Len(LinesOf(f)) > MaxLines)
        /\ \E i \in DOMAIN r : r[i] = s
    BY DEF Disturbed
  <1>3. m \in Nat /\ DOMAIN f = 1..m /\ \A n \in 1..m : f[n] \in SettingSet
    BY HeadsFacts
  <1>4. \/ r = old
        \/ r = Append(old, s) /\ \A n \in 1..m : f[n].key # s.key
    BY <1>1, <1>2, RewrittenPlain
  <1>5. s.key # Other
    BY ConfigAssumption
  <1> HIDE DEF r, m
  <1>6. old \in Seq(SettingSet) /\ Len(old) = m /\ \A n \in 1..m : old[n] = IF f[n].key = s.key THEN s ELSE f[n]
    BY <1>3 DEF Replaced, m
  <1>7. /\ \A n \in 1..m : old[n].key = f[n].key
        /\ \A n \in 1..m : f[n].key # s.key => old[n] = f[n]
        /\ \A n \in 1..m : f[n].key = s.key => old[n] = s
    BY <1>6
  <1>8. \A n \in 1..(m - 1) : n \in 1..m /\ f[n].nl /\ old[n].nl
    <2>1. TAKE n \in 1..(m - 1)
    <2>2. n \in 1..m /\ f[n].nl
      BY <1>1, <1>3 DEF Plain, m
    <2>3. QED
      BY <1>6, <2>2
  <1> HIDE DEF old
  <1>9. /\ r \in Seq(SettingSet) /\ (Len(r) = m \/ Len(r) = m + 1)
        /\ \A n \in 1..m : r[n] = old[n]
        /\ Len(r) = m + 1 => r[m + 1] = s /\ \A n \in 1..m : f[n].key # s.key
    <2>1. CASE r = old
      BY <1>3, <1>6, <2>1
    <2>2. CASE r = Append(old, s) /\ \A n \in 1..m : f[n].key # s.key
      BY <1>3, <1>6, <2>2, AppendProperties
    <2>3. QED
      BY <1>4, <2>1, <2>2
  <1>10. DOMAIN r = 1..Len(r) /\ \A n \in 1..Len(r) : n \in 1..m \/ (n = m + 1 /\ Len(r) = m + 1)
    BY <1>3, <1>9, LenProperties
  <1>11. Plain(r)
    <2>1. SUFFICES ASSUME NEW n \in 1..(Len(r) - 1) PROVE r[n].nl
      BY DEF Plain
    <2>2. CASE n \in 1..(m - 1)
      BY <1>8, <1>9, <2>2
    <2>3. CASE n \notin 1..(m - 1)
      <3>1. n = m /\ Len(r) = m + 1 /\ n \in 1..m
        BY <1>3, <1>9, <2>1, <2>3
      <3>2. \A k \in 1..m : f[k].key # s.key
        BY <1>9, <3>1
      <3>3. r[n] = f[m] /\ f[m].key # s.key
        BY <1>7, <1>9, <3>1, <3>2
      <3>4. m > 0 /\ f # <<>>
        BY <1>3, <3>1 DEF m
      <3>5. LinesOf(f) = [k \in 1..m |-> <<f[k]>>]
        BY <1>1, LinesPlain DEF m
      <3>6. Len(LinesOf(f)) = m
        BY <1>3, <3>5
      <3>7. Last(LinesOf(f))[1] = f[m]
        <4>1. Last(LinesOf(f)) = LinesOf(f)[m]
          BY <3>6 DEF Last
        <4>2. LinesOf(f)[m] = <<f[m]>>
          BY <3>1, <3>5
        <4>3. QED
          BY <4>1, <4>2
      <3>8. Terminated(f)
        BY <1>2, <3>3, <3>7
      <3>9. f[m].nl
        BY <3>4, <3>8 DEF Terminated, Last, m
      <3>10. QED
        BY <3>3, <3>9
    <2>4. QED
      BY <2>2, <2>3
  <1>12. {i \in DOMAIN r : r[i].key = Other} = {i \in DOMAIN f : f[i].key = Other}
    <2>1. ASSUME NEW i, i \in 1..Len(r), r[i].key = Other PROVE i \in 1..m /\ f[i].key = Other
      BY <1>5, <1>7, <1>9, <1>10, <2>1
    <2>2. ASSUME NEW i, i \in 1..m, f[i].key = Other PROVE i \in 1..Len(r) /\ r[i].key = Other
      <3>1. i \in 1..Len(r)
        BY <1>3, <1>9, <2>2
      <3>2. QED
        BY <1>7, <1>9, <2>2, <3>1
    <2>3. QED
      BY <1>3, <1>10, <2>1, <2>2
  <1>13. Whole(r)
    BY <1>1, <1>11, <1>12 DEF Whole
  <1>14. ASSUME NEW p \in Plugins PROVE Tells(r, p, IF p = s.key THEN s.val ELSE want[p])
    <2>1. CASE p = s.key
      <3>1. ASSUME NEW i \in DOMAIN r, r[i].key = p PROVE r[i].val = s.val
        BY <1>7, <1>9, <1>10, <2>1, <3>1
      <3>2. \E i \in DOMAIN r : r[i].key = p
        BY <1>2, <2>1 DEF r
      <3>3. QED
        BY <2>1, <3>1, <3>2 DEF Tells
    <2>2. CASE p # s.key
      <3>1. Tells(f, p, want[p])
        BY <1>1
      <3>2. ASSUME NEW i \in DOMAIN r, r[i].key = p PROVE r[i].val = want[p]
        <4>1. i \in 1..m /\ r[i] = f[i]
          BY <1>7, <1>9, <1>10, <2>2, <3>2
        <4>2. QED
          BY <1>3, <3>1, <3>2, <4>1 DEF Tells
      <3>3. ASSUME want[p] PROVE \E i \in DOMAIN r : r[i].key = p
        <4>1. PICK i \in 1..m : f[i].key = p
          BY <1>3, <3>1, <3>3 DEF Tells
        <4>2. i \in 1..Len(r) /\ r[i].key = p
          BY <1>3, <1>7, <1>9, <4>1
        <4>3. QED
          BY <1>10, <4>2
      <3>4. QED
        BY <2>2, <3>2, <3>3 DEF Tells
    <2>3. QED
      BY <2>1, <2>2
  <1>15. QED
    BY <1>13, <1>14 DEF r

(* An undisturbed save of nsr-plugged.                                     *)
LEMMA WriteWhole ==
    ASSUME NEW cfg, NEW s, Holds(cfg, s), Between(cfg, s), file \in Seq(SettingSet)
    PROVE  SaysWanted(write_config(file, cfg))
  <1> DEFINE f == file
             m == Len(f)
             K == {f[i].key : i \in 1..m}
             P == Put(f, cfg)
             A == SetToSeq(Added(f, cfg))
             ls == P \o A
             r == write_config(f, cfg)
  <1>1. m \in Nat /\ DOMAIN f = 1..m /\ \A n \in 1..m : f[n] \in SettingSet
    BY HeadsFacts
  <1>2. /\ Plain(f) /\ Cardinality({i \in DOMAIN f : f[i].key = Other}) = appended
        /\ \A p \in Plugins \ {s.key} : Tells(f, p, want[p])
        /\ s.key \in Plugins /\ s.val = want[s.key]
        /\ DOMAIN cfg = K \cup {s.key}
        /\ \A k \in DOMAIN cfg \ {s.key} : \E i \in 1..m : f[i].key = k /\ cfg[k] = <<f[i]>>
    BY <1>1 DEF Between, Whole
  <1>3. Heads(f) = 1..m /\ LinesOf(f) = [n \in 1..m |-> <<f[n]>>]
    BY <1>2, LinesPlain
  <1>4. s \in SettingSet /\ s.nl /\ cfg[s.key] = <<s>>
    BY DEF Holds
  <1>5. s.key # Other
    BY <1>2, ConfigAssumption
  <1> HIDE DEF m, K
  (* every line written is one setting of its key, ended *)
  <1>6. ASSUME NEW k \in DOMAIN cfg
        PROVE  /\ Ended(cfg[k]) \in Seq(SettingSet) /\ Len(Ended(cfg[k])) = 1
               /\ Ended(cfg[k])[1].key = k /\ Ended(cfg[k])[1].nl
               /\ k \in Plugins => Ended(cfg[k])[1].val = want[k]
    <2>1. cfg[k] \in LineSet /\ cfg[k][1].key = k
      BY DEF Holds
    <2>2. Len(cfg[k]) = 1 /\ (k \in Plugins => cfg[k][1].val = want[k])
      <3>1. CASE k = s.key
        BY <1>2, <1>4, <3>1, SingleLine
      <3>2. CASE k # s.key
        <4>1. PICK i \in 1..m : f[i].key = k /\ cfg[k] = <<f[i]>>
          BY <1>2, <3>2
        <4>2. Len(cfg[k]) = 1 /\ cfg[k][1] = f[i]
          BY <1>1, <4>1, SingleLine
        <4>3. k \in Plugins => f[i].val = want[k]
          BY <1>1, <1>2, <3>2, <4>1 DEF Tells
        <4>4. QED
          BY <4>2, <4>3
      <3>3. QED
        BY <3>1, <3>2
    <2>3. /\ Ended(cfg[k]) \in LineSet /\ Ended(cfg[k])[1].key = cfg[k][1].key
          /\ Ended(cfg[k])[1].val = cfg[k][1].val /\ Len(Ended(cfg[k])) = Len(cfg[k])
          /\ Ended(cfg[k])[Len(cfg[k])].nl
      BY <2>1, EndedLine
    <2>4. Ended(cfg[k]) \in Seq(SettingSet)
      BY <2>3 DEF LineSet
    <2>5. QED
      BY <2>1, <2>2, <2>3, <2>4
  <1> DEFINE W(l, k) == /\ l \in Seq(SettingSet) /\ Len(l) = 1 /\ l[1].key = k /\ l[1].nl
                        /\ k \in Plugins => l[1].val = want[k]
  <1>7. P \in Seq(Seq(SettingSet)) /\ Len(P) = m /\ \A n \in 1..m : W(P[n], f[n].key)
    <2>1. DOMAIN LinesOf(f) = 1..m /\ \A n \in 1..m : LinesOf(f)[n][1] = f[n]
      BY <1>3
    <2>2. \A n \in 1..m : f[n].key \in DOMAIN cfg
      BY <1>2 DEF K
    <2>3. P = [n \in 1..m |-> Ended(cfg[f[n].key])]
      BY <2>1, <2>2 DEF Put
    <2>4. \A n \in 1..m : W(Ended(cfg[f[n].key]), f[n].key)
      BY <1>6, <2>2
    <2> HIDE DEF P
    <2>5. \A n \in 1..m : P[n] = Ended(cfg[f[n].key])
      BY <2>3
    <2>6. \A n \in 1..m : Ended(cfg[f[n].key]) \in Seq(SettingSet)
      BY <2>4
    <2>7. P \in Seq(Seq(SettingSet)) /\ Len(P) = m
      BY <1>1, <2>3, <2>6
    <2> HIDE DEF W
    <2>8. QED
      BY <2>4, <2>5, <2>7
  <1> DEFINE a == Len(A)
  <1>8. /\ A \in Seq(Seq(SettingSet)) /\ a \in {0, 1}
        /\ a = 1 => W(A[1], s.key)
        /\ a = 0 => s.key \in K
    <2> DEFINE N == DOMAIN cfg \ {f[i].key : i \in Heads(f)}
               B == {Ended(cfg[k]) : k \in N}
    <2>1. A = SetToSeq(B)
      BY DEF Added
    <2>2. N = {s.key} \ K
      BY <1>2, <1>3 DEF K
    <2>3. CASE s.key \in K
      <3>1. B = {}
        BY <2>2, <2>3
      <3>2. IsFiniteSet(B) /\ Cardinality(B) = 0
        BY <3>1, FS_EmptySet
      <3> HIDE DEF B
      <3>3. A \in Seq(B) /\ A \in [1..0 -> B]
        BY <2>1, <3>2, SetToSeqFacts
      <3>4. A = <<>>
        BY <3>3
      <3>5. QED
        BY <2>3, <3>4
    <2>4. CASE s.key \notin K
      <3> DEFINE l == Ended(cfg[s.key])
      <3>1. B = {l}
        BY <2>2, <2>4
      <3>2. W(l, s.key)
        BY <1>2, <1>6
      <3> HIDE DEF l, B
      <3>3. IsFiniteSet({l}) /\ Cardinality({l}) = 1
        BY FS_Singleton
      <3>4. A \in Seq({l}) /\ A \in [1..1 -> {l}]
        BY <2>1, <3>1, <3>3, SetToSeqFacts
      <3> HIDE DEF A
      <3>5. Len(A) = 1 /\ A[1] = l
        BY <3>4
      <3>6. A \in Seq(Seq(SettingSet))
        <4>1. {l} \subseteq Seq(SettingSet)
          BY <3>2
        <4>2. QED
          BY <3>4, <4>1, SeqMonotonic
      <3> HIDE DEF W
      <3>7. QED
        BY <3>2, <3>5, <3>6
    <2>5. QED
      BY <2>3, <2>4
  <1> HIDE DEF P, A, W
  <1>9. /\ ls \in Seq(Seq(SettingSet)) /\ Len(ls) = m + a /\ DOMAIN ls = 1..(m + a)
        /\ \A n \in 1..m : ls[n] = P[n]
        /\ a = 1 => ls[m + 1] = A[1]
    <2>1. /\ ls \in Seq(Seq(SettingSet)) /\ Len(ls) = Len(P) + Len(A)
          /\ \A i \in 1..Len(P) + Len(A) : ls[i] = IF i <= Len(P) THEN P[i] ELSE A[i - Len(P)]
      BY <1>7, <1>8, ConcatProperties
    <2>2. DOMAIN ls = 1..Len(ls)
      BY <2>1, LenProperties
    <2> HIDE DEF ls
    <2>3. \A n \in 1..m : n \in 1..(m + a) /\ n <= m
      BY <1>1, <1>8
    <2>4. a = 1 => m + 1 \in 1..(m + a) /\ ~(m + 1 <= m) /\ m + 1 - m = 1
      BY <1>1, <1>8
    <2>5. QED
      BY <1>7, <2>1, <2>2, <2>3, <2>4
  <1>10. r = FlattenSeq(ls)
    BY WriteOwn DEF P, A
  <1> HIDE DEF ls, r
  <1>11. /\ \A n \in 1..m : W(ls[n], f[n].key)
         /\ a = 1 => W(ls[m + 1], s.key)
         /\ \A n \in 1..(m + a) : n \in 1..m \/ (n = m + 1 /\ a = 1)
    <2>1. \A n \in 1..m : W(ls[n], f[n].key)
      BY <1>7, <1>9, Zenon
    <2>2. a = 1 => W(ls[m + 1], s.key)
      BY <1>8, <1>9, Zenon
    <2> HIDE DEF a
    <2>3. \A n \in 1..(m + a) : n \in 1..m \/ (n = m + 1 /\ a = 1)
      BY <1>1, <1>8
    <2>4. QED
      BY <2>1, <2>2, <2>3
  <1>12. \A n \in DOMAIN ls : Len(ls[n]) = 1
    <2>1. TAKE n \in DOMAIN ls
    <2>2. n \in 1..m \/ (n = m + 1 /\ a = 1)
      BY <1>9, <1>11
    <2>3. QED
      BY <1>11, <2>2 DEF W
  <1>13. r \in Seq(SettingSet) /\ r = [n \in 1..(m + a) |-> ls[n][1]]
    <2>1. FlattenSeq(ls) \in Seq(SettingSet) /\ FlattenSeq(ls) = [n \in 1..Len(ls) |-> ls[n][1]]
      BY <1>9, <1>12, FlatSingles
    <2>2. QED
      BY <1>9, <1>10, <2>1
  <1> DEFINE V(e, k) == e.key = k /\ e.nl /\ (k \in Plugins => e.val = want[k])
  <1>14. /\ DOMAIN r = 1..(m + a) /\ Len(r) = m + a
         /\ \A n \in 1..m : V(r[n], f[n].key)
         /\ a = 1 => V(r[m + 1], s.key)
    <2>1. DOMAIN r = 1..(m + a) /\ \A n \in 1..(m + a) : r[n] = ls[n][1]
      BY <1>13
    <2>2. Len(r) = m + a
      BY <1>1, <1>8, <1>13, <2>1
    <2>3. \A n \in 1..m : n \in 1..(m + a)
      BY <1>1, <1>8
    <2>4. a = 1 => m + 1 \in 1..(m + a)
      BY <1>1, <1>8
    <2>5. QED
      BY <1>11, <2>1, <2>2, <2>3, <2>4 DEF W
  <1>15. Plain(r)
    <2>1. SUFFICES ASSUME NEW n \in 1..(Len(r) - 1) PROVE r[n].nl
      BY DEF Plain
    <2>2. n \in 1..(m + a)
      BY <1>1, <1>8, <1>14, <2>1
    <2>3. QED
      BY <1>11, <1>14, <2>2
  <1>16. {i \in DOMAIN r : r[i].key = Other} = {i \in DOMAIN f : f[i].key = Other}
    <2>1. ASSUME NEW i, i \in 1..(m + a), r[i].key = Other PROVE i \in 1..m /\ f[i].key = Other
      BY <1>5, <1>11, <1>14, <2>1
    <2>2. ASSUME NEW i, i \in 1..m, f[i].key = Other PROVE i \in 1..(m + a) /\ r[i].key = Other
      <3>1. i \in 1..(m + a)
        BY <1>1, <1>8, <2>2
      <3>2. QED
        BY <1>14, <2>2, <3>1
    <2>3. QED
      BY <1>1, <1>14, <2>1, <2>2
  <1>17. ASSUME NEW p \in Plugins PROVE Tells(r, p, want[p])
    <2>1. ASSUME NEW i \in DOMAIN r, r[i].key = p PROVE r[i].val = want[p]
      BY <1>11, <1>14, <2>1
    <2>2. ASSUME want[p] PROVE \E i \in DOMAIN r : r[i].key = p
      <3>1. ASSUME NEW i \in 1..m, f[i].key = p PROVE i \in DOMAIN r /\ r[i].key = p
        <4>1. i \in 1..(m + a)
          BY <1>1, <1>8
        <4>2. QED
          BY <1>14, <3>1, <4>1
      <3>2. CASE p # s.key
        <4>1. PICK i \in 1..m : f[i].key = p
          BY <1>1, <1>2, <2>2, <3>2 DEF Tells
        <4>2. QED
          BY <3>1, <4>1
      <3>3. CASE p = s.key /\ a = 0
        <4>1. PICK i \in 1..m : f[i].key = p
          BY <1>8, <3>3 DEF K
        <4>2. QED
          BY <3>1, <4>1
      <3>4. CASE p = s.key /\ a = 1
        <4>1. m + 1 \in DOMAIN r
          BY <1>1, <1>14, <3>4
        <4>2. QED
          BY <1>14, <3>4, <4>1
      <3>5. QED
        BY <1>8, <3>2, <3>3, <3>4
    <2>3. QED
      BY <2>1, <2>2 DEF Tells
  <1>18. Whole(r)
    BY <1>2, <1>15, <1>16 DEF Whole
  <1>19. QED
    BY <1>17, <1>18 DEF SaysWanted, r

-----------------------------------------------------------------------------
(* Steps.                                                                  *)

THEOREM ConfigInitial == ConfigInit => ConfigInv
  <1>1. SUFFICES ASSUME ConfigInit PROVE ConfigInv
    OBVIOUS
  <1>2. Len(Dirs) \in Nat /\ 0 \in 0..Len(Dirs)
    BY ConfigAssumption, LenProperties
  <1>3. /\ file = <<>> /\ <<>> \in Seq(SettingSet) /\ DOMAIN file = {} /\ Len(file) = 0
        /\ phase = [a \in Actors |-> "down"]
    BY <1>1 DEF ConfigInit
  <1>4. ConfigTypeOK
    <2>1. <<>> \in Seq([name : Plugins, dir : Nat, enabled : BOOLEAN])
      OBVIOUS
    <2>2. QED
      BY <1>1, <1>2, <1>3, <2>1 DEF ConfigInit, ConfigTypeOK
  <1>5. Savings
    BY <1>3 DEF Savings, Actors
  <1>6. SaysWanted(file)
    <2>1. {i \in DOMAIN file : file[i].key = Other} = {}
      BY <1>3
    <2>2. Whole(file)
      BY <1>1, <1>3, <2>1, FS_EmptySet DEF Whole, Plain, ConfigInit
    <2>3. \A p \in Plugins : Tells(file, p, want[p])
      BY <1>1, <1>3 DEF Tells, ConfigInit
    <2>4. QED
      BY <2>2, <2>3 DEF SaysWanted
  <1>7. Saving = {}
    BY <1>3 DEF Saving
  <1>8. Undisturbed
    BY <1>3, <1>6, <1>7 DEF Undisturbed, Actors
  <1>9. QED
    BY <1>4, <1>5, <1>8 DEF ConfigInv

(* Steps that leave the file, what was wanted and those who save alone.    *)
LEMMA Elsewhere ==
    ASSUME ConfigInv, ConfigTypeOK', UNCHANGED <<file, want, appended, clean>>,
           \A a \in Saving : buf'[a] = buf[a] /\ change'[a] = change[a],
           \A t \in Tools : t \in Saving => config'[t] = config[t],
           \A a \in Actors : phase'[a] = phase[a] \/ (a \notin Saving /\ phase'[a] \in {"down", "load", "up"})
    PROVE  ConfigInv'
  <1>1. Saving' = Saving
    <2>1. \A a \in Actors : a \in Saving' <=> a \in Saving
      BY DEF Saving
    <2>2. Saving \subseteq Actors /\ Saving' \subseteq Actors
      BY DEF Saving
    <2>3. QED
      BY <2>1, <2>2
  <1>2. \A a \in Actors : phase'[a] \in {"config", "read", "open"} => phase'[a] = phase[a] /\ a \in Saving
    BY DEF Saving
  <1>3. Tools \subseteq Actors
    BY DEF Actors
  <1>4. Savings'
    <2>1. ASSUME NEW a \in Actors, phase'[a] \in {"read", "open"} PROVE Own(buf'[a], change'[a])
      BY <1>2, <2>1 DEF ConfigInv, Savings
    <2>2. ASSUME NEW t \in Tools, phase'[t] = "config" PROVE Holds(config'[t], change'[t])
      BY <1>2, <1>3, <2>2 DEF ConfigInv, Savings
    <2>3. QED
      BY <2>1, <2>2 DEF Savings, Own
  <1>5. Undisturbed'
    <2>1. SUFFICES ASSUME clean
                   PROVE  /\ \A a, b \in Saving' : a = b
                          /\ Saving' = {} => SaysWanted(file)'
                          /\ \A t \in Tools : phase'[t] = "config" => Between(config[t], change[t])'
                          /\ \A a \in Actors : phase'[a] \in {"read", "open"} => SaysWanted(buf[a])'
                          /\ \A a \in Actors : phase'[a] = "open" => file' = <<>>
      BY DEF Undisturbed
    <2>2. /\ \A a, b \in Saving : a = b
          /\ Saving = {} => SaysWanted(file)
          /\ \A t \in Tools : phase[t] = "config" => Between(config[t], change[t])
          /\ \A a \in Actors : phase[a] \in {"read", "open"} => SaysWanted(buf[a])
          /\ \A a \in Actors : phase[a] = "open" => file = <<>>
      BY <2>1 DEF ConfigInv, Undisturbed
    <2>3. ASSUME NEW t \in Tools, phase'[t] = "config" PROVE Between(config[t], change[t])'
      <3>1. Between(config[t], change[t])
        BY <1>2, <1>3, <2>2, <2>3
      <3>2. config'[t] = config[t] /\ change'[t] = change[t]
        BY <1>2, <1>3, <2>3
      <3>3. QED
        BY <3>1, <3>2 DEF Between, Whole
    <2>4. ASSUME NEW a \in Actors, phase'[a] \in {"read", "open"} PROVE SaysWanted(buf[a])'
      <3>1. SaysWanted(buf[a])
        BY <1>2, <2>2, <2>4
      <3>2. buf'[a] = buf[a]
        BY <1>2, <2>4
      <3>3. QED
        BY <3>1, <3>2 DEF SaysWanted, Whole
    <2>5. Saving' = {} => SaysWanted(file)'
      BY <1>1, <2>2 DEF SaysWanted, Whole
    <2>6. QED
      BY <1>1, <1>2, <2>2, <2>3, <2>4, <2>5
  <1>6. QED
    BY <1>4, <1>5 DEF ConfigInv

(* A step in which the texts and changes of one actor at most are new.     *)
LEMMA OneSaves ==
    ASSUME ConfigInv, NEW a0 \in Actors,
           \A a \in Actors \ {a0} : phase'[a] = phase[a] /\ buf'[a] = buf[a] /\ change'[a] = change[a],
           \A t \in Tools \ {a0} : config'[t] = config[t],
           phase'[a0] \in {"read", "open"} => Own(buf'[a0], change'[a0]),
           a0 \in Tools /\ phase'[a0] = "config" => Holds(config'[a0], change'[a0])
    PROVE  Savings'
  <1>1. /\ \A a \in Actors : phase[a] \in {"read", "open"} => Own(buf[a], change[a])
        /\ \A t \in Tools : phase[t] = "config" => Holds(config[t], change[t])
        /\ Tools \subseteq Actors
    BY DEF ConfigInv, Savings, Actors
  <1>2. ASSUME NEW a \in Actors, phase'[a] \in {"read", "open"} PROVE Own(buf'[a], change'[a])
    <2>1. CASE a = a0
      BY <1>2, <2>1
    <2>2. CASE a # a0
      BY <1>1, <1>2, <2>2
    <2>3. QED
      BY <2>1, <2>2
  <1>3. ASSUME NEW t \in Tools, phase'[t] = "config" PROVE Holds(config'[t], change'[t])
    <2>1. CASE t = a0
      BY <1>3, <2>1
    <2>2. CASE t # a0
      BY <1>1, <1>3, <2>2
    <2>3. QED
      BY <2>1, <2>2
  <1>4. QED
    BY <1>2, <1>3 DEF Savings

(* A step after which nobody but one actor saves.                          *)
LEMMA OneUndisturbed ==
    ASSUME NEW a0 \in Actors,
           clean' => /\ \A a \in Actors \ {a0} : phase'[a] \notin {"config", "read", "open"}
                     /\ phase'[a0] \notin {"config", "read", "open"} => SaysWanted(file)'
                     /\ a0 \in Tools /\ phase'[a0] = "config" => Between(config[a0], change[a0])'
                     /\ phase'[a0] \in {"read", "open"} => SaysWanted(buf[a0])'
                     /\ phase'[a0] = "open" => file' = <<>>
    PROVE  Undisturbed'
  <1>1. SUFFICES ASSUME clean'
                 PROVE  /\ \A a, b \in Saving' : a = b
                        /\ Saving' = {} => SaysWanted(file)'
                        /\ \A t \in Tools : phase'[t] = "config" => Between(config[t], change[t])'
                        /\ \A a \in Actors : phase'[a] \in {"read", "open"} => SaysWanted(buf[a])'
                        /\ \A a \in Actors : phase'[a] = "open" => file' = <<>>
    BY DEF Undisturbed
  <1>2. \A a \in Actors : phase'[a] \in {"config", "read", "open"} => a = a0
    BY <1>1
  <1>3. Saving' \subseteq {a0}
    BY <1>2 DEF Saving
  <1>4. Saving' = {} => SaysWanted(file)'
    BY <1>1 DEF Saving
  <1>5. Tools \subseteq Actors
    BY DEF Actors
  <1>6. ASSUME NEW t \in Tools, phase'[t] = "config" PROVE Between(config[t], change[t])'
    <2>1. t = a0
      BY <1>2, <1>5, <1>6
    <2>2. Between(config[a0], change[a0])'
      BY <1>1, <1>6, <2>1
    <2>3. QED
      BY <2>1, <2>2
  <1>7. ASSUME NEW a \in Actors, phase'[a] \in {"read", "open"} PROVE SaysWanted(buf[a])'
    <2>1. a = a0
      BY <1>2, <1>7
    <2>2. SaysWanted(buf[a0])'
      BY <1>1, <1>7, <2>1
    <2>3. QED
      BY <2>1, <2>2
  <1>8. ASSUME NEW a \in Actors, phase'[a] = "open" PROVE file' = <<>>
    BY <1>1, <1>2, <1>8
  <1>9. QED
    BY <1>3, <1>4, <1>6, <1>7, <1>8

LEMMA StartStep == ASSUME ConfigInv, NEW h \in Hosts, Start(h) PROVE ConfigInv'
  <1>1. h \in Actors /\ Len(Dirs) \in Nat /\ 1 \in 0..Len(Dirs) /\ Dirs[1] \subseteq Plugins
    <2>1. Dirs \in Seq(SUBSET Plugins) /\ Dirs # <<>>
      BY ConfigAssumption
    <2>2. Len(Dirs) \in Nat /\ Len(Dirs) # 0
      BY <2>1, EmptySeq, LenProperties
    <2>3. 1 \in 1..Len(Dirs)
      BY <2>2
    <2>4. Dirs[1] \in SUBSET Plugins
      BY <2>1, <2>3, ElementOfSeq
    <2>5. QED
      BY <2>2, <2>3, <2>4 DEF Actors
  <1>2. <<>> \in Seq([name : Plugins, dir : Nat, enabled : BOOLEAN])
    OBVIOUS
  <1>3. ConfigTypeOK'
    BY <1>1, <1>2 DEF ConfigInv, ConfigTypeOK, Start, OpenDir
  <1>4. \A a \in Actors : phase'[a] = phase[a] \/ (a \notin Saving /\ phase'[a] \in {"down", "load", "up"})
    BY <1>1 DEF ConfigInv, ConfigTypeOK, Start, Saving
  <1>5. QED
    BY <1>3, <1>4, Elsewhere DEF Start

LEMMA LoadEntryStep == ASSUME ConfigInv, NEW h \in Hosts, NEW p \in todo[h], LoadEntry(h, p) PROVE ConfigInv'
  <1> DEFINE Entry == [name : Plugins, dir : Nat, enabled : BOOLEAN]
             new == [name |-> p, dir |-> plugin_dir[h], enabled |-> config_get_bool_default(file, p)]
  <1>1. h \in Actors /\ p \in Plugins /\ plugin_dir[h] \in Nat /\ reg[h] \in Seq(Entry)
    <2>1. Len(Dirs) \in Nat
      BY ConfigAssumption, LenProperties
    <2>2. plugin_dir[h] \in 0..Len(Dirs) /\ todo[h] \in SUBSET Plugins /\ reg[h] \in Seq(Entry)
      BY DEF ConfigInv, ConfigTypeOK
    <2>3. QED
      BY <2>1, <2>2 DEF Actors
  <1>2. config_get_bool_default(file, p) \in BOOLEAN
    <2> DEFINE at == {i \in Heads(file) : file[i].key = p}
               first == CHOOSE i \in at : \A j \in at : i <= j
    <2>1. config_get_bool_default(file, p) = (at # {} /\ file[first].val)
      BY DEF config_get_bool_default
    <2>2. QED
      BY <2>1
  <1>3. new \in Entry
    BY <1>1, <1>2
  <1> HIDE DEF new
  <1>4. Append(reg[h], new) \in Seq(Entry)
    BY <1>1, <1>3, AppendProperties
  <1>5. reg' = reg \/ reg' = [reg EXCEPT ![h] = Append(reg[h], new)]
    BY DEF LoadEntry, new
  <1>6. reg' \in [Hosts -> Seq(Entry)]
    <2>1. reg \in [Hosts -> Seq(Entry)]
      BY DEF ConfigInv, ConfigTypeOK
    <2> HIDE DEF Entry
    <2>2. QED
      BY <1>4, <1>5, <2>1
  <1>7. todo' \in [Hosts -> SUBSET Plugins]
    BY DEF LoadEntry, ConfigInv, ConfigTypeOK
  <1>8. ConfigTypeOK'
    BY <1>6, <1>7 DEF ConfigInv, ConfigTypeOK, LoadEntry
  <1>9. \A a \in Actors : phase'[a] = phase[a]
    BY DEF LoadEntry
  <1>10. QED
    BY <1>8, <1>9, Elsewhere DEF LoadEntry

LEMMA LoadNextStep == ASSUME ConfigInv, NEW h \in Hosts, LoadNext(h) PROVE ConfigInv'
  <1>1. h \in Actors /\ Len(Dirs) \in Nat /\ plugin_dir[h] \in 0..Len(Dirs) /\ \A d \in 1..Len(Dirs) : Dirs[d] \in SUBSET Plugins
    BY ConfigAssumption, LenProperties, ElementOfSeq DEF ConfigInv, ConfigTypeOK, Actors
  <1>2. ConfigTypeOK'
    <2>1. CASE plugin_dir[h] < Len(Dirs)
      <3>1. plugin_dir[h] + 1 \in 1..Len(Dirs) /\ plugin_dir[h] + 1 \in 0..Len(Dirs)
        BY <1>1, <2>1
      <3>2. Dirs[plugin_dir[h] + 1] \in SUBSET Plugins
        BY <1>1, <3>1
      <3>3. QED
        BY <2>1, <3>1, <3>2 DEF ConfigInv, ConfigTypeOK, LoadNext, OpenDir
    <2>2. CASE ~(plugin_dir[h] < Len(Dirs))
      BY <1>1, <2>2 DEF ConfigInv, ConfigTypeOK, LoadNext
    <2>3. QED
      BY <2>1, <2>2
  <1>3. \A a \in Actors : phase'[a] = phase[a] \/ (a \notin Saving /\ phase'[a] \in {"down", "load", "up"})
    BY <1>1 DEF ConfigInv, ConfigTypeOK, LoadNext, Saving
  <1>4. QED
    BY <1>2, <1>3, Elsewhere DEF LoadNext

(* Nothing is left of an actor.                                            *)
LEMMA GoneFacts ==
    ASSUME ConfigTypeOK, NEW a0 \in Actors, Gone(a0)
    PROVE  /\ phase' \in [Actors -> {"down", "load", "up", "config", "read", "open"}]
           /\ reg' \in [Hosts -> Seq([name : Plugins, dir : Nat, enabled : BOOLEAN])]
           /\ plugin_dir' \in [Hosts -> 0..Len(Dirs)] /\ todo' \in [Hosts -> SUBSET Plugins]
           /\ DOMAIN config' = Tools /\ DOMAIN change' = Actors /\ buf' \in [Actors -> Seq(SettingSet)]
           /\ phase'[a0] = "down"
           /\ \A a \in Actors \ {a0} : phase'[a] = phase[a] /\ buf'[a] = buf[a] /\ change'[a] = change[a]
           /\ \A t \in Tools \ {a0} : config'[t] = config[t]
  <1>1. Len(Dirs) \in Nat /\ 0 \in 0..Len(Dirs)
    BY ConfigAssumption, LenProperties
  <1>2. <<>> \in Seq([name : Plugins, dir : Nat, enabled : BOOLEAN]) /\ <<>> \in Seq(SettingSet)
    OBVIOUS
  <1>3. phase' \in [Actors -> {"down", "load", "up", "config", "read", "open"}] /\ phase'[a0] = "down"
    BY DEF ConfigTypeOK, Gone
  <1>4. reg' \in [Hosts -> Seq([name : Plugins, dir : Nat, enabled : BOOLEAN])]
    BY <1>2 DEF ConfigTypeOK, Gone
  <1>5. plugin_dir' \in [Hosts -> 0..Len(Dirs)] /\ todo' \in [Hosts -> SUBSET Plugins]
    BY <1>1 DEF ConfigTypeOK, Gone
  <1>6. DOMAIN config' = Tools /\ DOMAIN change' = Actors
    BY DEF ConfigTypeOK, Gone
  <1>7. buf' \in [Actors -> Seq(SettingSet)]
    BY <1>2 DEF ConfigTypeOK, Gone
  <1>8. \A a \in Actors \ {a0} : phase'[a] = phase[a] /\ buf'[a] = buf[a] /\ change'[a] = change[a]
    BY DEF ConfigTypeOK, Gone
  <1>9. \A t \in Tools \ {a0} : config'[t] = config[t]
    BY DEF Gone
  <1>10. QED
    BY <1>3, <1>4, <1>5, <1>6, <1>7, <1>8, <1>9

LEMMA QuitStep == ASSUME ConfigInv, NEW h \in Hosts, Quit(h) PROVE ConfigInv'
  <1>1. h \in Actors /\ phase[h] = "up" /\ Gone(h) /\ h \notin Saving /\ Saving \subseteq Actors
    BY DEF Quit, Actors, Saving
  <1>2. UNCHANGED <<file, want, appended, clean>>
    BY DEF Quit
  <1>3. ConfigTypeOK'
    BY <1>1, <1>2, GoneFacts DEF ConfigInv, ConfigTypeOK
  <1>4. \A a \in Actors \ {h} : phase'[a] = phase[a] /\ buf'[a] = buf[a] /\ change'[a] = change[a]
    BY <1>1, GoneFacts DEF ConfigInv
  <1>5. phase'[h] = "down" /\ \A t \in Tools \ {h} : config'[t] = config[t]
    BY <1>1, GoneFacts DEF ConfigInv
  <1>6. QED
    BY <1>1, <1>2, <1>3, <1>4, <1>5, Elsewhere

LEMMA CrashStep == ASSUME ConfigInv, NEW a0 \in Actors, Crash(a0) PROVE ConfigInv'
  <1>1. Gone(a0) /\ clean' = FALSE /\ UNCHANGED <<file, want, appended>>
    BY DEF Crash
  <1>2. ConfigTypeOK'
    BY <1>1, GoneFacts DEF ConfigInv, ConfigTypeOK
  <1>3. /\ \A a \in Actors \ {a0} : phase'[a] = phase[a] /\ buf'[a] = buf[a] /\ change'[a] = change[a]
        /\ phase'[a0] = "down" /\ \A t \in Tools \ {a0} : config'[t] = config[t]
    BY <1>1, GoneFacts DEF ConfigInv
  <1>4. Savings'
    BY <1>3, OneSaves
  <1>5. Undisturbed'
    BY <1>1 DEF Undisturbed
  <1>6. QED
    BY <1>2, <1>4, <1>5 DEF ConfigInv

LEMMA DoneFacts ==
    ASSUME ConfigTypeOK, NEW a0 \in Actors, Done(a0)
    PROVE  /\ phase' \in [Actors -> {"down", "load", "up", "config", "read", "open"}]
           /\ DOMAIN change' = Actors /\ buf' \in [Actors -> Seq(SettingSet)]
           /\ phase'[a0] \in {"up", "down"}
           /\ \A a \in Actors \ {a0} : phase'[a] = phase[a] /\ buf'[a] = buf[a] /\ change'[a] = change[a]
  <1>1. <<>> \in Seq(SettingSet)
    OBVIOUS
  <1>2. QED
    BY <1>1 DEF ConfigTypeOK, Done

LEMMA OpenFailsStep == ASSUME ConfigInv, NEW a0 \in Actors, OpenFails(a0) PROVE ConfigInv'
  <1>1. Done(a0) /\ clean' = FALSE /\ UNCHANGED <<file, reg, plugin_dir, todo, config, want, appended>>
    BY DEF OpenFails
  <1>2. ConfigTypeOK'
    BY <1>1, DoneFacts DEF ConfigInv, ConfigTypeOK
  <1>3. /\ \A a \in Actors \ {a0} : phase'[a] = phase[a] /\ buf'[a] = buf[a] /\ change'[a] = change[a]
        /\ phase'[a0] \in {"up", "down"}
    BY <1>1, DoneFacts DEF ConfigInv
  <1>4. Savings'
    BY <1>1, <1>3, OneSaves
  <1>5. Undisturbed'
    BY <1>1 DEF Undisturbed
  <1>6. QED
    BY <1>2, <1>4, <1>5 DEF ConfigInv

(* Whoever saves undisturbed is alone.                                     *)
LEMMA SavesAlone ==
    ASSUME ConfigInv, clean, NEW a0 \in Actors, phase[a0] \in {"config", "read", "open"}
    PROVE  \A a \in Actors \ {a0} : phase[a] \notin {"config", "read", "open"}
  BY DEF ConfigInv, Undisturbed, Saving

LEMMA OpenStep == ASSUME ConfigInv, NEW a0 \in Actors, OpenForWriting(a0) PROVE ConfigInv'
  <1>1. /\ phase[a0] = "read" /\ phase' = [phase EXCEPT ![a0] = "open"] /\ file' = <<>>
        /\ UNCHANGED <<reg, plugin_dir, todo, config, buf, change, want, appended, clean>>
    BY DEF OpenForWriting
  <1>2. <<>> \in Seq(SettingSet)
    OBVIOUS
  <1>3. ConfigTypeOK'
    BY <1>1, <1>2 DEF ConfigInv, ConfigTypeOK
  <1>4. phase'[a0] = "open" /\ \A a \in Actors \ {a0} : phase'[a] = phase[a]
    BY <1>1 DEF ConfigInv, ConfigTypeOK
  <1>5. Own(buf'[a0], change'[a0])
    BY <1>1 DEF ConfigInv, Savings
  <1>6. Savings'
    BY <1>1, <1>4, <1>5, OneSaves
  <1>7. clean => SaysWanted(buf[a0])'
    <2>1. clean => SaysWanted(buf[a0])
      BY <1>1 DEF ConfigInv, Undisturbed
    <2>2. QED
      BY <1>1, <2>1 DEF SaysWanted, Whole
  <1>8. Undisturbed'
    BY <1>1, <1>4, <1>7, SavesAlone, OneUndisturbed
  <1>9. QED
    BY <1>3, <1>6, <1>8 DEF ConfigInv

(* What is written over a file.                                            *)
LEMMA OverwriteFacts ==
    ASSUME NEW f \in Seq(SettingSet), NEW g \in Seq(SettingSet)
    PROVE  /\ Overwrite(f, g) \in Seq(SettingSet) /\ Len(Overwrite(f, g)) >= Len(g)
           /\ \A i \in 1..Len(g) : Overwrite(f, g)[i] = g[i]
           /\ f = <<>> => Overwrite(f, g) = g
  <1> DEFINE t == SubSeq(f, Len(g) + 1, Len(f))
  <1>1. Len(f) \in Nat /\ Len(g) \in Nat /\ \A i \in 1..Len(f) : f[i] \in SettingSet
    BY LenProperties, ElementOfSeq
  <1>2. (Len(g) + 1)..Len(f) \subseteq 1..Len(f) /\ Len(g) + 1 \in Int /\ Len(f) \in Int
    BY <1>1
  <1>3. t \in Seq(SettingSet) /\ Len(t) = IF Len(g) + 1 <= Len(f) THEN Len(f) - (Len(g) + 1) + 1 ELSE 0
    BY <1>1, <1>2, SubSeqProperties
  <1>4. Overwrite(f, g) = g \o t
    BY DEF Overwrite
  <1> HIDE DEF t
  <1>5. Len(t) \in Nat
    BY <1>3, LenProperties
  <1>6. /\ g \o t \in Seq(SettingSet) /\ Len(g \o t) = Len(g) + Len(t)
        /\ \A i \in 1..(Len(g) + Len(t)) : (g \o t)[i] = IF i <= Len(g) THEN g[i] ELSE t[i - Len(g)]
    BY <1>3, ConcatProperties
  <1>7. \A i \in 1..Len(g) : (g \o t)[i] = g[i]
    <2>1. TAKE i \in 1..Len(g)
    <2>2. i \in 1..(Len(g) + Len(t)) /\ i <= Len(g)
      BY <1>1, <1>5
    <2>3. QED
      BY <1>6, <2>2
  <1>8. f = <<>> => g \o t = g
    <2>1. SUFFICES ASSUME f = <<>> PROVE g \o t = g
      OBVIOUS
    <2>2. Len(f) = 0
      BY <2>1
    <2>3. Len(t) = 0
      BY <1>1, <1>3, <2>2
    <2>4. Len(g \o t) = Len(g)
      BY <1>1, <1>6, <2>3
    <2>5. QED
      BY <1>6, <1>7, <2>4, SeqEqual
  <1>9. QED
    BY <1>1, <1>4, <1>5, <1>6, <1>7, <1>8

LEMMA CloseStep == ASSUME ConfigInv, NEW a0 \in Actors, Close(a0) PROVE ConfigInv'
  <1>1. /\ phase[a0] = "open" /\ Done(a0) /\ file' = Overwrite(file, buf[a0])
        /\ UNCHANGED <<reg, plugin_dir, todo, config, want, appended, clean>>
    BY DEF Close
  <1>2. file \in Seq(SettingSet) /\ buf[a0] \in Seq(SettingSet)
    BY DEF ConfigInv, ConfigTypeOK
  <1>3. file' \in Seq(SettingSet) /\ (file = <<>> => file' = buf[a0])
    BY <1>1, <1>2, OverwriteFacts
  <1>4. ConfigTypeOK'
    BY <1>1, <1>3, DoneFacts DEF ConfigInv, ConfigTypeOK
  <1>5. /\ \A a \in Actors \ {a0} : phase'[a] = phase[a] /\ buf'[a] = buf[a] /\ change'[a] = change[a]
        /\ phase'[a0] \in {"up", "down"}
    BY <1>1, DoneFacts DEF ConfigInv
  <1>6. Savings'
    BY <1>1, <1>5, OneSaves
  <1>7. clean => SaysWanted(file)'
    <2>1. SUFFICES ASSUME clean PROVE SaysWanted(file)'
      OBVIOUS
    <2>2. SaysWanted(buf[a0]) /\ file = <<>>
      BY <1>1, <2>1 DEF ConfigInv, Undisturbed
    <2>3. file' = buf[a0]
      BY <1>3, <2>2
    <2>4. QED
      BY <1>1, <2>2, <2>3 DEF SaysWanted, Whole
  <1>8. Undisturbed'
    BY <1>1, <1>5, <1>7, SavesAlone, OneUndisturbed
  <1>9. QED
    BY <1>4, <1>6, <1>8 DEF ConfigInv

LEMMA ToggleStep == ASSUME ConfigInv, NEW h \in Hosts, NEW i \in DOMAIN reg[h], Toggle(h, i) PROVE ConfigInv'
  <1> DEFINE Entry == [name : Plugins, dir : Nat, enabled : BOOLEAN]
             e == reg[h][i]
             s == Setting(e.name, ~e.enabled)
             r == Rewritten(file, s)
  <1>1. /\ change' = [change EXCEPT ![h] = s] /\ buf' = [buf EXCEPT ![h] = r]
        /\ want' = [want EXCEPT ![e.name] = ~e.enabled]
        /\ clean' = (clean /\ ~Disturbed(file, s))
        /\ phase' = [phase EXCEPT ![h] = "read"]
        /\ UNCHANGED <<file, plugin_dir, todo, config, appended>>
    BY DEF Toggle
  <1>2. h \in Actors /\ reg \in [Hosts -> Seq(Entry)] /\ reg[h] \in Seq(Entry) /\ file \in Seq(SettingSet)
    BY DEF ConfigInv, ConfigTypeOK, Actors
  <1>3. e \in Entry
    BY <1>2, LenProperties, ElementOfSeq
  <1>4. e.name \in Plugins /\ e.enabled \in BOOLEAN
    BY <1>3
  <1> HIDE DEF e
  <1>5. s \in SettingSet /\ s.nl /\ s.key = e.name /\ s.val = ~e.enabled
    BY <1>4 DEF Setting, SettingSet, Keys
  <1> HIDE DEF s
  <1>6. r \in Seq(SettingSet) /\ Own(r, s)
    BY <1>2, <1>5, RewrittenOwn
  <1> HIDE DEF r
  <1>7. reg' \in [Hosts -> Seq(Entry)]
    <2>1. reg' = [reg EXCEPT ![h] = [reg[h] EXCEPT ![i] = [reg[h][i] EXCEPT !.enabled = ~reg[h][i].enabled]]]
      BY DEF Toggle
    <2> DEFINE x == [reg[h][i] EXCEPT !.enabled = ~reg[h][i].enabled]
    <2>2. x \in Entry
      BY <1>3 DEF e
    <2> HIDE DEF x, Entry
    <2>3. i \in 1..Len(reg[h])
      BY <1>2, LenProperties
    <2>4. [reg[h] EXCEPT ![i] = x] \in Seq(Entry)
      BY <1>2, <2>2, <2>3, ExceptSeq
    <2>5. QED
      BY <1>2, <2>1, <2>4 DEF x
  <1>8. clean' \in BOOLEAN
    BY <1>1
  <1>9. want' \in [Plugins -> BOOLEAN] /\ \A p \in Plugins : want'[p] = IF p = s.key THEN s.val ELSE want[p]
    BY <1>1, <1>4, <1>5 DEF ConfigInv, ConfigTypeOK
  <1>10. ConfigTypeOK'
    BY <1>1, <1>2, <1>6, <1>7, <1>8, <1>9 DEF ConfigInv, ConfigTypeOK
  <1>11. /\ \A a \in Actors \ {h} : phase'[a] = phase[a] /\ buf'[a] = buf[a] /\ change'[a] = change[a]
         /\ phase'[h] = "read" /\ buf'[h] = r /\ change'[h] = s
    BY <1>1, <1>2 DEF ConfigInv, ConfigTypeOK
  <1>12. Savings'
    BY <1>1, <1>2, <1>6, <1>11, OneSaves
  <1>13. ASSUME clean' PROVE SaysWanted(buf[h])' /\ \A a \in Actors \ {h} : phase'[a] \notin {"config", "read", "open"}
    <2>1. clean /\ ~Disturbed(file, s)
      BY <1>1, <1>13
    <2>2. Saving = {}
      BY <2>1 DEF Disturbed
    <2>3. SaysWanted(file)
      BY <2>1, <2>2 DEF ConfigInv, Undisturbed
    <2>4. Whole(r) /\ \A p \in Plugins : Tells(r, p, IF p = s.key THEN s.val ELSE want[p])
      BY <1>2, <1>4, <1>5, <2>1, <2>3, RewrittenWhole DEF r
    <2>5. \A p \in Plugins : Tells(r, p, want'[p])
      BY <1>9, <2>4
    <2>6. SaysWanted(buf[h])'
      BY <1>1, <1>11, <2>4, <2>5 DEF SaysWanted, Whole
    <2>7. \A a \in Actors \ {h} : phase'[a] \notin {"config", "read", "open"}
      BY <1>11, <2>2 DEF Saving
    <2>8. QED
      BY <2>6, <2>7
  <1>14. Undisturbed'
    BY <1>2, <1>11, <1>13, OneUndisturbed
  <1>15. QED
    BY <1>10, <1>12, <1>14 DEF ConfigInv

LEMMA ToolReadsStep ==
    ASSUME ConfigInv, NEW t \in Tools, NEW p \in Plugins, NEW v \in BOOLEAN, ToolReads(t, p, v)
    PROVE  ConfigInv'
  <1> DEFINE s == Setting(p, v)
             old == read_config(file)
             c == Changed(old, s)
  <1>1. s \in SettingSet /\ s.nl /\ s.key = p /\ s.val = v
    BY DEF Setting, SettingSet, Keys
  <1>2. /\ config' = [config EXCEPT ![t] = c] /\ change' = [change EXCEPT ![t] = s]
        /\ want' = [want EXCEPT ![p] = v] /\ clean' = (clean /\ Saving = {})
        /\ phase' = [phase EXCEPT ![t] = "config"]
        /\ UNCHANGED <<file, reg, plugin_dir, todo, buf, appended>>
    BY DEF ToolReads, Changed, Setting
  <1>3. t \in Actors /\ file \in Seq(SettingSet)
    BY DEF ConfigInv, ConfigTypeOK, Actors
  <1> HIDE DEF s
  <1>4. Holds(c, s)
    BY <1>1, <1>3, ReadHolds
  <1> HIDE DEF c
  <1>5. clean' \in BOOLEAN
    BY <1>2
  <1>6. want' \in [Plugins -> BOOLEAN] /\ \A q \in Plugins : want'[q] = IF q = p THEN v ELSE want[q]
    BY <1>2 DEF ConfigInv, ConfigTypeOK
  <1>7. ConfigTypeOK'
    BY <1>2, <1>3, <1>5, <1>6 DEF ConfigInv, ConfigTypeOK
  <1>8. /\ \A a \in Actors \ {t} : phase'[a] = phase[a] /\ buf'[a] = buf[a] /\ change'[a] = change[a]
        /\ phase'[t] = "config" /\ change'[t] = s /\ config'[t] = c
        /\ \A u \in Tools \ {t} : config'[u] = config[u]
    BY <1>2, <1>3 DEF ConfigInv, ConfigTypeOK
  <1>9. Savings'
    BY <1>3, <1>4, <1>8, OneSaves
  <1>10. ASSUME clean' PROVE Between(config[t], change[t])' /\ \A a \in Actors \ {t} : phase'[a] \notin {"config", "read", "open"}
    <2>1. clean /\ Saving = {}
      BY <1>2, <1>10
    <2>2. Whole(file) /\ \A q \in Plugins : Tells(file, q, want[q])
      BY <2>1 DEF ConfigInv, Undisturbed, SaysWanted
    <2>3. Plain(file) /\ Heads(file) = DOMAIN file /\ DOMAIN file = 1..Len(file)
      BY <1>3, <2>2, LinesPlain, HeadsFacts DEF Whole
    <2>4. DOMAIN old = {file[i].key : i \in DOMAIN file}
      BY <1>3, <2>3, ReadFacts
    <2>5. ASSUME NEW k \in DOMAIN old PROVE \E i \in DOMAIN file : file[i].key = k /\ old[k] = <<file[i]>>
      <3>1. PICK i \in Heads(file) : file[i].key = k /\ old[k] = LineAt(file, i)
        BY <1>3, <2>5, ReadFacts
      <3>2. i \in 1..Len(file) /\ LineAt(file, i) = <<file[i]>>
        BY <1>3, <2>3, LineAtPlain
      <3>3. QED
        BY <2>3, <3>1, <3>2
    <2>6. DOMAIN c = DOMAIN old \cup {p} /\ \A k \in DOMAIN c \ {p} : k \in DOMAIN old /\ c[k] = old[k]
      BY <1>1 DEF c, Changed
    <2>7. \A q \in Plugins \ {p} : Tells(file, q, want'[q])
      BY <1>6, <2>2
    <2>8. v = want'[p]
      BY <1>6
    <2> HIDE DEF old
    <2>9. Between(config[t], change[t])'
      <3>1. DOMAIN c = {file[i].key : i \in DOMAIN file} \cup {p}
        BY <2>4, <2>6
      <3>2. \A k \in DOMAIN c \ {p} : \E i \in DOMAIN file : file[i].key = k /\ c[k] = <<file[i]>>
        BY <2>5, <2>6
      <3>3. Whole(file)'
        BY <1>2, <2>2 DEF Whole
      <3>4. QED
        BY <1>1, <1>2, <1>8, <2>7, <2>8, <3>1, <3>2, <3>3 DEF Between
    <2>10. QED
      BY <1>8, <2>1, <2>9 DEF Saving
  <1>11. Undisturbed'
    BY <1>3, <1>8, <1>10, OneUndisturbed
  <1>12. QED
    BY <1>7, <1>9, <1>11 DEF ConfigInv

LEMMA ToolRereadsStep == ASSUME ConfigInv, NEW t \in Tools, ToolRereads(t) PROVE ConfigInv'
  <1> DEFINE r == write_config(file, config[t])
             c == config[t]
             s == change[t]
  <1>1. /\ phase[t] = "config" /\ buf' = [buf EXCEPT ![t] = r] /\ config' = [config EXCEPT ![t] = <<>>]
        /\ clean' = (clean /\ Saving = {t}) /\ phase' = [phase EXCEPT ![t] = "read"]
        /\ UNCHANGED <<file, reg, plugin_dir, todo, change, want, appended>>
    BY DEF ToolRereads
  <1>2. t \in Actors /\ file \in Seq(SettingSet)
    BY DEF ConfigInv, ConfigTypeOK, Actors
  <1>3. Holds(c, s)
    BY <1>1 DEF ConfigInv, Savings
  <1>4. r \in Seq(SettingSet) /\ Own(r, s)
    BY <1>2, <1>3, WriteOwn
  <1>5. clean' \in BOOLEAN
    BY <1>1
  <1>6. clean => Between(c, s)
    BY <1>1 DEF ConfigInv, Undisturbed
  <1>7. clean => SaysWanted(r)
    BY <1>2, <1>3, <1>6, WriteWhole
  <1> HIDE DEF r, c, s
  <1>8. ConfigTypeOK'
    BY <1>1, <1>2, <1>4, <1>5 DEF ConfigInv, ConfigTypeOK
  <1>9. /\ \A a \in Actors \ {t} : phase'[a] = phase[a] /\ buf'[a] = buf[a] /\ change'[a] = change[a]
        /\ phase'[t] = "read" /\ change'[t] = s /\ buf'[t] = r
        /\ \A u \in Tools \ {t} : config'[u] = config[u]
    BY <1>1, <1>2 DEF ConfigInv, ConfigTypeOK, s
  <1>10. Savings'
    BY <1>2, <1>4, <1>9, OneSaves
  <1>11. ASSUME clean' PROVE SaysWanted(buf[t])' /\ \A a \in Actors \ {t} : phase'[a] \notin {"config", "read", "open"}
    <2>1. clean /\ SaysWanted(r)
      BY <1>1, <1>7, <1>11
    <2>2. SaysWanted(buf[t])'
      BY <1>1, <1>9, <2>1 DEF SaysWanted, Whole
    <2>3. QED
      BY <1>1, <1>2, <1>9, <2>1, <2>2, SavesAlone
  <1>12. Undisturbed'
    BY <1>2, <1>9, <1>11, OneUndisturbed
  <1>13. QED
    BY <1>8, <1>10, <1>12 DEF ConfigInv

(* A step of the user.                                                     *)
LEMMA ByUser ==
    ASSUME ConfigInv, UNCHANGED procVars, UNCHANGED want, file' \in Seq(SettingSet), appended' \in Nat,
           clean' \in BOOLEAN, clean' => Saving = {} /\ SaysWanted(file)'
    PROVE  ConfigInv'
  <1>1. UNCHANGED <<phase, reg, plugin_dir, todo, config, buf, change>>
    BY DEF procVars
  <1>2. ConfigTypeOK'
    BY <1>1 DEF ConfigInv, ConfigTypeOK
  <1>3. Savings'
    BY <1>1 DEF ConfigInv, Savings, Own
  <1>4. Saving' = Saving
    BY <1>1 DEF Saving
  <1>5. Tools \subseteq Actors
    BY DEF Actors
  <1>6. clean' => \A a \in Actors : phase'[a] \notin {"config", "read", "open"}
    BY <1>4 DEF Saving
  <1>7. Undisturbed'
    BY <1>4, <1>5, <1>6 DEF Undisturbed
  <1>8. QED
    BY <1>2, <1>3, <1>7 DEF ConfigInv

\* The arithmetic of a position before the last one.
LEMMA BeforeLast == ASSUME NEW m \in Nat, NEW i \in 1..(m - 1)
                    PROVE  i \in 1..m /\ i # m
  OBVIOUS

LEMMA LastOrBefore == ASSUME NEW m \in Nat, NEW i \in 1..m
                      PROVE  i \in 1..(m - 1) \/ i = m
  OBVIOUS

LEMMA UserAppendsStep == ASSUME ConfigInv, UserAppends PROVE ConfigInv'
  <1> DEFINE s == Setting(Other, TRUE)
             f == file
             m == Len(file)
             g == Append(file, s)
  <1>1. /\ appended' = appended + 1 /\ file' = g /\ clean' = (clean /\ Saving = {} /\ Terminated(file))
        /\ UNCHANGED procVars /\ UNCHANGED want
    BY DEF UserAppends
  <1>2. s \in SettingSet /\ s.nl /\ s.key = Other
    BY DEF Setting, SettingSet, Keys
  <1>3. f \in Seq(SettingSet) /\ m \in Nat /\ DOMAIN f = 1..m /\ IsFiniteSet(1..m) /\ appended \in Nat
    BY HeadsFacts DEF ConfigInv, ConfigTypeOK
  <1> HIDE DEF s
  <1>4. /\ g \in Seq(SettingSet) /\ Len(g) = m + 1 /\ DOMAIN g = 1..(m + 1)
        /\ (\A i \in 1..m : g[i] = f[i]) /\ g[m + 1] = s
    <2>1. g \in Seq(SettingSet) /\ Len(g) = m + 1 /\ (\A i \in 1..m : g[i] = f[i]) /\ g[m + 1] = s
      BY <1>2, <1>3, AppendProperties
    <2> HIDE DEF g
    <2>2. QED
      BY <2>1, LenProperties
  <1> HIDE DEF g
  <1>5. ASSUME clean' PROVE Saving = {} /\ SaysWanted(file)'
    <2>1. clean /\ Saving = {} /\ Terminated(f)
      BY <1>1, <1>5
    <2>2. Plain(f) /\ Cardinality({i \in DOMAIN f : f[i].key = Other}) = appended
          /\ \A p \in Plugins : Tells(f, p, want[p])
      BY <2>1 DEF ConfigInv, Undisturbed, SaysWanted, Whole
    <2>3. \A i \in 1..(m + 1) : i \in 1..m \/ i = m + 1
      BY <1>3
    <2>4. Plain(g)
      <3>1. SUFFICES ASSUME NEW i \in 1..(Len(g) - 1) PROVE g[i].nl
        BY DEF Plain
      <3>2. i \in 1..m /\ g[i] = f[i]
        BY <1>3, <1>4, <3>1
      <3>3. CASE i \in 1..(m - 1)
        BY <2>2, <3>2, <3>3 DEF Plain
      <3>4. CASE i = m
        <4>1. f # <<>>
          BY <1>3, <3>2
        <4>2. QED
          BY <2>1, <3>2, <3>4, <4>1 DEF Terminated, Last
      <3>5. i \in 1..(m - 1) \/ i = m
        BY <1>3, <3>2, LastOrBefore
      <3>6. QED
        BY <3>3, <3>4, <3>5
    <2>5. Cardinality({i \in DOMAIN g : g[i].key = Other}) = appended + 1
      <3> DEFINE O == {i \in DOMAIN f : f[i].key = Other}
      <3>1. {i \in DOMAIN g : g[i].key = Other} = O \cup {m + 1}
        <4>1. ASSUME NEW i, i \in 1..(m + 1), g[i].key = Other PROVE i \in O \cup {m + 1}
          BY <1>3, <1>4, <2>3, <4>1
        <4>2. ASSUME NEW i, i \in O \cup {m + 1} PROVE i \in 1..(m + 1) /\ g[i].key = Other
          BY <1>2, <1>3, <1>4, <4>2
        <4>3. QED
          BY <1>4, <4>1, <4>2
      <3>2. O \subseteq 1..m /\ m + 1 \notin O
        BY <1>3
      <3> HIDE DEF O
      <3>3. IsFiniteSet(O)
        BY <1>3, <3>2, FS_Subset
      <3>4. Cardinality(O \cup {m + 1}) = Cardinality(O) + 1
        BY <3>2, <3>3, FS_AddElement
      <3>5. QED
        BY <2>2, <3>1, <3>4 DEF O
    <2>6. ASSUME NEW p \in Plugins PROVE Tells(g, p, want[p])
      <3>1. Tells(f, p, want[p]) /\ p # Other
        BY <2>2, ConfigAssumption
      <3>2. ASSUME NEW i \in DOMAIN g, g[i].key = p PROVE i \in DOMAIN f /\ g[i] = f[i]
        BY <1>2, <1>3, <1>4, <2>3, <3>1, <3>2
      <3>3. ASSUME NEW i \in DOMAIN f PROVE i \in DOMAIN g /\ g[i] = f[i]
        BY <1>3, <1>4
      <3>4. QED
        BY <3>1, <3>2, <3>3 DEF Tells
    <2>7. QED
      BY <1>1, <2>1, <2>4, <2>5, <2>6 DEF SaysWanted, Whole
  <1>6. clean' \in BOOLEAN /\ appended' \in Nat /\ file' \in Seq(SettingSet)
    BY <1>1, <1>3, <1>4
  <1>7. QED
    BY <1>1, <1>5, <1>6, ByUser

LEMMA UserEditsStep == ASSUME ConfigInv, UserEdits PROVE ConfigInv'
  <1> DEFINE f == file
             m == Len(file)
             e == [file[m] EXCEPT !.nl = FALSE]
             g == [file EXCEPT ![m] = e]
  <1>1. /\ file # <<>> /\ file' = g /\ clean' = (clean /\ Saving = {})
        /\ UNCHANGED procVars /\ UNCHANGED <<want, appended>>
    BY DEF UserEdits
  <1>2. f \in Seq(SettingSet) /\ m \in Nat /\ DOMAIN f = 1..m /\ appended \in Nat
        /\ \A i \in 1..m : f[i] \in SettingSet
    BY HeadsFacts DEF ConfigInv, ConfigTypeOK
  <1>3. m \in 1..m
    BY <1>1, <1>2, EmptySeq
  <1>4. e \in SettingSet /\ e.key = f[m].key /\ e.val = f[m].val
    BY <1>2, <1>3 DEF SettingSet
  <1> HIDE DEF e
  <1>5. /\ g \in Seq(SettingSet) /\ Len(g) = m
        /\ \A i \in 1..m : g[i] = IF i = m THEN e ELSE f[i]
    BY <1>2, <1>3, <1>4, ExceptSeq
  <1>6. DOMAIN g = 1..m /\ \A i \in 1..m : g[i].key = f[i].key /\ g[i].val = f[i].val
    BY <1>2, <1>4, <1>5
  <1> HIDE DEF g
  <1>7. ASSUME clean' PROVE Saving = {} /\ SaysWanted(file)'
    <2>1. clean /\ Saving = {}
      BY <1>1, <1>7
    <2>2. Plain(f) /\ Cardinality({i \in DOMAIN f : f[i].key = Other}) = appended
          /\ \A p \in Plugins : Tells(f, p, want[p])
      BY <2>1 DEF ConfigInv, Undisturbed, SaysWanted, Whole
    <2>3. Plain(g)
      <3>1. SUFFICES ASSUME NEW i \in 1..(m - 1) PROVE g[i].nl
        BY <1>5 DEF Plain
      <3>2. i \in 1..m /\ i # m
        BY <1>2, BeforeLast
      <3>3. f[i].nl
        BY <2>2 DEF Plain
      <3>4. QED
        BY <1>5, <3>2, <3>3
    <2>4. {i \in DOMAIN g : g[i].key = Other} = {i \in DOMAIN f : f[i].key = Other}
      BY <1>2, <1>6
    <2>5. \A p \in Plugins : Tells(g, p, want[p])
      BY <1>2, <1>6, <2>2 DEF Tells
    <2>6. QED
      BY <1>1, <2>1, <2>2, <2>3, <2>4, <2>5 DEF SaysWanted, Whole
  <1>8. clean' \in BOOLEAN /\ appended' \in Nat /\ file' \in Seq(SettingSet)
    BY <1>1, <1>2, <1>5
  <1>9. QED
    BY <1>1, <1>7, <1>8, ByUser

LEMMA ConfigStutter == ASSUME ConfigInv, UNCHANGED configVars PROVE ConfigInv'
  <1>1. UNCHANGED <<file, phase, reg, plugin_dir, todo, config, buf, change, want, appended, clean>>
    BY DEF configVars, procVars
  <1>2. ConfigTypeOK'
    BY <1>1 DEF ConfigInv, ConfigTypeOK
  <1>3. QED
    BY <1>1, <1>2, Elsewhere

LEMMA ConfigStep == ASSUME ConfigInv, [ConfigNext]_configVars PROVE ConfigInv'
  <1>1. CASE \E h \in Hosts : HostStep(h)
    <2>1. PICK h \in Hosts : HostStep(h)
      BY <1>1
    <2>2. QED
      BY <2>1, StartStep, LoadNextStep, QuitStep, LoadEntryStep, ToggleStep DEF HostStep
  <1>2. CASE \E t \in Tools : ToolStep(t)
    <2>1. PICK t \in Tools : ToolStep(t)
      BY <1>2
    <2>2. QED
      BY <2>1, ToolReadsStep, ToolRereadsStep DEF ToolStep
  <1>3. CASE \E a \in Actors : OpenForWriting(a) \/ OpenFails(a) \/ Close(a) \/ Crash(a)
    BY <1>3, OpenStep, OpenFailsStep, CloseStep, CrashStep
  <1>4. CASE UserAppends \/ UserEdits
    BY <1>4, UserAppendsStep, UserEditsStep
  <1>5. CASE UNCHANGED configVars
    BY <1>5, ConfigStutter
  <1>6. QED
    BY <1>1, <1>2, <1>3, <1>4, <1>5 DEF ConfigNext

(* The invariant behind the two properties of the configuration file.      *)
THEOREM ConfigInvariant == ConfigSpec => []ConfigInv
  <1>1. ConfigInit => ConfigInv
    BY ConfigInitial
  <1>2. ConfigInv /\ [ConfigNext]_configVars => ConfigInv'
    BY ConfigStep
  <1>3. QED
    BY <1>1, <1>2, PTL DEF ConfigSpec

(* Settings persist: however many plugins, processes and lines there are,  *)
(* as long as no save was disturbed, the file says of every plugin what it *)
(* was last switched to, and has all the lines the user added.             *)
THEOREM SettingsPersist == ConfigSpec => []Persisted
  <1>1. ConfigInv => Persisted
    <2>1. SUFFICES ASSUME ConfigInv, clean, Saving = {}
                   PROVE  /\ \A p \in Plugins : Enabled(p) = want[p] /\ Active(p) = want[p]
                          /\ Cardinality({i \in Heads(file) : file[i].key = Other}) = appended
      BY DEF Persisted
    <2>2. /\ Plain(file) /\ Cardinality({i \in DOMAIN file : file[i].key = Other}) = appended
          /\ \A p \in Plugins : Tells(file, p, want[p])
      BY <2>1 DEF ConfigInv, Undisturbed, SaysWanted, Whole
    <2>3. file \in Seq(SettingSet) /\ want \in [Plugins -> BOOLEAN]
      BY <2>1 DEF ConfigInv, ConfigTypeOK
    <2>4. Heads(file) = DOMAIN file
      BY <2>2, <2>3, LinesPlain, HeadsFacts
    <2>5. \A p \in Plugins : Enabled(p) = want[p] /\ Active(p) = want[p]
      BY <2>2, <2>3, PlainReads DEF Enabled, Active
    <2>6. QED
      BY <2>2, <2>4, <2>5
  <1>2. QED
    BY <1>1, ConfigInvariant, PTL

(* A save has its effect: whoever closes the file last has his change in   *)
(* it, in whatever state, lines run together included, other saves have    *)
(* left it.                                                                *)
THEOREM SavesAreEffective == ConfigSpec => SaveEffective
  <1> DEFINE Effect == \A a \in Actors :
                          Close(a) /\ (\E i \in Heads(buf[a]) : buf[a][i] = change[a])
                              => config_get_bool_default(file', change[a].key) = change[a].val
  <1>1. ConfigInv => Effect
    <2>1. SUFFICES ASSUME ConfigInv, NEW a \in Actors, Close(a),
                          NEW i0 \in Heads(buf[a]), buf[a][i0] = change[a]
                   PROVE  config_get_bool_default(file', change[a].key) = change[a].val
      OBVIOUS
    <2> DEFINE b == buf[a]
               s == change[a]
               f == file'
               at == {i \in Heads(f) : f[i].key = s.key}
               first == CHOOSE i \in at : \A j \in at : i <= j
    <2>2. file \in Seq(SettingSet) /\ b \in Seq(SettingSet) /\ Own(b, s)
      BY <2>1 DEF ConfigInv, ConfigTypeOK, Savings, Close
    <2>3. f = Overwrite(file, b)
      BY <2>1 DEF Close
    <2>4. f \in Seq(SettingSet) /\ Len(f) >= Len(b) /\ \A i \in 1..Len(b) : f[i] = b[i]
      BY <2>2, <2>3, OverwriteFacts
    <2>5. /\ Len(f) \in Nat /\ DOMAIN f = 1..Len(f) /\ Heads(f) \subseteq 1..Len(f)
          /\ Len(b) \in Nat /\ DOMAIN b = 1..Len(b) /\ Heads(b) \subseteq 1..Len(b)
      BY <2>2, <2>4, HeadsFacts
    <2>6. \A i \in 1..Len(b) : i \in Heads(f) <=> i \in Heads(b)
      <3>1. TAKE i \in 1..Len(b)
      <3>2. i \in DOMAIN f /\ i \in DOMAIN b
        BY <2>4, <2>5
      <3>3. CASE i = 1
        BY <3>2, <3>3 DEF Heads
      <3>4. CASE i # 1
        <4>1. i - 1 \in 1..Len(b)
          BY <2>5, <3>4
        <4>2. f[i - 1] = b[i - 1]
          BY <2>4, <4>1
        <4>3. QED
          BY <3>2, <3>4, <4>2 DEF Heads
      <3>5. QED
        BY <3>3, <3>4
    <2> HIDE DEF f, b, s
    <2>7. i0 \in 1..Len(b) /\ b[i0] = s /\ i0 \in at
      BY <2>1, <2>4, <2>5, <2>6 DEF b, s
    <2>8. at \subseteq Nat /\ at # {}
      BY <2>5, <2>7
    <2>9. first \in at /\ \A j \in at : first <= j
      <3> HIDE DEF at
      <3>1. \E i \in at : \A j \in at : i <= j
        BY <2>8, NatSetLeast
      <3>2. QED
        BY <3>1
    <2>10. first \in 1..Len(b)
      <3>1. first <= i0 /\ first \in 1..Len(f)
        BY <2>5, <2>7, <2>9
      <3> HIDE DEF first
      <3>2. QED
        BY <2>5, <2>7, <3>1
    <2>11. f[first] = s
      <3>1. first \in Heads(b) /\ f[first] = b[first] /\ f[first].key = s.key
        BY <2>4, <2>6, <2>9, <2>10
      <3> HIDE DEF first
      <3>2. QED
        BY <2>2, <3>1 DEF Own
    <2>12. config_get_bool_default(f, s.key) = (at # {} /\ f[first].val)
      BY DEF config_get_bool_default
    <2>13. s.val \in BOOLEAN
      <3>1. b[i0] \in SettingSet
        BY <2>2, <2>7, HeadsFacts
      <3>2. QED
        BY <2>7, <3>1 DEF SettingSet
    <2> HIDE DEF at, first
    <2>14. config_get_bool_default(f, s.key) = s.val
      BY <2>8, <2>11, <2>12, <2>13
    <2>15. QED
      BY <2>14 DEF f, s
  <1>2. ConfigInv /\ [ConfigNext]_configVars => [Effect]_configVars
    BY <1>1
  <1>3. SaveEffective <=> [][Effect]_configVars
    BY PTL DEF SaveEffective
  <1> HIDE DEF Effect
  <1>4. QED
    BY <1>2, <1>3, ConfigInvariant, PTL DEF ConfigSpec

-----------------------------------------------------------------------------
(***************************************************************************)
(* The JSON writer, for every first capacity, every text and every order   *)
(* of calls: FitsBuffer.                                                   *)
(*                                                                         *)
(* The loop of jb_grow is bounded because its value exceeds the number of  *)
(* rounds until it is large enough (GrowFits); the loop over a string      *)
(* keeps the buffer a fitting one because every single append does.        *)
(***************************************************************************)


\* buffers with a text that fits, and with any
AnyBuffer == [buf : Seq(Char), cap : Nat]
Fitting   == {b \in AnyBuffer : Len(b.buf) < b.cap}

(* The new capacity exceeds what is there and what is needed.              *)
LEMMA GrowFits ==
    ASSUME NEW cap \in Nat, NEW len \in Nat, NEW need \in Nat
    PROVE  jb_grow(cap, len, need) \in Nat /\ jb_grow(cap, len, need) >= len + need
                                           /\ jb_grow(cap, len, need) > 0
  <1> DEFINE m == len + need
             first == IF cap = 0 THEN FirstCap ELSE 2 * cap
             Step(c) == IF c < m THEN 2 * c ELSE c
             Solves(u) == u = [k \in 0..m |-> IF k = 0 THEN first ELSE LET c == u[k - 1] IN IF c < m THEN 2 * c ELSE c]
             U == CHOOSE u : Solves(u)
             F == [k \in 1..m |-> [c \in Nat |-> Step(c)]]
  <1>1. m \in Nat /\ first \in Nat /\ first > 0
    <2>1. FirstCap \in Nat \ {0}
      BY WriterAssumption, Zenon
    <2>2. QED
      BY <2>1
  <1>2. CASE m < cap
    BY <1>1, <1>2 DEF jb_grow
  <1>3. CASE ~(m < cap)
    <2>1. jb_grow(cap, len, need) = U[m]
      BY <1>3 DEF jb_grow
    <2>2. \A c \in Nat : Step(c) \in Nat
      BY <1>1
    <2> HIDE DEF m, first, Step
    <2>3. F \in FiniteSteps(m, Nat) /\ \A k \in 1..m : \A c \in Nat : F[k][c] = Step(c)
      BY <2>2 DEF FiniteSteps
    <2> HIDE DEF F
    <2>4. PICK h : h \in FiniteIterates(m, Nat, first, F)
      BY <1>1, <2>3, FiniteRecursion
    <2>5. h \in [0..m -> Nat] /\ h[0] = first /\ \A k \in 1..m : h[k] = F[k][h[k - 1]]
      BY <2>4 DEF FiniteIterates
    <2>6. \A k \in 1..m : k - 1 \in 0..m /\ h[k] = Step(h[k - 1])
      BY <1>1, <2>3, <2>5
    <2>7. Solves(h)
      BY <1>1, <2>5, <2>6 DEF Step
    <2>8. Solves(U)
      <3> HIDE DEF Solves
      <3>1. QED
        BY <2>7
    <2> HIDE DEF U
    <2>9. U[0] = first /\ \A k \in 1..m : U[k] = Step(U[k - 1])
      BY <1>1, <2>8 DEF Step
    <2> DEFINE E == {k \in 0..m : U[k] \in Nat /\ U[k] > 0 /\ (U[k] >= m \/ U[k] > k)}
    <2>10. 0 \in E
      BY <1>1, <2>9
    <2>11. \A k \in 0..(m - 1) : k \in E => k + 1 \in E
      <3>1. SUFFICES ASSUME NEW k \in 0..(m - 1), U[k] \in Nat, U[k] > 0, U[k] >= m \/ U[k] > k PROVE k + 1 \in E
        OBVIOUS
      <3>2. k + 1 \in 1..m /\ k + 1 \in 0..m /\ (k + 1) - 1 = k
        BY <1>1
      <3>3. U[k + 1] = Step(U[k])
        BY <2>9, <3>2
      <3> DEFINE c == U[k]
      <3>4. c \in Nat /\ c > 0 /\ (c >= m \/ c > k) /\ k \in Nat
        BY <1>1, <3>1
      <3> HIDE DEF c
      <3>5. Step(c) \in Nat /\ Step(c) > 0 /\ (Step(c) >= m \/ Step(c) > k + 1)
        BY <1>1, <3>4 DEF Step
      <3>6. QED
        BY <3>2, <3>3, <3>5 DEF c
    <2>12. 0..m \subseteq E
      <3> HIDE DEF E
      <3>1. QED
        BY <1>1, <2>10, <2>11, IntervalInduction
    <2>13. U[m] \in Nat /\ U[m] > 0 /\ U[m] >= m
      BY <1>1, <2>12
    <2>14. QED
      BY <2>1, <2>13 DEF m
  <1>4. QED
    BY <1>2, <1>3

(* Whatever is appended fits.                                              *)
LEMMA AppendFits ==
    ASSUME NEW b \in AnyBuffer, NEW s \in Seq(Char)
    PROVE  jb_append(b, s) \in Fitting
  <1> DEFINE l == Len(b.buf)
             n == Len(s)
             g == jb_grow(b.cap, l, n + 1)
  <1>1. b.buf \in Seq(Char) /\ b.cap \in Nat /\ l \in Nat /\ n \in Nat
    BY LenProperties DEF AnyBuffer
  <1>2. b.buf \o s \in Seq(Char) /\ Len(b.buf \o s) = l + n
    BY <1>1, ConcatProperties
  <1>3. g \in Nat /\ g >= l + (n + 1)
    <2>1. n + 1 \in Nat
      BY <1>1
    <2> HIDE DEF l, n
    <2>2. QED
      BY <1>1, <2>1, GrowFits
  <1>4. jb_append(b, s) = [buf |-> b.buf \o s, cap |-> g]
    BY DEF jb_append
  <1> HIDE DEF l, n, g
  <1>5. QED
    BY <1>1, <1>2, <1>3, <1>4 DEF Fitting, AnyBuffer

(* An empty buffer with any memory at all.                                 *)
LEMMA EmptyFits ==
    ASSUME NEW g \in Nat, g > 0
    PROVE  [buf |-> <<>>, cap |-> g] \in Fitting
  <1> DEFINE b == [buf |-> <<>>, cap |-> g]
             e == <<>>
  <1>1. e \in Seq(Char) /\ Len(e) = 0
    OBVIOUS
  <1>2. b.buf = e /\ b.cap = g /\ b = [buf |-> e, cap |-> g]
    OBVIOUS
  <1> HIDE DEF e, b
  <1>3. b \in AnyBuffer
    BY <1>1, <1>2 DEF AnyBuffer
  <1>4. Len(b.buf) < b.cap
    BY <1>1, <1>2
  <1>5. b \in Fitting
    BY <1>3, <1>4 DEF Fitting
  <1>6. QED
    BY <1>5 DEF b

(* The characters the calls themselves append.                             *)
LEMMA OwnChars ==
    /\ <<Quote>> \in Seq(Char) /\ <<",">> \in Seq(Char) /\ <<":">> \in Seq(Char)
    /\ \A c \in Char : <<c>> \in Seq(Char) /\ Escape(c) \in Seq(Char)
  <1>1. Quote \in Char /\ Backslash \in Char /\ "n" \in Char /\ "," \in Char /\ ":" \in Char
        /\ "u" \in Char /\ "0" \in Char /\ "1" \in Char
    BY WriterAssumption, Zenon
  <1>2. /\ \A c, d \in Char : <<c>> \in Seq(Char) /\ <<c, d>> \in Seq(Char)
        /\ \A b, u, z, d \in Char : <<b, u, z, z, z, d>> \in Seq(Char)
    OBVIOUS
  <1>3. ASSUME NEW c \in Char
        PROVE  \/ Escape(c) = <<Backslash, c>> \/ Escape(c) = <<Backslash, "n">> \/ Escape(c) = <<c>>
               \/ Escape(c) = <<Backslash, "u", "0", "0", "0", "1">>
    <2>1. CASE c \in {Quote, Backslash}
      BY <2>1 DEF Escape
    <2>2. CASE c \notin {Quote, Backslash} /\ c = Newline
      BY <2>2 DEF Escape
    <2>3. CASE c \notin {Quote, Backslash, Newline} /\ c = Control
      BY <2>3 DEF Escape
    <2>4. CASE c \notin {Quote, Backslash, Newline} /\ c # Control
      BY <2>4 DEF Escape
    <2>5. QED
      BY <2>1, <2>2, <2>3, <2>4, Zenon
  <1>4. QED
    BY <1>1, <1>2, <1>3, Zenon

LEMMA CommaFits ==
    ASSUME NEW b \in Fitting
    PROVE  Comma(b) \in Fitting
  <1>1. b \in AnyBuffer
    BY DEF Fitting
  <1>2. QED
    BY <1>1, OwnChars, AppendFits DEF Comma

(* A string and its escapes fit.                                           *)
LEMMA EscapedFits ==
    ASSUME NEW b \in Fitting, NEW s \in Seq(Char)
    PROVE  append_escaped(b, s) \in Fitting
  <1> DEFINE m == Len(s)
             V == Fitting
             first == jb_append(b, <<Quote>>)
             Step(x, k) == jb_append(x, Escape(s[k]))
             Solves(u) == u = [k \in 0..m |-> IF k = 0 THEN first ELSE Step(u[k - 1], k)]
             U == CHOOSE u : Solves(u)
             F == [k \in 1..m |-> [x \in V |-> Step(x, k)]]
  <1>1. append_escaped(b, s) = jb_append(U[m], <<Quote>>)
    BY DEF append_escaped
  <1>2. m \in Nat /\ \A k \in 1..m : s[k] \in Char
    BY LenProperties, ElementOfSeq
  <1>3. V \subseteq AnyBuffer
    BY DEF Fitting
  <1>4. \A k \in 1..m : \A x \in V : Step(x, k) \in V
    BY <1>2, <1>3, OwnChars, AppendFits
  <1>5. first \in V
    BY <1>3, OwnChars, AppendFits
  <1> HIDE DEF m, V, first, Step
  <1>6. F \in FiniteSteps(m, V) /\ \A k \in 1..m : \A x \in V : F[k][x] = Step(x, k)
    BY <1>4 DEF FiniteSteps
  <1> HIDE DEF F
  <1>7. PICK h : h \in FiniteIterates(m, V, first, F)
    BY <1>2, <1>5, <1>6, FiniteRecursion
  <1>8. h \in [0..m -> V] /\ h[0] = first /\ \A k \in 1..m : h[k] = F[k][h[k - 1]]
    BY <1>7 DEF FiniteIterates
  <1>9. \A k \in 1..m : k - 1 \in 0..m /\ h[k] = Step(h[k - 1], k)
    BY <1>2, <1>6, <1>8
  <1>10. Solves(h)
    BY <1>2, <1>8, <1>9
  <1>11. Solves(U)
    <2> HIDE DEF Solves
    <2>1. QED
      BY <1>10
  <1> HIDE DEF U
  <1>12. U[0] = first /\ \A k \in 1..m : U[k] = Step(U[k - 1], k)
    BY <1>2, <1>11
  <1> DEFINE E == {k \in 0..m : U[k] \in V}
  <1>13. 0 \in E
    BY <1>2, <1>5, <1>12
  <1>14. \A k \in 0..(m - 1) : k \in E => k + 1 \in E
    <2>1. SUFFICES ASSUME NEW k \in 0..(m - 1), U[k] \in V PROVE k + 1 \in E
      OBVIOUS
    <2>2. k + 1 \in 1..m /\ k + 1 \in 0..m /\ (k + 1) - 1 = k
      BY <1>2
    <2>3. U[k + 1] = Step(U[k], k + 1)
      BY <1>12, <2>2
    <2>4. QED
      BY <1>4, <2>1, <2>2, <2>3
  <1>15. 0..m \subseteq E
    <2> HIDE DEF E
    <2>1. QED
      BY <1>2, <1>13, <1>14, IntervalInduction
  <1>16. U[m] \in V
    BY <1>2, <1>15
  <1>17. QED
    BY <1>1, <1>3, <1>16, OwnChars, AppendFits DEF V

(* Every call of the writer leaves a text that fits, over any nesting, any *)
(* length of strings and any growth before (jb_grow, jb_append_raw,        *)
(* jb_append_char, nsr_json_reset).                                        *)
THEOREM BufferFits == WriterSpec => []FitsBuffer
  <1>1. WriterInit => jb \in Fitting
    <2> DEFINE g == jb_grow(0, 0, 1)
    <2>1. g \in Nat /\ g > 0
      BY GrowFits
    <2> HIDE DEF g
    <2>2. <<>> \in Seq(Char) /\ Len(<<>>) = 0
      OBVIOUS
    <2>3. WriterInit => jb = [buf |-> <<>>, cap |-> g]
      BY DEF WriterInit, nsr_json_init, g
    <2>4. [buf |-> <<>>, cap |-> g] \in Fitting
      BY <2>1, <2>2, EmptyFits
    <2>5. QED
      BY <2>3, <2>4
  <1>2. jb \in Fitting /\ [WriterNext]_jb => (jb \in Fitting)'
    <2>1. SUFFICES ASSUME jb \in Fitting, [WriterNext]_jb PROVE jb' \in Fitting
      OBVIOUS
    <2>2. jb \in AnyBuffer /\ Comma(jb) \in Fitting /\ Comma(jb) \in AnyBuffer
      BY <2>1, CommaFits DEF Fitting
    <2>3. ASSUME NEW op \in {"start", "end", "key", "word"}, NEW c \in Char, Send(Call(op, c)) PROVE jb' \in Fitting
      <3> DEFINE call == Call(op, c)
      <3>1. call.op = op /\ call.arg = c /\ jb' = Apply(call, jb)
        BY <2>3 DEF Send, Call
      <3>2. <<c>> \in Seq(Char)
        BY OwnChars
      <3> HIDE DEF call
      <3>3. CASE op = "start" \/ op = "word"
        <4>1. jb' = jb_append(Comma(jb), <<c>>)
          BY <3>1, <3>3 DEF Apply
        <4>2. QED
          BY <2>2, <3>2, <4>1, AppendFits
      <3>4. CASE op = "end"
        <4>1. jb' = jb_append(jb, <<c>>)
          BY <3>1, <3>4 DEF Apply
        <4>2. QED
          BY <2>2, <3>2, <4>1, AppendFits
      <3>5. CASE op = "key"
        <4>1. jb' = jb_append(append_escaped(Comma(jb), <<c>>), <<":">>)
          BY <3>1, <3>5 DEF Apply
        <4>2. append_escaped(Comma(jb), <<c>>) \in AnyBuffer
          BY <2>2, <3>2, EscapedFits DEF Fitting
        <4>3. QED
          BY <4>1, <4>2, OwnChars, AppendFits
      <3>6. QED
        BY <3>3, <3>4, <3>5
    <2>4. ASSUME NEW op \in {"string", "raw"}, NEW s \in Seq(Char), Send(Call(op, s)) PROVE jb' \in Fitting
      <3> DEFINE call == Call(op, s)
      <3>1. call.op = op /\ call.arg = s /\ jb' = Apply(call, jb)
        BY <2>4 DEF Send, Call
      <3> HIDE DEF call
      <3>2. CASE op = "string"
        <4>1. jb' = append_escaped(Comma(jb), s)
          BY <3>1, <3>2 DEF Apply
        <4>2. QED
          BY <2>2, <4>1, EscapedFits
      <3>3. CASE op = "raw"
        <4>1. jb' = jb_append(jb, s)
          BY <3>1, <3>3 DEF Apply
        <4>2. QED
          BY <2>2, <4>1, AppendFits
      <3>4. QED
        BY <3>2, <3>3
    <2>5. CASE Reset
      <3>1. jb' = [jb EXCEPT !.buf = <<>>]
        BY <2>5 DEF Reset, nsr_json_reset
      <3>2. <<>> \in Seq(Char) /\ Len(<<>>) = 0 /\ Len(jb.buf) \in Nat
        BY <2>2, LenProperties DEF AnyBuffer
      <3>3. jb' = [buf |-> <<>>, cap |-> jb.cap] /\ jb.cap \in Nat /\ jb.cap > 0
        BY <2>1, <3>1, <3>2 DEF Fitting, AnyBuffer
      <3>4. QED
        BY <3>3, EmptyFits
    <2>6. CASE UNCHANGED jb
      BY <2>1, <2>6
    <2>7. QED
      BY <2>1, <2>3, <2>4, <2>5, <2>6 DEF WriterNext
  <1>3. jb \in Fitting => FitsBuffer
    BY DEF Fitting, FitsBuffer
  <1>4. QED
    BY <1>1, <1>2, <1>3, PTL DEF WriterSpec
=============================================================================
