------------------------------ MODULE ProbePath ------------------------------
(***************************************************************************)
(* The way of a probe and back: the logic engine numbers it (io/logic.c),  *)
(* the gatekeeper records it in g_inflight and sends it, the network       *)
(* answers, loses, duplicates, delays and reorders, and the gatekeeper     *)
(* matches the answer to a recorded probe by the 16-bit sequence number    *)
(* alone (io/gatekeeper.c).                                                *)
(*                                                                         *)
(* Time is a counter.  The gatekeeper polls without sleeping, so intents   *)
(* and due work of its loop never wait for a tick; the network keeps an    *)
(* answer for at most MaxDelay ticks.  Rings are queues (module ShmRing)   *)
(* and do not fill here (module Pipeline).                                 *)
(***************************************************************************)
EXTENDS Integers, Sequences, FiniteSets

CONSTANTS
    SeqSpace,        \* 2^16: current_seq is a uint16_t
    Slots,         \* NSR_GK_MAX_INFLIGHT
    MaxTTL,        \* 30
    MaxBurst,      \* probes of one round: MAX_BURST
    Interval,      \* ticks between rounds: interval_ms
    ReapAge,       \* 5 s
    ReapEvery,     \* 1 s
    MaxDelay,      \* the longest an answer stays in the network
    MaxNow, MaxProbes, MaxGkCrashes, MaxLogicCrashes, MaxCrashes   \* bounds of
                   \*   a run; MaxCrashes counts both processes

ASSUME ProbeAssumption ==
    /\ {SeqSpace, Slots, MaxTTL, MaxBurst, Interval} \subseteq Nat \ {0}
    /\ {ReapAge, ReapEvery, MaxDelay, MaxNow, MaxProbes, MaxGkCrashes,
        MaxLogicCrashes, MaxCrashes} \subseteq Nat

TTL == 1..MaxTTL
Seqs == 0..(SeqSpace - 1)

VARIABLES
    now,
    seq, ttl, lastProbe,   \* logic: next sequence number and TTL, last round
    sent, recv,            \* logic: g_state.hops[].sent and .recv
    l2g, g2l,              \* the rings: intents, observations
    inflight, gkId,        \* gatekeeper: g_inflight, g_gk_id
    lastReap,              \* gatekeeper: static of reap_stale_inflight
    net,                   \* answers on their way, each with the TTL, the
                           \*   sending time and the logic engine (`by') of
                           \*   the probe it really answers
    probes, gkCrashes, logicCrashes   \* counters for the bounds

logicVars == <<seq, ttl, lastProbe, sent, recv>>
gkVars    == <<inflight, gkId, lastReap>>
counters  == <<probes, gkCrashes, logicCrashes>>
vars == <<now, logicVars, l2g, g2l, gkVars, net, counters>>

Inactive == [active |-> FALSE, seq |-> 0, ttl |-> 0, at |-> 0]

Init ==
    /\ now = 1
    /\ seq = 0 /\ ttl = 1 /\ lastProbe = 0
    /\ sent = [t \in TTL |-> 0] /\ recv = [t \in TTL |-> 0]
    /\ l2g = <<>> /\ g2l = <<>>
    /\ inflight = [i \in 0..(Slots - 1) |-> Inactive]
    /\ gkId = 0 /\ lastReap = 0
    /\ net = {}
    /\ probes = 0 /\ gkCrashes = 0 /\ logicCrashes = 0

-----------------------------------------------------------------------------
(* The logic engine.                                                       *)

\* mutant: a narrower counter
NextSeq_Narrow(s) == (s + 1) % (SeqSpace \div 2)

NextSeq(s) == (s + 1) % SeqSpace

NextTtl(t) == IF t + 1 > MaxTTL THEN 1 ELSE t + 1

(* The k-th intent after the current position.  `by', which logic engine   *)
(* built it, is no field of nsr_intent_t; only the properties look at it.  *)
IntentAt[k \in Nat] ==
    IF k = 0 THEN [ttl |-> ttl, seq |-> seq, by |-> logicCrashes]
             ELSE [ttl |-> NextTtl(IntentAt[k - 1].ttl), seq |-> NextSeq(IntentAt[k - 1].seq),
                   by |-> logicCrashes]

(* One round: `burst' intents, counted as sent when they are built.        *)
LogicBurst(burst) ==
    /\ now - lastProbe >= Interval
    /\ probes + burst <= MaxProbes
    /\ LET intents == [i \in 1..burst |-> IntentAt[i - 1]]
       IN  /\ sent' = [t \in TTL |-> sent[t] + Cardinality({i \in 1..burst : intents[i].ttl = t})]
           /\ l2g' = l2g \o intents
    /\ seq' = IntentAt[burst].seq
    /\ ttl' = IntentAt[burst].ttl
    /\ lastProbe' = now
    /\ probes' = probes + burst
    /\ UNCHANGED <<now, recv, g2l, gkVars, net, gkCrashes, logicCrashes>>

(* The drain loop, as far as it counts: update_state.                      *)
LogicDrain ==
    /\ g2l # <<>>
    /\ recv' = [t \in TTL |-> recv[t] + Cardinality({i \in 1..Len(g2l) : g2l[i].ttl = t})]
    /\ g2l' = <<>>
    /\ UNCHANGED <<now, seq, ttl, lastProbe, sent, l2g, gkVars, net, counters>>

(* main.c forks a new logic engine: statics and locals start afresh, the   *)
(* rings and the gatekeeper do not notice.                                 *)
LogicCrash ==
    /\ logicCrashes < MaxLogicCrashes /\ logicCrashes + gkCrashes < MaxCrashes
    /\ logicCrashes' = logicCrashes + 1
    /\ seq' = 0 /\ ttl' = 1 /\ lastProbe' = 0
    /\ sent' = [t \in TTL |-> 0] /\ recv' = [t \in TTL |-> 0]
    /\ UNCHANGED <<now, l2g, g2l, gkVars, net, probes, gkCrashes>>

-----------------------------------------------------------------------------
(* The gatekeeper.                                                         *)

Slot(s) == s % Slots

ReapDue == now - lastReap >= ReapEvery

\* mutant: the age is compared in another unit
reap_stale_inflight_Unit(table) ==
    [i \in DOMAIN table |-> IF table[i].active /\ now - table[i].at > 1000 * ReapAge
                            THEN [table[i] EXCEPT !.active = FALSE] ELSE table[i]]

reap_stale_inflight(table) ==
    IF ~ReapDue THEN table
    ELSE [i \in DOMAIN table |-> IF table[i].active /\ now - table[i].at > ReapAge
                                 THEN [table[i] EXCEPT !.active = FALSE] ELSE table[i]]

track_probe(table, intent) ==
    [table EXCEPT ![Slot(intent.seq)] =
        [active |-> TRUE, seq |-> intent.seq, ttl |-> intent.ttl, at |-> now]]

Matches(table, s) == table[Slot(s)].active /\ table[Slot(s)].seq = s

drop_probe(table, s) ==
    IF Matches(table, s) THEN [table EXCEPT ![Slot(s)].active = FALSE] ELSE table

(* The loops over a batch of intents.                                      *)
TrackAll(table, intents) ==
    LET tab[n \in 0..Len(intents)] == IF n = 0 THEN table ELSE track_probe(tab[n - 1], intents[n])
    IN  tab[Len(intents)]

DropFrom(table, intents, first) ==
    LET tab[n \in 0..Len(intents)] == IF n < first THEN table ELSE drop_probe(tab[n - 1], intents[n].seq)
    IN  tab[Len(intents)]

(* One pass: pop what has been pushed so far of a burst, reap, track,      *)
(* sendmmsg.  sendmmsg takes the first `taken' messages (none when it      *)
(* fails); of those the network answers the ones in `answered'.            *)
GkLoop(popped, taken, answered) ==
    /\ popped # 0 \/ ReapDue
    /\ LET intents == SubSeq(l2g, 1, popped)
       IN  /\ inflight' = DropFrom(TrackAll(reap_stale_inflight(inflight), intents), intents, taken + 1)
           /\ net' = net \cup {[id |-> gkId, seq |-> intents[i].seq, ttl |-> intents[i].ttl,
                                at |-> now, by |-> intents[i].by] : i \in answered}
    /\ lastReap' = IF ReapDue THEN now ELSE lastReap
    /\ l2g' = SubSeq(l2g, popped + 1, Len(l2g))
    /\ UNCHANGED <<now, logicVars, g2l, gkId, counters>>

\* mutant: the entry stays active
GkRecv_KeepsEntry(r, copyLeft) ==
    /\ net' = IF copyLeft THEN net ELSE net \ {r}
    /\ r.id = gkId /\ Matches(inflight, r.seq)
    /\ LET e == inflight[Slot(r.seq)]
       IN  g2l' = Append(g2l, [ttl |-> e.ttl, rtt |-> now - e.at,
                               realTtl |-> r.ttl, realRtt |-> now - r.at, by |-> r.by])
    /\ UNCHANGED <<now, logicVars, l2g, gkVars, counters>>

(* One received packet: the identifier must be ours and find_probe must    *)
(* find an active entry, which it clears.  The network may have kept a     *)
(* copy.  Any order of arrival is possible.                                *)
GkRecv(r, copyLeft) ==
    /\ net' = IF copyLeft THEN net ELSE net \ {r}
    /\ IF r.id = gkId /\ Matches(inflight, r.seq)
       THEN LET e == inflight[Slot(r.seq)]
            IN  /\ g2l' = Append(g2l, [ttl |-> e.ttl, rtt |-> now - e.at,
                                       realTtl |-> r.ttl, realRtt |-> now - r.at, by |-> r.by])
                /\ inflight' = [inflight EXCEPT ![Slot(r.seq)].active = FALSE]
       ELSE UNCHANGED <<g2l, inflight>>
    /\ UNCHANGED <<now, logicVars, l2g, gkId, lastReap, counters>>

(* main.c forks a new gatekeeper: empty table, a new pid as identifier.    *)
GkCrash ==
    /\ gkCrashes < MaxGkCrashes /\ logicCrashes + gkCrashes < MaxCrashes
    /\ gkCrashes' = gkCrashes + 1
    /\ inflight' = [i \in 0..(Slots - 1) |-> Inactive]
    /\ gkId' = gkId + 1
    /\ lastReap' = 0
    /\ UNCHANGED <<now, logicVars, l2g, g2l, net, probes, logicCrashes>>

(* Time passes; what is too old disappears.  An answer that is lost is one *)
(* that is never received.                                                 *)
Tick ==
    /\ now < MaxNow
    /\ l2g = <<>> /\ ~ReapDue
    /\ now' = now + 1
    /\ net' = {r \in net : now + 1 - r.at <= MaxDelay}
    /\ UNCHANGED <<logicVars, l2g, g2l, gkVars, counters>>

Next ==
    \/ \E burst \in 1..MaxBurst : LogicBurst(burst)
    \/ LogicDrain
    \/ LogicCrash
    \/ \E popped \in 0..Len(l2g) : \E taken \in 0..popped : \E answered \in SUBSET (1..taken) :
           GkLoop(popped, taken, answered)
    \/ \E r \in net, copyLeft \in BOOLEAN : GkRecv(r, copyLeft)
    \/ GkCrash
    \/ Tick

Spec == Init /\ [][Next]_vars

-----------------------------------------------------------------------------
(* Properties.                                                             *)

Entry == [active : BOOLEAN, seq : Seqs, ttl : 0..MaxTTL, at : Nat]

(* Types; a queued observation names a hop.                                *)
TypeOK ==
    /\ now \in Nat /\ seq \in Seqs /\ ttl \in TTL /\ lastProbe \in Nat
    /\ sent \in [TTL -> Nat] /\ recv \in [TTL -> Nat]
    /\ l2g \in Seq([ttl : TTL, seq : Seqs, by : Nat])
    /\ g2l \in Seq([ttl : TTL, rtt : Nat, realTtl : TTL, realRtt : Nat, by : Nat])
    /\ inflight \in [0..(Slots - 1) -> Entry]
    /\ \A r \in net : r.seq \in Seqs /\ r.ttl \in TTL

Credited(obs) == obs.ttl = obs.realTtl /\ obs.rtt = obs.realRtt

(* The answers to the probes of the logic engine at work are credited to   *)
(* the right probe, although numbers wrap, answers are doubled, late and   *)
(* out of order, sends are partial, either process is replaced and the     *)
(* predecessor's intents and answers are still under way.                  *)
OwnAttribution == \A i \in DOMAIN g2l : g2l[i].by = logicCrashes => Credited(g2l[i])

(* The tables keep their types, and no hop is ever credited with more      *)
(* answers than it was sent probes, in spite of duplicates, late answers   *)
(* and restarts of the gatekeeper.  (A new logic engine begins at 0 and    *)
(* finds its predecessor's answers.)                                       *)
RecvWithinSent ==
    /\ TypeOK
    /\ logicCrashes = 0 =>
          \A t \in TTL : recv[t] + Cardinality({i \in 1..Len(g2l) : g2l[i].ttl = t}) <= sent[t]

(* The reaper does its work: no entry stays active for longer than its age *)
(* limit and one reaping period.                                           *)
NothingStale ==
    \A i \in DOMAIN inflight : inflight[i].active => now - inflight[i].at <= ReapAge + ReapEvery

-----------------------------------------------------------------------------
(* What a document or a comment says and the code does not do: TLC refutes *)
(* it on this module.  Not part of a run; see `Divergences' in README.md.  *)

(* gatekeeper.c:10 promises "correlation back to the originating probe     *)
(* sequence": every observation reports the hop and the round-trip time of *)
(* the probe that the answer really belongs to.                            *)
Attribution == \A i \in DOMAIN g2l : Credited(g2l[i])
=============================================================================
