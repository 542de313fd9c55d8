----------------------------- MODULE Percentile -----------------------------
(***************************************************************************)
(* The percentile plugin (plugins/percentile/percentile.c): two rings that *)
(* every telemetry line adds to, one of single samples, one of minutes,    *)
(* and the statistics computed from them.  One telemetry line is taken at  *)
(* one moment of CLOCK_REALTIME, which somebody may set back.  A line      *)
(* brings the hops with the last round-trip time and the number of answers *)
(* so far, and adds the time that many times, up to a limit.               *)
(*                                                                         *)
(* `log' is no state of the program: everything ever added, in order.  The *)
(* statistics are checked against what they are of the log.  A request     *)
(* changes nothing, so handle_render is the answer and not an action.      *)
(***************************************************************************)
EXTENDS Integers, SequencesExt

CONSTANTS HopAddr,        \* addresses
          Lines,       \* telemetry lines: sequences of hops
          Sizes,       \* minutes of the windows, WINDOWS[].buckets
          SampleMax,   \* PCTL_SAMPLE_MAX
          BucketMax,   \* PCTL_BUCKET_MAX
          MaxCopies,   \* 64: copies added for one hop
          Minute,      \* units of time in a minute
          MaxTime, MaxLines, MaxSetBack   \* bounds of a run

NoHopAddr == "none"
Infinity == 1000000   \* UINT64_MAX: no round-trip time reaches it

ASSUME PctlAssumption ==
    /\ {SampleMax, BucketMax, MaxCopies, Minute} \subseteq Nat \ {0}
    /\ {MaxTime, MaxLines, MaxSetBack} \subseteq Nat
    /\ Sizes \subseteq 1..BucketMax
    /\ NoHopAddr \notin HopAddr
    /\ Lines \subseteq Seq([addr : HopAddr \cup {NoHopAddr}, rtt : Nat, recv : Nat])

VARIABLES
    g_samples,   \* [ring, head, count]
    g_buckets,   \* [ring, head, count]
    now,         \* CLOCK_REALTIME
    log,         \* everything added, see above
    lines,       \* telemetry lines so far
    setBacks     \* times the clock was set back

pctlVars == <<g_samples, g_buckets, now, log, lines, setBacks>>

NoSample == [addr |-> NoHopAddr, rtt |-> 0, ts |-> 0]
Bucket0(start) == [start |-> start, min |-> Infinity, max |-> 0, sum |-> 0, count |-> 0]

PctlInit ==
    /\ g_samples = [ring |-> [i \in 0..(SampleMax - 1) |-> NoSample], head |-> 0, count |-> 0]
    /\ g_buckets = [ring |-> [i \in 0..(BucketMax - 1) |-> [Bucket0(0) EXCEPT !.min = 0]],
                    head |-> 0, count |-> 0]
    /\ now = 0 /\ log = <<>> /\ lines = 0 /\ setBacks = 0

-----------------------------------------------------------------------------
(* The rings.                                                              *)

\* the number of the minute instead of its first millisecond
bucket_start(ts) == ts \div Minute

\* the places of the newest n of a ring of `size', oldest first
Newest(g, size, n) == [i \in 1..n |-> (g.head + size - n + i - 1) % size]

Smaller(a, b) == IF a < b THEN a ELSE b
Larger(a, b)  == IF a > b THEN a ELSE b

\* mutant: the count stops one short
pctl_add_Short(g, addr, rtt, ts) ==
    IF addr = NoHopAddr \/ rtt = 0 THEN g
    ELSE [ring  |-> [g.ring EXCEPT ![g.head] = [addr |-> addr, rtt |-> rtt, ts |-> ts]],
          head  |-> (g.head + 1) % SampleMax,
          count |-> Smaller(g.count + 1, SampleMax - 1)]

pctl_add(g, addr, rtt, ts) ==
    IF addr = NoHopAddr \/ rtt = 0 THEN g
    ELSE [ring  |-> [g.ring EXCEPT ![g.head] = [addr |-> addr, rtt |-> rtt, ts |-> ts]],
          head  |-> (g.head + 1) % SampleMax,
          count |-> Smaller(g.count + 1, SampleMax)]

\* mutant: a place that is used again keeps its sum and count
NewBucket_Keeps(g, start) ==
    [ring  |-> [g.ring EXCEPT ![g.head] = [Bucket0(start) EXCEPT !.sum = g.ring[g.head].sum,
                                                                 !.count = g.ring[g.head].count]],
     head  |-> (g.head + 1) % BucketMax,
     count |-> Smaller(g.count + 1, BucketMax)]

NewBucket(g, start) ==
    [ring  |-> [g.ring EXCEPT ![g.head] = Bucket0(start)],
     head  |-> (g.head + 1) % BucketMax,
     count |-> Smaller(g.count + 1, BucketMax)]

\* the ring with a bucket for this minute, and that bucket's place
get_current_bucket(g, ts) ==
    LET live  == Newest(g, BucketMax, g.count)
        found == {i \in DOMAIN live : g.ring[live[i]].start = bucket_start(ts)}
    IN  IF found # {}
        THEN [g |-> g, at |-> live[CHOOSE i \in found : \A j \in found : i <= j]]
        ELSE [g |-> NewBucket(g, bucket_start(ts)), at |-> g.head]

bucket_add(g, ts, rtt) ==
    LET cur == get_current_bucket(g, ts)
        old == cur.g.ring[cur.at]
    IN  [cur.g EXCEPT !.ring[cur.at] =
            [start |-> old.start, min |-> Smaller(old.min, rtt), max |-> Larger(old.max, rtt),
             sum |-> old.sum + rtt, count |-> old.count + 1]]

-----------------------------------------------------------------------------
(* Statistics.                                                             *)

None == [valid |-> FALSE, min |-> 0, max |-> 0, avg |-> 0]

\* of items with the fields min, max, sum and count
Nothing     == [min |-> Infinity, max |-> 0, sum |-> 0, count |-> 0]
Merge(s, b) == [min |-> Smaller(s.min, b.min), max |-> Larger(s.max, b.max),
                sum |-> s.sum + b.sum, count |-> s.count + b.count]

Total(items) ==
    LET upto[i \in 0..Len(items)] == IF i = 0 THEN Nothing ELSE Merge(upto[i - 1], items[i])
    IN  upto[Len(items)]

Stats(items) ==
    LET all == Total(items)
    IN  IF all.count = 0 THEN None
        ELSE [valid |-> TRUE, min |-> all.min, max |-> all.max, avg |-> all.sum \div all.count]

compute_window_stats(num) ==
    LET places == Newest(g_buckets, BucketMax, Smaller(num, g_buckets.count))
    IN  Stats([i \in DOMAIN places |-> g_buckets.ring[places[i]]])

One(rtt) == [min |-> rtt, max |-> rtt, sum |-> rtt, count |-> 1]

OfSamples(samples) == Stats([i \in DOMAIN samples |-> One(samples[i].rtt)])

\* those of an address, not older than `since'
OfAddr(samples, addr, since) == SelectSeq(samples, LAMBDA s : s.addr = addr /\ s.ts >= since)

compute_window_stats_for_addr(addr, window) ==
    LET places == Newest(g_samples, SampleMax, g_samples.count)
        all    == [i \in DOMAIN places |-> g_samples.ring[places[i]]]
    IN  OfSamples(OfAddr(all, addr, now - window))

(* The lines of the answer: for each window the statistics of all hops,    *)
(* and if a hop is focused, its own.                                       *)
handle_render(focus) ==
    [global  |-> [k \in Sizes |-> compute_window_stats(k)],
     focused |-> IF focus = NoHopAddr THEN <<>>
                 ELSE [k \in Sizes |-> compute_window_stats_for_addr(focus, k * Minute)]]

-----------------------------------------------------------------------------
(* Telemetry.                                                              *)

State == [samples |-> g_samples, buckets |-> g_buckets, log |-> log]

AddOnce(st, hop) ==
    [samples |-> pctl_add(st.samples, hop.addr, hop.rtt, now),
     buckets |-> bucket_add(st.buckets, now, hop.rtt),
     log     |-> Append(st.log, [addr |-> hop.addr, rtt |-> hop.rtt, ts |-> now])]

AddHop(st, hop) ==
    LET copies == Smaller(hop.recv, MaxCopies)
        upto[k \in 0..copies] == IF k = 0 THEN st ELSE AddOnce(upto[k - 1], hop)
    IN  upto[copies]

AddHops(st, hops) ==
    LET upto[k \in 0..Len(hops)] == IF k = 0 THEN st ELSE AddHop(upto[k - 1], hops[k])
    IN  upto[Len(hops)]

handle_update_telemetry(hops) ==
    /\ lines < MaxLines
    /\ LET st == AddHops(State, hops)
       IN  g_samples' = st.samples /\ g_buckets' = st.buckets /\ log' = st.log
    /\ lines' = lines + 1
    /\ UNCHANGED <<now, setBacks>>

Tick ==
    /\ now < MaxTime
    /\ now' = now + 1
    /\ UNCHANGED <<g_samples, g_buckets, log, lines, setBacks>>

SetBack ==
    /\ setBacks < MaxSetBack /\ now >= Minute
    /\ now' = now - Minute
    /\ setBacks' = setBacks + 1
    /\ UNCHANGED <<g_samples, g_buckets, log, lines>>

PctlNext == Tick \/ SetBack \/ \E hops \in Lines : handle_update_telemetry(hops)

PctlSpec == PctlInit /\ [][PctlNext]_pctlVars

-----------------------------------------------------------------------------
(* Properties.                                                             *)

(* Types of the two rings.                                                 *)
PctlTypeOK ==
    /\ g_samples.head \in 0..(SampleMax - 1) /\ g_samples.count \in 0..SampleMax
    /\ \A i \in 0..(SampleMax - 1) : g_samples.ring[i].addr \in HopAddr \cup {NoHopAddr}
    /\ g_buckets.head \in 0..(BucketMax - 1) /\ g_buckets.count \in 0..BucketMax
    /\ \A i \in 0..(BucketMax - 1) : g_buckets.ring[i].min <= Infinity

Minutes(entries) == {bucket_start(entries[i].ts) : i \in DOMAIN entries}

\* the first entry of a minute, and the last k minutes to begin
Began(entries, m) ==
    CHOOSE i \in DOMAIN entries : /\ bucket_start(entries[i].ts) = m
                                  /\ \A j \in 1..(i - 1) : bucket_start(entries[j].ts) # m
Recent(entries, k) ==
    {m \in Minutes(entries) :
        Cardinality({n \in Minutes(entries) : Began(entries, n) > Began(entries, m)}) < k}

\* what was reported in some minutes; everything else counts for nothing
Within(entries, minutes) ==
    [i \in DOMAIN entries |->
        IF bucket_start(entries[i].ts) \in minutes THEN One(entries[i].rtt) ELSE Nothing]

(* The statistics of k minutes are exactly those of everything reported in *)
(* the k minutes that were the last to begin, however often the ring has   *)
(* gone round: nothing of an older use of a bucket is left in them and     *)
(* nothing is missing.  Also when the clock has been set back into minutes *)
(* that have a bucket already, unless the ring has dropped one since.      *)
GlobalExact ==
    /\ PctlTypeOK
    /\ setBacks = 0 \/ Cardinality(Minutes(log)) <= BucketMax =>
          \A k \in Sizes : handle_render(NoHopAddr).global[k] = Stats(Within(log, Recent(log, k)))

\* what the ring of samples takes: answers with an address and a time
Kept(entries) ==
    LET upto[i \in 0..Len(entries)] ==
            IF i = 0 THEN <<>>
            ELSE IF entries[i].addr # NoHopAddr /\ entries[i].rtt # 0 THEN Append(upto[i - 1], entries[i])
            ELSE upto[i - 1]
    IN  upto[Len(entries)]

(* The statistics of a focused hop are exactly those of its own samples    *)
(* among the newest SampleMax of all hops that fall into the window, also  *)
(* when the clock has been set back.                                       *)
FocusExact ==
    LET kept   == Kept(log)
        newest == SubSeq(kept, Larger(1, Len(kept) - SampleMax + 1), Len(kept))
    IN  \A a \in HopAddr, k \in Sizes :
            handle_render(a).focused[k] = OfSamples(OfAddr(newest, a, now - k * Minute))

-----------------------------------------------------------------------------
(* What a document or a comment says and the code does not do: TLC refutes *)
(* it on this module.  Not part of a run; see `Divergences' in README.md.  *)

(* percentile.c:270, "Show RTT min/avg/max for 1m/5m/15m/1h windows": a    *)
(* window of k minutes shows nothing that is older.                        *)
WindowsByTime ==
    \A k \in Sizes :
        handle_render(NoHopAddr).global[k].valid =>
            \E i \in DOMAIN log : bucket_start(log[i].ts) > bucket_start(now) - k

(* The same line, for a focused hop: a window of k minutes covers every    *)
(* answer of the hop in the last k minutes.                                *)
FocusCovers ==
    \A a \in HopAddr, k \in Sizes : \A i \in DOMAIN log :
        (log[i].addr = a /\ log[i].rtt # 0 /\ log[i].ts >= now - k * Minute) =>
            /\ handle_render(a).focused[k].min <= log[i].rtt
            /\ handle_render(a).focused[k].max >= log[i].rtt
=============================================================================
