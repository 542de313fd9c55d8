----------------------------- MODULE LogicEngine -----------------------------
(***************************************************************************)
(* What the logic engine (io/logic.c) knows about the hops of its target,  *)
(* and how fast it probes: the loop of nsr_logic_run with adjust_pacing,   *)
(* sweep_timeouts, the building of a burst and update_state.               *)
(*                                                                         *)
(* Time is a counter.  now_us is read once per iteration, but update_state *)
(* reads the clock again.  Observations come from the gatekeeper, which    *)
(* produces only replies, exceeded and unreachable messages, and at most   *)
(* one for every probe (module ProbePath).  Handing the intents over is    *)
(* module Pipeline's matter; the loss estimate, a float, is only kept as   *)
(* its effect: above 0.35, below 0.10 or between.                          *)
(***************************************************************************)
EXTENDS Integers, Sequences

CONSTANTS MaxTTL,       \* 30
          Addr, NoAddr, \* router addresses; the empty string
          MaxAliases,   \* NSR_MAX_HOP_ALIASES
          MinBurst, InitBurst, MaxBurst,   \* 1, 28, 64
          Interval,     \* interval_ms
          Window,       \* 1.5 s
          AdjustEvery,  \* 250 ms
          MaxNow, MaxSent, MaxRecv   \* bounds of a run: time, probes and answers per hop

ASSUME LogicAssumption ==
    /\ MaxTTL \in Nat \ {0} /\ MaxAliases \in Nat \ {0}
    /\ MinBurst \in Nat \ {0} /\ InitBurst \in MinBurst..MaxBurst /\ MaxBurst \in Nat
    /\ {Interval, Window, AdjustEvery, MaxNow, MaxSent, MaxRecv} \subseteq Nat
    /\ NoAddr \notin Addr

TTL == 1..MaxTTL

VARIABLES
    now,          \* the clock, and now_us as read at the top of the loop
    nowUs,
    pc,           \* "top", "build", "drain"
    hops,         \* g_state.hops
    lastRecv,     \* g_last_recv_us, 0 when nothing came yet
    start,        \* g_state.start_time_us
    ttl,          \* current_ttl
    left,         \* probes of the burst still to build
    lastProbe,    \* last_probe_us
    burst,        \* g_pacing.current_burst
    lastAdjust, lastSent,   \* g_pacing.last_adjust_us and .last_sent
    paused        \* g_paused

pacing == <<burst, lastAdjust, lastSent>>
vars == <<now, nowUs, pc, hops, lastRecv, start, ttl, left, lastProbe, pacing, paused>>

Answers == {"REPLY", "EXCEEDED", "UNREACH"}

NoHop == [sent |-> 0, recv |-> 0, addr |-> NoAddr, primary_recv |-> 0,
          aliases |-> <<>>, status |-> "NONE"]

Init ==
    /\ now = 1 /\ nowUs = 1 /\ start = 1
    /\ pc = "top"
    /\ hops = [t \in TTL |-> NoHop]
    /\ lastRecv = [t \in TTL |-> 0]
    /\ ttl = 1 /\ left = 0 /\ lastProbe = 0
    /\ burst = InitBurst /\ lastAdjust = 0 /\ lastSent = 0
    /\ paused = FALSE

-----------------------------------------------------------------------------
(* The helpers of logic.c.                                                 *)

\* f[1] + ... + f[m]
SumOf(f, m) ==
    LET sum[n \in Nat] == IF n = 0 THEN 0 ELSE sum[n - 1] + f[n]
    IN  sum[m]

\* total of the sent counters over the hops
TotalSent == SumOf([t \in TTL |-> hops[t].sent], MaxTTL)

Decreased == IF (burst * 3) \div 4 < MinBurst THEN MinBurst ELSE (burst * 3) \div 4
Increased == IF burst < MaxBurst THEN burst + 1 ELSE burst

adjust_pacing(at) ==
    IF at - lastAdjust < AdjustEvery
    THEN UNCHANGED pacing
    ELSE /\ lastAdjust' = at
         /\ lastSent' = TotalSent
         /\ burst' \in IF TotalSent = lastSent THEN {burst}
                       ELSE {Decreased, burst, Increased}

LastActivity(t) == IF lastRecv[t] = 0 THEN start ELSE lastRecv[t]

\* mutant: silence is counted from the start
Expired_FromStart(t, at) ==
    hops[t].sent # 0 /\ hops[t].status \notin {"REPLY", "UNREACH"} /\ at - start > Window

Expired(t, at) ==
    /\ hops[t].sent # 0
    /\ hops[t].status \notin {"REPLY", "UNREACH"}
    /\ at - LastActivity(t) > Window

sweep_timeouts(at) ==
    hops' = [t \in TTL |-> IF Expired(t, at) THEN [hops[t] EXCEPT !.status = "TIMEOUT"] ELSE hops[t]]

\* the first alias with the fewest answers
LeastSeen(aliases) ==
    CHOOSE i \in DOMAIN aliases :
        \A j \in DOMAIN aliases : /\ aliases[i].recv <= aliases[j].recv
                                  /\ j < i => aliases[i].recv < aliases[j].recv

\* mutant: neither the primary nor the aliases are looked up
add_or_update_alias_NoPrimary(h, a) ==
    IF h.addr = NoAddr THEN [h EXCEPT !.addr = a, !.primary_recv = 1]
    ELSE IF Len(h.aliases) < MaxAliases THEN [h EXCEPT !.aliases = Append(@, [addr |-> a, recv |-> 1])]
    ELSE [h EXCEPT !.aliases[LeastSeen(h.aliases)] = [addr |-> a, recv |-> 1]]

add_or_update_alias(h, a) ==
    IF h.addr = NoAddr THEN [h EXCEPT !.addr = a, !.primary_recv = 1]
    ELSE IF h.addr = a THEN [h EXCEPT !.primary_recv = @ + 1]
    ELSE IF \E i \in DOMAIN h.aliases : h.aliases[i].addr = a
    THEN [h EXCEPT !.aliases = [i \in DOMAIN h.aliases |->
             IF h.aliases[i].addr = a THEN [h.aliases[i] EXCEPT !.recv = @ + 1] ELSE h.aliases[i]]]
    ELSE IF Len(h.aliases) < MaxAliases
    THEN [h EXCEPT !.aliases = Append(@, [addr |-> a, recv |-> 1])]
    ELSE [h EXCEPT !.aliases[LeastSeen(h.aliases)] = [addr |-> a, recv |-> 1]]

-----------------------------------------------------------------------------
(* The loop.                                                               *)

(* Read the clock, adjust, sweep; then a burst if one is due.              *)
Top ==
    /\ pc = "top"
    /\ nowUs' = now
    /\ adjust_pacing(now)
    /\ sweep_timeouts(now)
    /\ IF ~paused /\ now - lastProbe >= Interval
       THEN pc' = "build" /\ left' = IF burst' > MaxBurst THEN MaxBurst ELSE burst'
       ELSE pc' = "drain" /\ UNCHANGED left
    /\ UNCHANGED <<now, lastRecv, start, ttl, lastProbe, paused>>

\* mutant: wraps one too early
NextTtl_Early(t) == IF t + 1 >= MaxTTL THEN 1 ELSE t + 1

NextTtl(t) == IF t + 1 > MaxTTL THEN 1 ELSE t + 1

(* One probe of the burst.                                                 *)
Build ==
    /\ pc = "build" /\ left > 0
    /\ hops[ttl].sent < MaxSent
    /\ hops' = [hops EXCEPT ![ttl].sent = @ + 1]
    /\ ttl' = NextTtl(ttl)
    /\ left' = left - 1
    /\ UNCHANGED <<now, nowUs, pc, lastRecv, start, lastProbe, pacing, paused>>

(* All intents are in l2g.                                                 *)
Pushed ==
    /\ pc = "build" /\ left = 0
    /\ pc' = "drain"
    /\ lastProbe' = nowUs
    /\ UNCHANGED <<now, nowUs, hops, lastRecv, start, ttl, left, pacing, paused>>

(* update_state for one observation popped from g2l: of a probe sent       *)
(* before, by this engine or by the one it has replaced.                   *)
update_state(t, type, a) ==
    /\ pc = "drain"
    /\ hops[t].recv < MaxRecv
    /\ hops' = [hops EXCEPT ![t] = add_or_update_alias([hops[t] EXCEPT !.recv = @ + 1, !.status = type], a)]
    /\ lastRecv' = [lastRecv EXCEPT ![t] = now]
    /\ UNCHANGED <<now, nowUs, pc, start, ttl, left, lastProbe, pacing, paused>>

Drained ==
    /\ pc = "drain"
    /\ pc' = "top"
    /\ UNCHANGED <<now, nowUs, hops, lastRecv, start, ttl, left, lastProbe, pacing, paused>>

(* SIGUSR1, at any moment.                                                 *)
handle_sigusr1 ==
    /\ paused' = ~paused
    /\ UNCHANGED <<now, nowUs, pc, hops, lastRecv, start, ttl, left, lastProbe, pacing>>

Tick ==
    /\ now < MaxNow
    /\ now' = now + 1
    /\ UNCHANGED <<nowUs, pc, hops, lastRecv, start, ttl, left, lastProbe, pacing, paused>>

Next ==
    \/ Top \/ Build \/ Pushed \/ Drained
    \/ \E t \in TTL, type \in Answers, a \in Addr : update_state(t, type, a)
    \/ handle_sigusr1
    \/ Tick

Spec == Init /\ [][Next]_vars

-----------------------------------------------------------------------------
(* Properties.                                                             *)

Alias == [addr : Addr, recv : Nat \ {0}]

(* Types; the burst that g_pacing asks for never leaves 1 .. max_burst, so *)
(* neither does probing stop nor does intents[MAX_BURST] overflow.         *)
TypeOK ==
    /\ now \in Nat /\ nowUs \in Nat /\ start \in Nat /\ lastProbe \in Nat
    /\ pc \in {"top", "build", "drain"}
    /\ hops \in [TTL -> [sent : Nat, recv : Nat, addr : Addr \cup {NoAddr}, primary_recv : Nat,
                         aliases : Seq(Alias), status : Answers \cup {"NONE", "TIMEOUT"}]]
    /\ lastRecv \in [TTL -> Nat]
    /\ ttl \in TTL /\ left \in 0..MaxBurst
    /\ burst \in MinBurst..MaxBurst /\ lastAdjust \in Nat /\ lastSent \in Nat
    /\ paused \in BOOLEAN

(* Whatever the burst sizes, the pauses and the wraps of current_ttl, the  *)
(* hops are probed evenly: a nearer hop has at most one probe more than a  *)
(* farther one and never one less.                                         *)
EvenProbing == \A i, j \in TTL : i < j => hops[i].sent - hops[j].sent \in {0, 1}

\* the answers of a sequence of aliases, added up
AliasRecv(al) == SumOf([i \in DOMAIN al |-> al[i].recv], Len(al))

(* The addresses kept for a hop are different from each other: evicting    *)
(* and adding never lists a router twice, nor the primary among the        *)
(* aliases.  Their answers add up to recv as long as no alias had to be    *)
(* evicted, and never to more: the TUI's shares are of what was received.  *)
HopsSound ==
    /\ TypeOK
    /\ \A t \in TTL :
          LET h  == hops[t]
              al == h.aliases
          IN  /\ Len(al) <= MaxAliases
              /\ al # <<>> => h.addr # NoAddr
              /\ \A i \in DOMAIN al : al[i].addr # h.addr
              /\ \A i, j \in DOMAIN al : al[i].addr = al[j].addr => i = j
              /\ h.primary_recv + AliasRecv(al) <= h.recv
              /\ Len(al) < MaxAliases => h.primary_recv + AliasRecv(al) = h.recv

(* A hop is shown as timed out only while nothing has come from it for the *)
(* whole window, although the sweep uses a clock read earlier than the one *)
(* that stamps the answers.                                                *)
TimeoutMeansSilence ==
    \A t \in TTL : hops[t].status = "TIMEOUT" => now - LastActivity(t) > Window

-----------------------------------------------------------------------------
(* What a comment or a document says and the code does not do: TLC refutes *)
(* it on this module.  Not part of a run; see `Divergences' in README.md.  *)

(* logic.c:138, "Timeout sweep: mark hops without recent activity as timed *)
(* out": after a sweep every probed hop that has been silent for longer    *)
(* than the window is marked.                                              *)
SilentHopsTimedOut ==
    [][\A t \in TTL : (pc = "top" /\ pc' # "top" /\ hops[t].sent # 0 /\ now - LastActivity(t) > Window)
                          => hops'[t].status = "TIMEOUT"]_vars
=============================================================================
