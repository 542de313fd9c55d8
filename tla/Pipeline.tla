------------------------------ MODULE Pipeline ------------------------------
(***************************************************************************)
(* Flow control between the logic engine (io/logic.c) and the gatekeeper   *)
(* (io/gatekeeper.c) of one session.  Both push with `while (!push) ;':    *)
(* the logic engine does not look at observations before its whole burst   *)
(* of intents is in l2g, the gatekeeper does not look at intents before    *)
(* its batch of observations is in g2l.  If both rings fill, each waits    *)
(* for the other for ever.                                                 *)
(*                                                                         *)
(* Only numbers of items matter here.  A ring is the count of its items    *)
(* (module ShmRing shows that a ring is a bounded FIFO); the inflight      *)
(* table is the count of its active entries.                               *)
(***************************************************************************)
EXTENDS Integers

CONSTANTS Cap,         \* most items a ring admits: SHM_RING_SIZE - 2
          MaxInflight, \* NSR_GK_MAX_INFLIGHT
          MaxBurst,    \* MAX_BURST
          Batch,       \* BATCH_SIZE and LOGIC_BATCH
          MaxCrashes   \* crashes between two completed drains: a bound

ASSUME PipelineAssumption ==
    /\ Cap \in Nat /\ MaxInflight \in Nat \ {0} /\ MaxBurst \in Nat \ {0}
    /\ Batch \in Nat \ {0} /\ MaxCrashes \in Nat
    /\ Batch <= Cap

(* The capacity under which nothing can go wrong.  The shipped constants   *)
(* satisfy it for up to 1022 crashes in a row: 131070 >= 65536 + 1023 * 64.*)
ASSUME RoomAssumption == Cap >= MaxInflight + (MaxCrashes + 1) * MaxBurst

VARIABLES
    l2g, g2l,      \* items in the two rings
    lpc, toPush,   \* the logic engine: where its loop stands ("top", "push",
                   \*   "drain"), intents of the burst still to push
    gpc, pend,     \* the gatekeeper: "pop", "recv", "push", and the
                   \*   observations of the batch it is pushing
    inflight,      \* active entries of g_inflight
    crashes        \* crashes since the logic engine last emptied g2l

logic == <<lpc, toPush>>
gk    == <<gpc, pend, inflight>>
flowVars  == <<l2g, g2l, logic, gk, crashes>>

FlowInit ==
    /\ l2g = 0 /\ g2l = 0
    /\ lpc = "top" /\ toPush = 0
    /\ gpc = "pop" /\ pend = 0 /\ inflight = 0
    /\ crashes = 0

-----------------------------------------------------------------------------
(* The loop of nsr_logic_run.                                              *)

\* not paused and the interval is over: build a burst, clamped to MAX_BURST
LogicBurst ==
    /\ lpc = "top"
    /\ toPush' \in 1..MaxBurst
    /\ lpc' = "push"
    /\ UNCHANGED <<l2g, g2l, gk, crashes>>

\* paused, or too early: sleep, then drain
LogicSkip ==
    /\ lpc = "top"
    /\ lpc' = "drain"
    /\ UNCHANGED <<l2g, g2l, toPush, gk, crashes>>

\* one iteration of the push loop; while the ring is full it spins
LogicPush ==
    /\ lpc = "push"
    /\ l2g + 1 <= Cap
    /\ l2g' = l2g + 1
    /\ toPush' = toPush - 1
    /\ lpc' = IF toPush = 1 THEN "drain" ELSE "push"
    /\ UNCHANGED <<g2l, gk, crashes>>

\* mutants: the pop does not store tail; only full batches are popped
LogicDrain_KeepsTail ==
    /\ lpc = "drain" /\ g2l > 0
    /\ UNCHANGED flowVars

LogicDrain_FullOnly ==
    /\ lpc = "drain" /\ g2l >= Batch
    /\ g2l' = g2l - Batch
    /\ UNCHANGED <<l2g, logic, gk, crashes>>

LogicDrain ==
    /\ lpc = "drain"
    /\ g2l > 0
    /\ g2l' = IF g2l < Batch THEN 0 ELSE g2l - Batch
    /\ UNCHANGED <<l2g, logic, gk, crashes>>

\* mutant: one look at the observations per round, not until there are none
LogicDrained_OneBatch ==
    /\ lpc = "drain"
    /\ lpc' = "top" /\ crashes' = 0
    /\ UNCHANGED <<l2g, g2l, toPush, gk>>

\* the pop that finds g2l empty ends the round
LogicDrained ==
    /\ lpc = "drain"
    /\ g2l = 0
    /\ lpc' = "top"
    /\ crashes' = 0
    /\ UNCHANGED <<l2g, g2l, toPush, gk>>

-----------------------------------------------------------------------------
(* The loop of nsr_gatekeeper_run.                                         *)

(* Pop intents, reap stale entries, track the popped probes (an entry that *)
(* was still active is overwritten: only `fresh' become active anew), send *)
(* them, and drop the ones sendmmsg did not take.                          *)
GkPop ==
    /\ gpc = "pop"
    /\ \E n \in 0..Batch, reaped \in 0..inflight, fresh \in 0..Batch, dropped \in 0..Batch :
          /\ n = IF l2g < Batch THEN l2g ELSE Batch
          /\ fresh <= n /\ dropped <= n
          /\ inflight - reaped + fresh <= MaxInflight
          /\ inflight - reaped + fresh - dropped >= 0
          /\ l2g' = l2g - n
          /\ inflight' = inflight - reaped + fresh - dropped
    /\ gpc' = "recv"
    /\ UNCHANGED <<g2l, pend, logic, crashes>>

\* mutant: find_probe leaves the entry active
GkRecv_KeepsEntry ==
    /\ gpc = "recv"
    /\ \E n \in 1..Batch : n <= inflight /\ pend' = n
    /\ gpc' = "push"
    /\ UNCHANGED <<l2g, g2l, inflight, logic, crashes>>

(* recvmmsg returns packets, of which n answer an active probe; find_probe *)
(* clears each entry it finds.                                             *)
GkRecv ==
    /\ gpc = "recv"
    /\ \E n \in 1..Batch :
          /\ n <= inflight
          /\ pend' = n
          /\ inflight' = inflight - n
    /\ gpc' = "push"
    /\ UNCHANGED <<l2g, g2l, logic, crashes>>

GkRecvEmpty ==
    /\ gpc = "recv"
    /\ gpc' = "pop"
    /\ UNCHANGED <<l2g, g2l, pend, inflight, logic, crashes>>

\* the whole batch or nothing; while it does not fit it spins
GkPush ==
    /\ gpc = "push"
    /\ g2l + pend <= Cap
    /\ g2l' = g2l + pend
    /\ pend' = 0
    /\ gpc' = "recv"
    /\ UNCHANGED <<l2g, inflight, logic, crashes>>

-----------------------------------------------------------------------------
(* A crashed child is forked again by main.c on the same rings: the logic  *)
(* engine starts over with a burst before its first drain, the gatekeeper  *)
(* with an empty table.                                                    *)
LogicCrash ==
    /\ crashes < MaxCrashes
    /\ crashes' = crashes + 1
    /\ lpc' = "top" /\ toPush' = 0
    /\ UNCHANGED <<l2g, g2l, gk>>

GkCrash ==
    /\ crashes < MaxCrashes
    /\ crashes' = crashes + 1
    /\ gpc' = "pop" /\ pend' = 0 /\ inflight' = 0
    /\ UNCHANGED <<l2g, g2l, logic>>

LogicStep == LogicBurst \/ LogicSkip \/ LogicPush \/ LogicDrain \/ LogicDrained
GkStep    == GkPop \/ GkRecv \/ GkRecvEmpty \/ GkPush
FlowNext == LogicStep \/ GkStep \/ LogicCrash \/ GkCrash

FlowSpec == FlowInit /\ [][FlowNext]_flowVars

(* Both processes run, and the socket's receive queue does run empty.      *)
FlowFairSpec == /\ FlowSpec
            /\ WF_flowVars(LogicStep)
            /\ WF_flowVars(GkPop) /\ WF_flowVars(GkRecvEmpty) /\ WF_flowVars(GkPush)

-----------------------------------------------------------------------------
(* Properties.                                                             *)

(* Types and the ring bounds that the two push guards keep.                *)
FlowTypeOK ==
    /\ l2g \in 0..Cap /\ g2l \in 0..Cap
    /\ lpc \in {"top", "push", "drain"} /\ toPush \in 0..MaxBurst
    /\ gpc \in {"pop", "recv", "push"}
    /\ pend \in 0..Batch /\ inflight \in 0..MaxInflight
    /\ crashes \in 0..MaxCrashes

LogicBlocked == lpc = "push" /\ l2g + 1 > Cap
GkBlocked    == gpc = "push" /\ g2l + pend > Cap

(* The two spin loops (logic.c:247, gatekeeper.c:390) never wait for each  *)
(* other at the same time: the session cannot lock up.                     *)
NoCircularWait == ~(LogicBlocked /\ GkBlocked)

(* A batch of observations is always delivered: the gatekeeper comes back  *)
(* to its socket.                                                          *)
ObservationsLeave == (gpc = "push") ~> (gpc = "recv")

(* Rounds go on: every burst gets into l2g, and the drain loop of the logic*)
(* engine cannot be kept busy for ever by the gatekeeper.                  *)
RoundsGoOn == []<>(lpc = "drain" /\ g2l = 0)

(* Work in the system, counted at every place an observation can come from.*)
Work == l2g + inflight + pend + g2l

(* What a round may add, on top of what one ring and the table hold.       *)
Owed == (IF lpc = "top" THEN 0 ELSE MaxBurst - (IF lpc = "push" THEN toPush ELSE 0))
          + crashes * MaxBurst

(* The conserved quantity behind NoCircularWait: nothing but the logic     *)
(* engine's pushes adds work, and a completed drain leaves at most a full  *)
(* l2g and a full table.                                                   *)
WorkBounded ==
    /\ pend + inflight <= MaxInflight
    /\ lpc = "push" => toPush > 0
    /\ gpc # "push" => pend = 0
    /\ Work <= Cap + MaxInflight + Owed
=============================================================================
