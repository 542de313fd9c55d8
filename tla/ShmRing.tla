------------------------------- MODULE ShmRing -------------------------------
(***************************************************************************)
(* The lock-free ring in a shared mapping through which two processes of   *)
(* a session talk (include/nsr/shm_ring.h): one writer, one reader, no     *)
(* lock.  Large = FALSE is nsr_shm_ring_t (intents and observations, moved *)
(* in batches), Large = TRUE is nsr_shm_ring_large_t (telemetry states, one*)
(* at a time).                                                             *)
(*                                                                         *)
(* A call is not one step.  It loads the two indices, copies item by item, *)
(* and publishes by storing its own index; the other process, or a crash   *)
(* of either, may fall between any two of these.  The load of the other    *)
(* side's index is an acquire load: it may return any value that side has  *)
(* stored since the last one this side saw (Visible).                      *)
(*                                                                         *)
(* The mapping survives a crash and is not cleared when main.c starts the  *)
(* process again: only the local variables of the call are lost.           *)
(***************************************************************************)
EXTENDS Integers, Sequences

CONSTANTS Item,     \* what is stored
          NoItem,   \* the zero bytes of a fresh mapping
          Size,     \* SHM_RING_SIZE, or 16 for the large ring
          MaxBatch, \* the largest count of a push: BATCH_SIZE of gatekeeper.c
          MaxPop,   \* the largest max_count of a pop: LOGIC_BATCH, BATCH_SIZE
          Large     \* which of the two ring types

ASSUME RingAssumption ==
    /\ Size \in Nat /\ Size >= 3
    /\ MaxBatch \in Nat \ {0} /\ MaxPop \in Nat \ {0}
    /\ Large \in BOOLEAN
    /\ Large => MaxBatch = 1 /\ MaxPop = 1
    /\ NoItem \notin Item

VARIABLES
    head, tail, data,       \* the mapping, shared
    pbatch, pi, pview,      \* the writer: items of the push under way (<<>>:
                            \*   none), how many are copied, last tail it saw
    cn, cout, cview,        \* the reader: count of the pop under way (0: none),
                            \*   items copied out, last head it saw
    delivered               \* the batch the last completed pop returned

mem    == <<head, tail, data>>
writer == <<pbatch, pi, pview>>
reader == <<cn, cout, cview>>
vars   == <<mem, writer, reader, delivered>>

-----------------------------------------------------------------------------
(* x & (SIZE - 1) and (h - t) & (SIZE - 1); SIZE is a power of two.        *)
Mask(x)    == x % Size
Used(h, t) == (h - t) % Size

(* What an acquire load may return: coherence forbids going back behind    *)
(* `seen', and nothing newer than `now' has been stored.                   *)
Visible(seen, now) == {Mask(seen + k) : k \in 0..Used(now, seen)}

\* mutant: no slot is kept free
Overflows_NoSpare(t, count) == IF Large THEN FALSE ELSE Used(head, t) + count > Size

(* The early return of a push that does not fit.                           *)
Overflows(t, count) == IF Large THEN Mask(head + 1) = t
                                ELSE Used(head, t) + count >= Size - 1

(* Items of one push: the caller's array.                                  *)
Batches == UNION {[1..k -> Item] : k \in 1..MaxBatch}

Init ==
    /\ head = 0 /\ tail = 0
    /\ data = [i \in 0..(Size - 1) |-> NoItem]
    /\ pbatch = <<>> /\ pi = 0 /\ pview = 0
    /\ cn = 0 /\ cout = <<>> /\ cview = 0
    /\ delivered = <<>>

-----------------------------------------------------------------------------
(* The writer: nsr_shm_ring_push_batch and nsr_shm_ring_large_push.        *)

PushBegin(batch) ==
    /\ pbatch = <<>>
    /\ \E t \in Visible(pview, tail) :
          /\ ~Overflows(t, Len(batch))
          /\ pview' = t
    /\ pbatch' = batch
    /\ pi' = 0
    /\ UNCHANGED <<mem, reader, delivered>>

\* returns false: the caller keeps its items and may call again
PushFull(count) ==
    /\ pbatch = <<>>
    /\ \E t \in Visible(pview, tail) :
          /\ Overflows(t, count)
          /\ pview' = t
    /\ UNCHANGED <<mem, pbatch, pi, reader, delivered>>

PushCopy ==
    /\ pi < Len(pbatch)
    /\ data' = [data EXCEPT ![Mask(head + pi)] = pbatch[pi + 1]]
    /\ pi' = pi + 1
    /\ UNCHANGED <<head, tail, pbatch, pview, reader, delivered>>

\* mutants: the store of head is not masked; it comes before the last copy
PushCommit_Unmasked ==
    /\ pbatch # <<>> /\ pi = Len(pbatch)
    /\ head' = head + Len(pbatch)
    /\ pbatch' = <<>> /\ pi' = 0
    /\ UNCHANGED <<tail, data, pview, reader, delivered>>

PushCommit_Early ==
    /\ pbatch # <<>> /\ pi >= Len(pbatch) - 1
    /\ head' = Mask(head + Len(pbatch))
    /\ pbatch' = <<>> /\ pi' = 0
    /\ UNCHANGED <<tail, data, pview, reader, delivered>>

PushCommit ==
    /\ pbatch # <<>>
    /\ pi = Len(pbatch)
    /\ head' = Mask(head + Len(pbatch))
    /\ pbatch' = <<>>
    /\ pi' = 0
    /\ UNCHANGED <<tail, data, pview, reader, delivered>>

-----------------------------------------------------------------------------
(* The reader: nsr_shm_ring_pop_batch and nsr_shm_ring_large_pop.          *)

PopBegin(max) ==
    /\ cn = 0
    /\ \E h \in Visible(cview, head) :
          /\ Used(h, tail) # 0
          /\ cview' = h
          /\ cn' = IF Used(h, tail) < max THEN Used(h, tail) ELSE max
    /\ cout' = <<>>
    /\ UNCHANGED <<mem, writer, delivered>>

PopEmpty ==
    /\ cn = 0
    /\ \E h \in Visible(cview, head) :
          /\ Used(h, tail) = 0
          /\ cview' = h
    /\ UNCHANGED <<mem, writer, cn, cout, delivered>>

\* mutant: copies from the slot after
PopCopy_OffByOne ==
    /\ Len(cout) < cn
    /\ cout' = Append(cout, data[Mask(tail + Len(cout) + 1)])
    /\ UNCHANGED <<mem, writer, cn, cview, delivered>>

PopCopy ==
    /\ Len(cout) < cn
    /\ cout' = Append(cout, data[Mask(tail + Len(cout))])
    /\ UNCHANGED <<mem, writer, cn, cview, delivered>>

PopCommit ==
    /\ cn > 0
    /\ Len(cout) = cn
    /\ tail' = Mask(tail + cn)
    /\ delivered' = cout
    /\ cn' = 0
    /\ cout' = <<>>
    /\ UNCHANGED <<head, data, writer, cview>>

-----------------------------------------------------------------------------
(* main.c reaps a dead child and forks a new one on the same mapping.      *)

WriterCrash ==
    /\ pbatch # <<>>
    /\ pbatch' = <<>>
    /\ pi' = 0
    /\ UNCHANGED <<mem, pview, reader, delivered>>

ReaderCrash ==
    /\ cn > 0
    /\ cn' = 0
    /\ cout' = <<>>
    /\ UNCHANGED <<mem, writer, cview, delivered>>

Writer == \/ \E batch \in Batches : PushBegin(batch)
          \/ \E count \in 1..MaxBatch : PushFull(count)
          \/ PushCopy
          \/ PushCommit
Reader == \/ \E max \in 1..MaxPop : PopBegin(max)
          \/ PopEmpty
          \/ PopCopy
          \/ PopCommit
Next == Writer \/ Reader \/ WriterCrash \/ ReaderCrash

Spec == Init /\ [][Next]_vars

-----------------------------------------------------------------------------
(* Properties.                                                             *)

Index == 0..(Size - 1)

(* Types of the mapping and of the locals of the two calls.                *)
TypeOK ==
    /\ head \in Index /\ tail \in Index
    /\ data \in [Index -> Item \cup {NoItem}]
    /\ pbatch \in Batches \cup {<<>>}
    /\ pi \in 0..Len(pbatch)
    /\ pview \in Index /\ cview \in Index
    /\ cn \in 0..MaxPop
    /\ cout \in Seq(Item \cup {NoItem})
    /\ Len(cout) <= cn
    /\ delivered \in Seq(Item \cup {NoItem})

(* The slots a push under way still writes or has written, and the slots a *)
(* pop under way reads.                                                    *)
WriteSlots == {Mask(head + i) : i \in 0..(Len(pbatch) - 1)}
ReadSlots  == {Mask(tail + i) : i \in 0..(cn - 1)}

(* The memcpy of a push and the memcpy of a pop that are under way at the  *)
(* same time never touch the same slot, whatever indices the two loaded:   *)
(* the data race the atomics of shm_ring.h are there to exclude.           *)
NoSlotRace == WriteSlots \cap ReadSlots = {}

(* The ring never holds more than its push admits, also after a crash in   *)
(* the middle of one: a full ring never looks like an empty one.           *)
Capacity == IF Large THEN Size - 1 ELSE Size - 2
WithinCapacity == Used(head, tail) + Len(pbatch) <= Capacity

(* A pop under way has copied exactly the oldest items of the ring, so     *)
(* what it returns is what was pushed, in order, and never a zero slot.    *)
CopiedOldest ==
    \A i \in 1..Len(cout) : /\ cout[i] = data[Mask(tail + (i - 1))]
                            /\ cout[i] \in Item

(* The ring implements the bounded FIFO channel: every step of either call *)
(* is a push of the whole batch, a pop of a prefix, or invisible.          *)
Contents == [i \in 1..Used(head, tail) |-> data[Mask(tail + (i - 1))]]
Fifo == INSTANCE Channel WITH queue <- Contents
FifoSpec == Fifo!ChSpec
=============================================================================
