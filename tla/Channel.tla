------------------------------- MODULE Channel -------------------------------
(***************************************************************************)
(* What a shared-memory ring promises its two users: a bounded FIFO queue  *)
(* whose writer appends a whole batch at once or nothing, and whose reader *)
(* takes a prefix.  No step loses, reorders, duplicates or changes an item *)
(* while it is queued, and neither user can disturb what the other sees.   *)
(***************************************************************************)
EXTENDS Naturals, Sequences

CONSTANTS Item,      \* what the queue carries
          Capacity,  \* the most items it ever holds
          MaxBatch,  \* the most items of one push
          MaxPop     \* the most items of one pop

VARIABLES queue,     \* the items pushed and not yet popped, oldest first
          delivered  \* the batch the last pop returned

chVars == <<queue, delivered>>

Batch(n) == UNION {[1..k -> Item] : k \in 1..n}

ChInit == queue = <<>> /\ delivered = <<>>

ChPush(batch) ==
    /\ Len(queue) + Len(batch) <= Capacity
    /\ queue' = queue \o batch
    /\ UNCHANGED delivered

ChPop(n) ==
    /\ n <= Len(queue)
    /\ delivered' = SubSeq(queue, 1, n)
    /\ queue' = SubSeq(queue, n + 1, Len(queue))

ChNext == \/ \E batch \in Batch(MaxBatch) : ChPush(batch)
          \/ \E n \in 1..MaxPop : ChPop(n)

ChSpec == ChInit /\ [][ChNext]_chVars
=============================================================================
