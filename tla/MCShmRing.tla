------------------------------ MODULE MCShmRing ------------------------------
(* The rings of shm_ring.h on small instances: four slots, so that every   *)
(* batch of two wraps around the end of the array sooner or later.         *)
EXTENDS ShmRing
=============================================================================
