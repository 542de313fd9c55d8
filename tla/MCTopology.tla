----------------------------- MODULE MCTopology -----------------------------
(* Two targets behind the same two routers, three TTLs, up to one alias,   *)
(* three nodes: routes with gaps, loops and parallel hops, a destination   *)
(* that answers early, and a node table that is full all occur.            *)
EXTENDS Topology, TLC

AddrSymmetry == Permutations(Target) \cup Permutations(Router)
=============================================================================
