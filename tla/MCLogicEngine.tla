---------------------------- MODULE MCLogicEngine ----------------------------
(* Instances of module LogicEngine for TLC.                                *)
EXTENDS LogicEngine, TLC

AddrSymmetry == Permutations(Addr)
=============================================================================
