----------------------------- MODULE MCProbePath -----------------------------
(* Four sequence numbers and three TTLs: as in the code the numbers wrap   *)
(* and the wrap changes which TTL a number stands for (65536 mod 30 # 0,   *)
(* 4 mod 3 # 0).                                                           *)
EXTENDS ProbePath
=============================================================================
