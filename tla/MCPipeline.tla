----------------------------- MODULE MCPipeline -----------------------------
(* Rings of seven items, three inflight entries, bursts of two: just the   *)
(* room that RoomAssumption asks for, so both rings do fill.               *)
EXTENDS Pipeline
=============================================================================
