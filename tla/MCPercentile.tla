---------------------------- MODULE MCPercentile ----------------------------
(* Two hops, rings of three samples and three minutes; instance for TLC.   *)
EXTENDS Percentile

CONSTANTS a, b

Hop(addr, rtt, recv) == [addr |-> addr, rtt |-> rtt, recv |-> recv]

MCLines == {<<Hop(a, 1, 1)>>,
            <<Hop(a, 4, 3), Hop(b, 2, 1)>>,
            <<Hop(b, 5, 0), Hop(NoHopAddr, 3, 1), Hop(b, 0, 1), Hop(b, 3, 1)>>}
=============================================================================
