------------------------------ MODULE Topology ------------------------------
(***************************************************************************)
(* The route graph that main.c keeps of all targets (state/topology.c).    *)
(* Each telemetry snapshot of a target is folded into it: the destination  *)
(* and every address seen at some TTL become nodes, nodes at consecutive   *)
(* TTLs are joined.  Nodes and edges are never removed; both tables are    *)
(* bounded and a full table silently takes nothing more.                   *)
(*                                                                         *)
(* An update runs to its end in main's only thread: one action.            *)
(***************************************************************************)
EXTENDS Integers, SequencesExt

CONSTANTS Target,    \* target addresses
          Router,    \* other addresses
          MaxNodes,  \* NSR_TOPOLOGY_MAX_NODES
          MaxHops,   \* NSR_MAX_HOPS: TTLs are 1..MaxHops - 1
          MaxAliases,\* NSR_MAX_HOP_ALIASES
          MaxWidth   \* bound of a run: addresses in one snapshot

ASSUME TopologyAssumption ==
    MaxNodes \in Nat \ {0} /\ MaxHops \in Nat /\ MaxHops >= 2 /\ MaxAliases \in Nat

VARIABLES nodes,   \* by slot; id 0 is an unused slot
          edges,   \* pairs of ids
          nextId

graphVars == <<nodes, edges, nextId>>

Slots == 0..(MaxNodes - 1)
Unused == [id |-> 0, addr |-> "", target |-> "", ttl |-> 0, dest |-> FALSE]
NodeCount(ns) == Cardinality({s \in DOMAIN ns : ns[s].id # 0})

GraphInit == /\ nodes = [s \in Slots |-> Unused]
        /\ edges = {}
        /\ nextId = 1

-----------------------------------------------------------------------------
(* The two tables while an update runs; ids[i][k] is hop_ids[i][k].        *)

FindSlot(ns, addr, target) == {s \in DOMAIN ns : /\ ns[s].id # 0
                                                 /\ ns[s].addr = addr
                                                 /\ ns[s].target = target}

\* mutant: a full table is not noticed
upsert_node_NoLimit(g, addr, ttl, target, dest) ==
    LET found == FindSlot(g.nodes, addr, target)
        s     == IF found # {} THEN CHOOSE s \in found : TRUE ELSE g.nextId % MaxNodes
        id    == IF found # {} THEN g.nodes[s].id ELSE g.nextId
    IN  [g EXCEPT !.nodes[s] = [id |-> id, addr |-> addr, target |-> target, ttl |-> ttl, dest |-> dest],
                  !.nextId = IF found # {} THEN @ ELSE @ + 1,
                  !.id = id]

(* nsr_topology_upsert_node: the table afterwards, and the id (0: full).   *)
upsert_node(g, addr, ttl, target, dest) ==
    LET found == FindSlot(g.nodes, addr, target)
    IN  IF found # {}
        THEN LET s == CHOOSE s \in found : \A r \in found : s <= r
             IN  [g EXCEPT !.nodes[s].ttl = ttl, !.nodes[s].dest = dest, !.id = g.nodes[s].id]
        ELSE IF NodeCount(g.nodes) >= MaxNodes
        THEN [g EXCEPT !.id = 0]
        ELSE [g EXCEPT !.nodes[g.nextId % MaxNodes] =
                           [id |-> g.nextId, addr |-> addr, target |-> target,
                            ttl |-> ttl, dest |-> dest],
                       !.nextId = g.nextId + 1,
                       !.id = g.nextId]

add_edge(es, from, to) ==
    IF from = 0 \/ to = 0 \/ from = to \/ Cardinality(es) >= MaxNodes * 2
    THEN es ELSE es \cup {<<from, to>>}

(* The hop loop: primary address first, then its aliases.  `hops' is a     *)
(* sequence of sequences of addresses, <<>> where nothing answered.        *)
UpsertAddr(g, target, i, addr) ==
    LET n == upsert_node(g, addr, i, target, FALSE)
    IN  [n EXCEPT !.ids[i] = Append(@, n.id)]

UpsertHop(g, target, i, addrs) ==
    LET upto[k \in 0..Len(addrs)] ==
            IF k = 0 THEN g ELSE UpsertAddr(upto[k - 1], target, i, addrs[k])
    IN  upto[Len(addrs)]

UpsertHops(g, target, hops) ==
    LET upto[i \in 0..Len(hops)] ==
            IF i = 0 THEN g ELSE UpsertHop(upto[i - 1], target, i, hops[i])
    IN  upto[Len(hops)]

\* mutant: a hop before a silent one is left unlinked
Successors_NoFallback(ids, i, destId) == ids[i + 1]

(* The edge loop over consecutive TTLs; a hop without a successor is       *)
(* linked to the destination.  No edge is added for an id 0.               *)
Successors(ids, i, destId) ==
    IF \E n \in DOMAIN ids[i + 1] : ids[i + 1][n] # 0 THEN ids[i + 1] ELSE <<destId>>

Links(ids, destId) ==
    FlattenSeq([i \in 1..(Len(ids) - 1) |->
        LET next == Successors(ids, i, destId)
        IN  FlattenSeq([k \in 1..Len(ids[i]) |->
                          [n \in 1..Len(next) |-> <<ids[i][k], next[n]>>]])])

(* The last TTL whose primary address is in the table.                     *)
LastTtl(ids) ==
    SelectLastInSeq(ids, LAMBDA hop : hop # <<>> /\ hop[1] # 0)

LastLinks(ids, last, destId) ==
    IF last = 0 THEN <<>> ELSE [k \in 1..Len(ids[last]) |-> <<ids[last][k], destId>>]

\* add_edge for one pair of ids after the other
AddEdges(es, new) ==
    LET upto[n \in 0..Len(new)] ==
            IF n = 0 THEN es ELSE add_edge(upto[n - 1], new[n][1], new[n][2])
    IN  upto[Len(new)]

(* `ttl will be fixed after scanning'.                                     *)
FixDestTtl(ns, destId, last) ==
    [s \in DOMAIN ns |-> IF last > 0 /\ destId # 0 /\ ns[s].id = destId
                         THEN [ns[s] EXCEPT !.ttl = last + 1] ELSE ns[s]]

(* nsr_topology_update_from_telemetry                                      *)
Update(target, hops) ==
    LET g0   == [nodes |-> nodes, nextId |-> nextId, id |-> 0,
                 ids |-> [i \in 1..(MaxHops - 1) |-> <<>>]]
        g1   == upsert_node(g0, target, 0, target, TRUE)
        g2   == UpsertHops(g1, target, hops)
        last == LastTtl(g2.ids)
        new  == Links(g2.ids, g1.id) \o LastLinks(g2.ids, last, g1.id)
    IN  /\ nodes' = FixDestTtl(g2.nodes, g1.id, last)
        /\ edges' = AddEdges(edges, new)
        /\ nextId' = g2.nextId

-----------------------------------------------------------------------------
(* Snapshots: per TTL nothing, or a primary address and distinct aliases.  *)
HopLists(target) ==
    {<<>>} \cup {addrs \in SeqOf(Router \cup {target}, 1 + MaxAliases) :
                    addrs # <<>> /\ \A i, j \in 1..Len(addrs) : i # j => addrs[i] # addrs[j]}

Width(hops) == FoldLeft(LAMBDA sum, addrs : sum + Len(addrs), 0, hops)

Snapshots == [target \in Target |->
    {hops \in [1..(MaxHops - 1) -> HopLists(target)] : Width(hops) <= MaxWidth}]

GraphNext == \E target \in Target : \E hops \in Snapshots[target] : Update(target, hops)

GraphSpec == GraphInit /\ [][GraphNext]_graphVars

-----------------------------------------------------------------------------
(* Properties.                                                             *)

Used == {s \in Slots : nodes[s].id # 0}
Ids  == {nodes[s].id : s \in Used}
NodeOf(id) == nodes[CHOOSE s \in Used : nodes[s].id = id]

(* Types of the two tables.                                                *)
GraphTypeOK ==
    /\ nodes \in [Slots -> [id : Nat, addr : Target \cup Router \cup {""},
                            target : Target \cup {""}, ttl : 0..MaxHops, dest : BOOLEAN]]
    /\ edges \subseteq Nat \X Nat
    /\ nextId \in Nat

(* The graph is sound in whatever order addresses turn up at several TTLs, *)
(* as alias, router and destination, and when the table is full: ids are   *)
(* handed out once and no new node lands on the slot of an old one (as     *)
(* many nodes as ids, and one per address and target), and edges join      *)
(* different existing nodes of the same target.                            *)
GraphSound ==
    /\ GraphTypeOK
    /\ Cardinality(Used) = nextId - 1
    /\ \A r, s \in Used : r # s => /\ nodes[r].id # nodes[s].id
                                   /\ \/ nodes[r].addr # nodes[s].addr
                                      \/ nodes[r].target # nodes[s].target
    /\ \A e \in edges : /\ e[1] \in Ids /\ e[2] \in Ids /\ e[1] # e[2]
                        /\ NodeOf(e[1]).target = NodeOf(e[2]).target

(* The ids from which `goal' can be reached along edges.                   *)
ReachesIn(goal) ==
    LET R[n \in Nat] == IF n = 0 THEN {goal}
                        ELSE R[n - 1] \cup {e[1] : e \in {d \in edges : d[2] \in R[n - 1]}}
    IN  R[MaxNodes]

(* As long as the edge table has room, the graph of a target has no loose  *)
(* end, whatever gaps the snapshots had and although a full node table has *)
(* refused hops: every node has a path to the target's destination node.   *)
RoutesReachDestination ==
    Cardinality(edges) < 2 * MaxNodes =>
        \A s \in Used : \A d \in Used :
            nodes[d].addr = nodes[s].target /\ nodes[d].target = nodes[s].target =>
                nodes[s].id \in ReachesIn(nodes[d].id)

-----------------------------------------------------------------------------
(* What a comment or a document says and the code does not do: TLC refutes *)
(* it on this module.  Not part of a run; see `Divergences' in README.md.  *)

(* What the first step of an update sets up (topology.c:122 `Destination   *)
(* node for this target'): the target's own node is the destination.       *)
DestinationMarked ==
    \A s \in Used : nodes[s].addr = nodes[s].target => nodes[s].dest
=============================================================================
