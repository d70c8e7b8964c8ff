------------------------------ MODULE Overlay ------------------------------
(***************************************************************************)
(* The overlay: the edge sets of py/topology/generator.py, the next-hop    *)
(* table it writes into the overlay file, and the table's use by the nodes *)
(* (cpp/common/overlay.cpp).  Nodes A to I are 1 to 9; the gateway is A.   *)
(***************************************************************************)
EXTENDS Integers, Sequences, SequencesExt

Gateway == 1

(* edges_star, edges_tree, edges_binary_tree, edges_chain, edges_ring,
   edges_grid; the chain for any number of nodes. *)
Star       == {<<1, n>> : n \in 2..9}
Tree       == {<<1, 2>>, <<2, 3>>, <<2, 4>>, <<2, 5>>, <<5, 6>>, <<5, 4>>,
               <<5, 7>>, <<1, 8>>, <<1, 7>>, <<1, 9>>}
BinaryTree == {<<n \div 2, n>> : n \in 2..9}
Chain(n)   == {<<i, i + 1>> : i \in 1..(n - 1)}
Ring       == Chain(9) \cup {<<9, 1>>}
Grid       == {<<n, n + 1>> : n \in {1, 2, 4, 5, 7, 8}} \cup {<<n, n + 3>> : n \in 1..6}

NodesOf(edges) == UNION {{e[1], e[2]} : e \in edges}

(* build_adj: edges go both ways. *)
Neighbours(edges, n) ==
    {m \in NodesOf(edges) : <<n, m>> \in edges \/ <<m, n>> \in edges}

(* The nodes the breadth-first search from src has seen after 0, 1, 2...
   layers. *)
Layers(edges, src) ==
    LET layers[k \in 0..Cardinality(NodesOf(edges))] ==
          IF k = 0 THEN <<{src}>>
          ELSE LET seen == layers[k - 1]
                   far  == seen[k]
               IN  Append(seen, far \cup UNION {Neighbours(edges, n) : n \in far})
    IN  layers[Cardinality(NodesOf(edges))]

(* How many hops it needs to each node. *)
Distances(edges, src) ==
    LET seen == Layers(edges, src)
    IN  [n \in NodesOf(edges) |-> Min({k \in DOMAIN seen : n \in seen[k]}) - 1]

(* bfs_next_hop: the search starts from src's neighbours in order and keeps
   their order from layer to layer, so it finds dst by way of the least
   neighbour that is on a shortest path. *)
BfsNextHop(edges, src) ==
    [dst \in NodesOf(edges) |->
        LET far == Distances(edges, dst)
        IN  IF dst = src THEN src
            ELSE Min({nb \in Neighbours(edges, src) : far[nb] = far[src] - 1})]

Routing(edges) == [src \in NodesOf(edges) |-> BfsNextHop(edges, src)]

NoRoute == -1

(* Mutant: the table is read by target first. *)
NextHopSwapped(routing, src, dst) ==
    IF dst \in DOMAIN routing /\ src \in DOMAIN routing[dst]
    THEN routing[dst][src] ELSE NoRoute

(* next_hop; NoRoute where it throws. *)
NextHop(routing, src, dst) ==
    IF src \in DOMAIN routing /\ dst \in DOMAIN routing[src]
    THEN routing[src][dst] ELSE NoRoute

-----------------------------------------------------------------------------
(* Nodes have numbers, and no part of them is cut off from the rest. *)
Connected(edges) ==
    /\ IsFiniteSet(NodesOf(edges)) /\ NodesOf(edges) \subseteq Nat
    /\ \A S \in SUBSET NodesOf(edges) :
          S # {} /\ S # NodesOf(edges) => \E n \in S : ~(Neighbours(edges, n) \subseteq S)

(* Every entry of the table names a neighbour that is one hop nearer. *)
Approaches(routing, edges) ==
    \A src \in DOMAIN routing \cap NodesOf(edges) :
        \A dst \in (DOMAIN routing[src] \cap NodesOf(edges)) \ {src} :
            LET hop == routing[src][dst]
            IN  /\ hop \in Neighbours(edges, src)
                /\ Distances(edges, dst)[hop] = Distances(edges, dst)[src] - 1
=============================================================================
