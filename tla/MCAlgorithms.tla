---------------------------- MODULE MCAlgorithms ----------------------------
(***************************************************************************)
(* Graphs of up to three nodes with all sequences of up to three edges,    *)
(* parallel edges and self-loops among them, and simple graphs of four     *)
(* nodes with up to seven edges.  Weights vary on three nodes, and on four *)
(* over the arcs of a diamond with a rung; the arc against the rung, if    *)
(* there is one, weighs -1.                                                *)
(***************************************************************************)
EXTENDS Algorithms

SomeWeights == {-1, 1, 2}

Key(e) == 10 * e.tail + e.head

AllOne(g)   == \A e \in EdgeIxs(g) : Weight(g, e) = 1
InOrder(g)  == \A i \in 1..(Len(g.edges) - 1) : Key(g.edges[i]) <= Key(g.edges[i + 1])
Simple(g)   == /\ \A e \in EdgeIxs(g) : Tail_(g, e) # Head_(g, e)
               /\ \A i \in 1..(Len(g.edges) - 1) : Key(g.edges[i]) < Key(g.edges[i + 1])
Diamond(g)  == \A e \in EdgeIxs(g) : Key(g.edges[e]) \in {12, 13, 23, 32, 24, 34}
\* The arc against the rung closes a cycle of negative, no or positive weight.
WeighedDiamond(g) ==
  Diamond(g) /\ \A e \in EdgeIxs(g) : Key(g.edges[e]) = 32 => Weight(g, e) = -1

Small(g) ==
  IF g.size <= 3 THEN Len(g.edges) <= 3 /\ (AllOne(g) \/ InOrder(g))
                 ELSE Simple(g) /\ Len(g.edges) <= 7 /\ (AllOne(g) \/ WeighedDiamond(g))

SmallOrDiamond(g) == g.size <= 3 \/ WeighedDiamond(g)

Walkable(g) ==
  /\ g.size > 0 /\ AllOne(g)
  /\ Cardinality({e \in EdgeIxs(g) : Tail_(g, e) = Head_(g, e)}) <= 1
  /\ \E e \in EdgeIxs(g) : Tail_(g, e) = 1
  /\ IF g.size <= 3 THEN Len(g.edges) = 3 /\ InOrder(g)
                    ELSE Len(g.edges) = 4 /\ Diamond(g)
=============================================================================
