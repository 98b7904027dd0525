------------------------------ MODULE Digraphs ------------------------------
(***************************************************************************)
(* What the algorithms of algo/ see of a graph: nodes 1..g.size, listed in *)
(* that order, and edges in the order in which the graph lists the edges   *)
(* of a node, oldest first as a Vec-backed flat graph does.  Parallel      *)
(* edges and self-loops are ordinary edges.                                *)
(*                                                                         *)
(* Below, the reference definitions that the algorithms are checked        *)
(* against; they say what a path, a distance or a component is and compute *)
(* nothing the way the code does.                                          *)
(***************************************************************************)
EXTENDS Integers, Sequences, FiniteSets

NoEdges(n) == [size |-> n, edges |-> <<>>]

Nodes(g)   == 1..g.size
EdgeIxs(g) == DOMAIN g.edges
Tail_(g, e) == g.edges[e].tail
Head_(g, e) == g.edges[e].head
Weight(g, e) == g.edges[e].weight

EdgeSeq(g) == [e \in EdgeIxs(g) |-> e]

EdgeIndicesFrom(g, n) == SelectSeq(EdgeSeq(g), LAMBDA e : Tail_(g, e) = n)
EdgeIndicesTo(g, n)   == SelectSeq(EdgeSeq(g), LAMBDA e : Head_(g, e) = n)

\* Outgoing edges first; a self-loop is listed once.
EdgeIndicesOf(g, n) ==
  EdgeIndicesFrom(g, n) \o
  SelectSeq(EdgeSeq(g), LAMBDA e : Head_(g, e) = n /\ Tail_(g, e) # n)

\* The end of an incident edge that is not n, or n for a self-loop.
OtherEnd(g, e, n) == IF Tail_(g, e) = n THEN Head_(g, e) ELSE Tail_(g, e)

\* One neighbour per edge: parallel edges repeat it.
NeighborsFrom(g, n) ==
  LET es == EdgeIndicesFrom(g, n) IN [i \in DOMAIN es |-> Head_(g, es[i])]
NeighborsTo(g, n) ==
  LET es == EdgeIndicesTo(g, n) IN [i \in DOMAIN es |-> Tail_(g, es[i])]
NeighborsOf(g, n) ==
  LET es == EdgeIndicesOf(g, n) IN [i \in DOMAIN es |-> OtherEnd(g, es[i], n)]

-----------------------------------------------------------------------------
(* Reference definitions                                                   *)

\* The nodes reached from the nodes S by the pairs of the relation R.
Closure(R, S) ==
  LET Grow[T \in SUBSET (S \cup {p[2] : p \in R})] ==
        LET next == T \cup {p[2] : p \in {q \in R : q[1] \in T}}
        IN IF next = T THEN T ELSE Grow[next]
  IN Grow[S]

Arcs(g)       == {<<Tail_(g, e), Head_(g, e)>> : e \in EdgeIxs(g)}
Symmetric(R)  == R \cup {<<p[2], p[1]>> : p \in R}

Reachable(g, S) == Closure(Arcs(g), S)
ReachMap(g)     == LET R == Arcs(g) IN [n \in Nodes(g) |-> Closure(R, {n})]
\* The nodes n lies on a cycle with, n itself only on a cycle of its own.
OnCycle(g, n)   == n \in Closure(Arcs(g), {p[2] : p \in {q \in Arcs(g) : q[1] = n}})
Acyclic(g)      == \A n \in Nodes(g) : ~OnCycle(g, n)

StrongComponents(g) ==
  LET reach == ReachMap(g)
  IN {{m \in reach[n] : n \in reach[m]} : n \in Nodes(g)}
WeakComponents(g) ==
  {Closure(Symmetric(Arcs(g)), {n}) : n \in Nodes(g)}

\* g without some of its edges, or with the ends of every edge swapped.
Without(g, dropped) ==
  [g EXCEPT !.edges = LET kept == SelectSeq(EdgeSeq(g), LAMBDA e : e \notin dropped)
                      IN [i \in DOMAIN kept |-> g.edges[kept[i]]]]
=============================================================================
