----------------------------- MODULE Algorithms -----------------------------
(***************************************************************************)
(* The algorithms of algo/ and the arrangement of convert/aa.rs on every   *)
(* graph that Traversal builds.  They read a graph and keep nothing from   *)
(* one call to the next, so that what each of them promises is a property  *)
(* of the graph: its result against a reference definition that computes   *)
(* nothing the way the code does.                                          *)
(***************************************************************************)
EXTENDS Traversal

CONSTANT Weighable(_)   \* bound: the graphs on which weights are looked at

Sorts      == INSTANCE Toposort
Conn       == INSTANCE Components
Cuts       == INSTANCE CutEdges
Dom        == INSTANCE Dominators
Colors     == INSTANCE Bipartite
Reduce     == INSTANCE Reduction
Feedback   == INSTANCE FeedbackArcs
Shortest   == INSTANCE ShortestPaths
Spanning   == INSTANCE SpanningTree
Matchings  == INSTANCE Matching
Layers     == INSTANCE Layering
Held       == INSTANCE Views

\* Most of the algorithms do not look at weights: one weighting is enough.
Unweighted == kind = "none" /\ \A e \in EdgeIxs(graph) : Weight(graph, e) = 1
Weighted   == kind = "none" /\ Weighable(graph)

\* The weights as a caller may pass them to the algorithms that ask for
\* weights without a sign.
Raised == [graph EXCEPT !.edges = [e \in EdgeIxs(graph) |->
             [graph.edges[e] EXCEPT !.weight = @ + 1]]]

(***************************************************************************)
(* Both topological sorts succeed exactly on acyclic graphs and respect    *)
(* every edge; otherwise each blames a node that a cycle leads to.         *)
(***************************************************************************)
SortsRespectEdges == Unweighted => Sorts!SortsExact(graph)

(***************************************************************************)
(* Tarjan's components are the strong ones, in reverse topological order,  *)
(* and the condensation is theirs; Kosaraju's never split one; weak        *)
(* components are counted and paths decided as they are.                   *)
(***************************************************************************)
ComponentsExact ==
  Unweighted => /\ Conn!TarjanExact(graph)
                /\ Conn!KosarajuNeverSplits(graph)
                /\ Conn!PathsExact(graph)

(***************************************************************************)
(* What separates: bridges, articulation points and, from every start,     *)
(* the immediate dominators, found exactly in spite of parallel edges,     *)
(* self-loops and a numbering that is no post-order.                       *)
(***************************************************************************)
SeparatorsExact ==
  Unweighted => Cuts!CutsExact(graph) /\ Dom!DominatorsExact(graph)

(***************************************************************************)
(* A two-colouring is found exactly if there is one; matchings are         *)
(* matchings, maximal, and a largest one on such a graph.                  *)
(***************************************************************************)
MatchingsAndColorings ==
  Unweighted => Colors!ColoringExact(graph) /\ Matchings!MatchingsGrow(graph)

(***************************************************************************)
(* Every simple path is enumerated, once per choice of parallel edges; the *)
(* transitive reduction keeps what the paths join, and nothing besides.    *)
(***************************************************************************)
PathsEnumerated ==
  Unweighted => Shortest!SimplePathsExact(graph) /\ Reduce!ReductionExact(graph)

(***************************************************************************)
(* Whatever order hash sets give, the greedy feedback arc set breaks every *)
(* cycle with at most half of the edges; a drawing puts every node in one  *)
(* layer, as high as the edges between components allow, and makes one     *)
(* edge of two reciprocal ones exactly if they have one label (two nodes   *)
(* are enough to tell: no edge between others is looked at).               *)
(***************************************************************************)
CyclesBroken ==
  /\ Unweighted => Feedback!FeedbackArcsBounded(graph) /\ Layers!LayersExact(graph)
  /\ Weighted /\ graph.size = 2 => Layers!LabelsKept(graph)

(***************************************************************************)
(* Distances, k shortest paths and spanning forests are optimal whatever   *)
(* entry the heap returns among equals; negative cycles are reported       *)
(* exactly where they are in reach.                                        *)
(***************************************************************************)
WeightsOptimal ==
  Weighted => /\ Shortest!NegativeWeightsExact(graph)
              /\ Shortest!PathsShortest(Raised)
              /\ Spanning!SpanningMinimal(graph)

(***************************************************************************)
(* A sparse matrix, its rows read as tails, and an undirected view show    *)
(* the graph they hold; a matrix built as it is documented shows the       *)
(* reversed graph.                                                         *)
(***************************************************************************)
ViewsExact == Unweighted => Held!ViewsExact(graph)

(***************************************************************************)
(* "Compute strongly connected components using Kosaraju's algorithm.      *)
(* Returns an iterator yielding SCCs." (algo/connectivity.rs): the sets it *)
(* yields are the strong components.                                       *)
(***************************************************************************)
KosarajuIsExact == Unweighted => Conn!KosarajuExact(graph)
=============================================================================
