---------------------------- MODULE SpanningTree ----------------------------
(***************************************************************************)
(* Prim's algorithm (algo/min_spanning_tree.rs).  An edge enters the heap  *)
(* at most once, when the first of its ends joins the tree; among equal    *)
(* weights the heap may return any edge.                                   *)
(***************************************************************************)
EXTENDS Digraphs, SequencesExt, FiniteSetsExt

Join(g, run, n) ==
  LET tree == run.tree \cup {n}
  IN [run EXCEPT !.tree = tree,
        !.heap = @ \cup {e \in ToSet(EdgeIndicesOf(g, n)) : OtherEnd(g, e, n) \notin tree}]

Lightest(g, heap) == {e \in heap : \A f \in heap : Weight(g, e) <= Weight(g, f)}

NewEnd(g, run, e) == {Tail_(g, e), Head_(g, e)} \ run.tree

\* All the forests the iterator may yield.
RECURSIVE Prim(_, _)
Prim(g, run) ==
  LET fresh == Nodes(g) \ run.tree
      first == CHOOSE n \in fresh : \A m \in fresh : n <= m
      stale == {e \in run.heap : NewEnd(g, run, e) = {}}
  IN IF run.heap \ stale # {} THEN
       UNION {LET after == [run EXCEPT !.heap = @ \ {e}]
                  n == CHOOSE n \in NewEnd(g, run, e) : TRUE
              IN Prim(g, Join(g, [after EXCEPT !.forest = @ \cup {e}], n)) :
                e \in Lightest(g, run.heap \ stale)}
     ELSE IF fresh # {} THEN Prim(g, Join(g, [run EXCEPT !.heap = {}], first))
     ELSE {run.forest}

MinSpanningTrees(g) == Prim(g, [tree |-> {}, heap |-> {}, forest |-> {}])

MinSpanningTreeWeight(g, forest) == MapThenSumSet(LAMBDA e : Weight(g, e), forest)

-----------------------------------------------------------------------------
Spans(g, forest) == WeakComponents(Without(g, EdgeIxs(g) \ forest)) = WeakComponents(g)

(***************************************************************************)
(* Every forest spans the graph without a cycle, and none of that size is  *)
(* lighter, with negative weights and parallel edges too.                  *)
(***************************************************************************)
SpanningMinimal(g) ==
  LET size  == g.size - Cardinality(WeakComponents(g))
      least == Min({MinSpanningTreeWeight(g, f) : f \in
                      {s \in SUBSET EdgeIxs(g) : Cardinality(s) = size /\ Spans(g, s)}})
  IN \A forest \in MinSpanningTrees(g) :
       /\ Cardinality(forest) = size
       /\ Spans(g, forest)
       /\ MinSpanningTreeWeight(g, forest) = least
=============================================================================
