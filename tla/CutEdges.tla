------------------------------ MODULE CutEdges ------------------------------
(***************************************************************************)
(* Bridges and articulation points (algo/bridges.rs).  Both are found by a *)
(* depth-first search that ignores directions and computes lowlinks; they  *)
(* differ in what a node passes over on the way down: its parent edge, so  *)
(* that a parallel edge counts as a way back, or its parent node.          *)
(***************************************************************************)
EXTENDS Digraphs, SequencesExt

NoEdge == 0
Unmet  == -1

\* collect_undirected_neighbors: the incident edges but for self-loops.
Links(g, n) == SelectSeq(EdgeIndicesOf(g, n), LAMBDA e : OtherEnd(g, e, n) # n)

Visit(g, run, n, via) ==
  [run EXCEPT !.disc[n] = run.timer, !.low[n] = run.timer, !.timer = @ + 1,
              !.stack = Append(@, [node |-> n, via |-> via, rest |-> Links(g, n)])]

Sink(run, n, to) == [run EXCEPT !.low[n] = IF to < @ THEN to ELSE @]

\* Mutant: bridges passes over every edge to the parent.
PassesOverParent(g, byNode, top, e) ==
  /\ top.via # NoEdge
  /\ OtherEnd(g, e, top.node) = OtherEnd(g, top.via, top.node)

PassesOver(g, byNode, top, e) ==
  IF byNode
    THEN top.via # NoEdge /\ OtherEnd(g, e, top.node) = OtherEnd(g, top.via, top.node)
    ELSE e = top.via

Descend(g, byNode, run) ==
  LET top  == Last(run.stack)
      e    == Head(top.rest)
      to   == OtherEnd(g, e, top.node)
      rest == [run EXCEPT !.stack[Len(run.stack)].rest = Tail(@)]
  IN CASE PassesOver(g, byNode, top, e)  -> rest
       [] ~PassesOver(g, byNode, top, e) /\ run.disc[to] # Unmet ->
            Sink(rest, top.node, run.disc[to])
       [] ~PassesOver(g, byNode, top, e) /\ run.disc[to] = Unmet ->
            Visit(g, [rest EXCEPT !.children[top.node] = @ + 1], to, e)

\* A root separates its subtrees if it has two; another node separates a
\* child's subtree that reaches nothing above the node.
Ascend(run) ==
  LET top      == Last(run.stack)
      isRoot   == Len(run.stack) = 1
      parent   == run.stack[Len(run.stack) - 1].node
      popped   == [run EXCEPT !.stack = Front(@)]
      separates == IF Len(run.stack) = 2 THEN run.children[parent] >= 2
                   ELSE run.low[top.node] >= run.disc[parent]
  IN IF isRoot THEN popped
     ELSE [Sink(popped, parent, run.low[top.node]) EXCEPT
             !.bridges = IF run.low[top.node] > run.disc[parent]
                           THEN Append(@, top.via) ELSE @,
             !.points  = IF separates /\ parent \notin ToSet(@)
                           THEN Append(@, parent) ELSE @]

RECURSIVE LowSearch(_, _, _)
LowSearch(g, byNode, run) ==
  LET fresh == {n \in Nodes(g) : run.disc[n] = Unmet}
  IN IF run.stack # <<>> THEN
       LowSearch(g, byNode, IF Last(run.stack).rest = <<>> THEN Ascend(run)
                            ELSE Descend(g, byNode, run))
     ELSE IF fresh # {} THEN
       LowSearch(g, byNode,
                 Visit(g, run, CHOOSE n \in fresh : \A m \in fresh : n <= m, NoEdge))
     ELSE run

Lowlinks(g, byNode) ==
  LowSearch(g, byNode,
    [disc |-> [n \in Nodes(g) |-> Unmet], low |-> [n \in Nodes(g) |-> Unmet],
     children |-> [n \in Nodes(g) |-> 0], timer |-> 0, stack |-> <<>>,
     bridges |-> <<>>, points |-> <<>>])

Bridges(g)            == Lowlinks(g, FALSE).bridges
ArticulationPoints(g) == Lowlinks(g, TRUE).points

-----------------------------------------------------------------------------
Around(R, n) == Closure(Symmetric(R), {n})

\* Without e, its ends are apart.
IsBridge(g, e) ==
  Head_(g, e) \notin
    Around({<<Tail_(g, f), Head_(g, f)>> : f \in EdgeIxs(g) \ {e}}, Tail_(g, e))

\* Without n, two nodes of its component are apart.
IsArticulation(g, n) ==
  LET others == Around(Arcs(g), n) \ {n}
      left   == {a \in Arcs(g) : a[1] # n /\ a[2] # n}
  IN \E m \in others : ~(others \subseteq Around(left, m))

(***************************************************************************)
(* The searches yield every bridge and every articulation point once, and  *)
(* nothing else, whatever parallel edges and self-loops there are.         *)
(***************************************************************************)
CutsExact(g) ==
  /\ IsInjective(Bridges(g)) /\ IsInjective(ArticulationPoints(g))
  /\ ToSet(Bridges(g)) = {e \in EdgeIxs(g) : IsBridge(g, e)}
  /\ ToSet(ArticulationPoints(g)) = {n \in Nodes(g) : IsArticulation(g, n)}
=============================================================================
