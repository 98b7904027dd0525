--------------------------- MODULE ShortestPaths ----------------------------
(***************************************************************************)
(* Shortest paths (algo/shortest_path.rs).  Dijkstra's algorithm, A* and   *)
(* the searches that Yen's algorithm starts from a spur node share one     *)
(* loop: take the entry of least score off the heap, and improve the       *)
(* distances of the successors of its node.  Among equal scores the heap   *)
(* may return any entry, so that an operator yields the set of all runs.   *)
(***************************************************************************)
EXTENDS SimplePaths, FiniteSetsExt

Inf    == 1000000   \* W::max_value()
NoNode == 0

\* A search q: start, goal or NoNode, barred nodes and arcs, and per node
\* what is added to its distance to make its score.
Query(g, start, goal) ==
  [start |-> start, goal |-> goal, nodes |-> {}, arcs |-> {},
   estimate |-> [n \in Nodes(g) |-> 0]]

Improve(g, q, run, n, e) ==
  LET to   == Head_(g, e)
      dist == run.dist[n] + Weight(g, e)
  IN IF \/ to \in run.visited \cup q.nodes
        \/ <<n, to>> \in q.arcs
        \/ run.dist[to] <= dist
       THEN run
       ELSE [run EXCEPT !.dist[to] = dist, !.pred[to] = n,
                        !.heap = @ \cup {<<dist + q.estimate[to], to>>}]

RECURSIVE ImproveAll(_, _, _, _, _)
ImproveAll(g, q, run, n, es) ==
  IF es = <<>> THEN run
  ELSE ImproveAll(g, q, Improve(g, q, run, n, Head(es)), n, Tail(es))

Least(heap) == {x \in heap : \A y \in heap : x[1] <= y[1]}

RECURSIVE BestFirst(_, _, _)
BestFirst(g, q, run) ==
  LET live == {x \in run.heap : x[2] \notin run.visited}
  IN IF live = {} THEN {run}
     ELSE UNION {
       LET n     == x[2]
           after == [run EXCEPT !.heap = live \ {x}, !.visited = @ \cup {n}]
       IN IF n = q.goal THEN {after}
          ELSE BestFirst(g, q, ImproveAll(g, q, after, n, EdgeIndicesFrom(g, n))) :
         x \in Least(live)}

Searches(g, q) ==
  BestFirst(g, q,
    [dist |-> [n \in Nodes(g) |-> IF n = q.start THEN 0 ELSE Inf],
     pred |-> [n \in Nodes(g) |-> NoNode],
     visited |-> {}, heap |-> {<<q.estimate[q.start], q.start>>}])

RECURSIVE PathTo(_, _)
PathTo(run, path) ==
  IF run.pred[Head(path)] = NoNode THEN path
  ELSE PathTo(run, <<run.pred[Head(path)]>> \o path)

Dijkstra(g, start, goal) == Searches(g, Query(g, start, goal))

\* No path, or its cost and nodes.
Found(run, goal) ==
  IF goal \in run.visited THEN <<run.dist[goal], PathTo(run, <<goal>>)>> ELSE <<>>

AStar(g, start, goal, heuristic) ==
  {Found(run, goal) : run \in
     Searches(g, [Query(g, start, goal) EXCEPT !.estimate = heuristic])}
-----------------------------------------------------------------------------
(***************************************************************************)
(* Bellman-Ford: rounds over all edges, ended by one that changes nothing  *)
(* or after as many as there are nodes but one; then one more look at      *)
(* every edge for a negative cycle.                                        *)
(***************************************************************************)
\* Mutant: an edge from a node that is not reached yet counts.
ShortensAnyway(g, dist, e) ==
  dist[Tail_(g, e)] + Weight(g, e) < dist[Head_(g, e)]

Shortens(g, dist, e) ==
  dist[Tail_(g, e)] # Inf /\ dist[Tail_(g, e)] + Weight(g, e) < dist[Head_(g, e)]

RelaxRound(g, run) ==
  LET Upto[e \in 0..Len(g.edges)] ==
        IF e = 0 THEN run
        ELSE LET before == Upto[e - 1]
             IN IF Shortens(g, before.dist, e)
                  THEN [dist |-> [before.dist EXCEPT ![Head_(g, e)] =
                                    before.dist[Tail_(g, e)] + Weight(g, e)],
                        pred |-> [before.pred EXCEPT ![Head_(g, e)] = Tail_(g, e)]]
                  ELSE before
  IN Upto[Len(g.edges)]

RECURSIVE Rounds(_, _, _)
Rounds(g, run, left) ==
  LET next == RelaxRound(g, run)
  IN IF left = 0 \/ next = run THEN run ELSE Rounds(g, next, left - 1)

BellmanFord(g, start) ==
  Rounds(g, [dist |-> [n \in Nodes(g) |-> IF n = start THEN 0 ELSE Inf],
             pred |-> [n \in Nodes(g) |-> NoNode]], g.size - 1)

NegativeCycleError(g, run) == \E e \in EdgeIxs(g) : Shortens(g, run.dist, e)

(***************************************************************************)
(* Floyd-Warshall, row by row.                                             *)
(***************************************************************************)
FloydRow(d, k, i) ==
  [d EXCEPT ![i] = [j \in DOMAIN d |->
     IF d[i][k] # Inf /\ d[k][j] # Inf /\ d[i][k] + d[k][j] < d[i][j]
       THEN d[i][k] + d[k][j] ELSE d[i][j]]]

RECURSIVE FloydFrom(_, _, _)
FloydFrom(d, k, i) ==
  LET n == Cardinality(DOMAIN d)
  IN IF k > n THEN d
     ELSE FloydFrom(FloydRow(d, k, i), IF i = n THEN k + 1 ELSE k,
                    IF i = n THEN 1 ELSE i + 1)

FloydWarshall(g) ==
  FloydFrom([t \in Nodes(g) |-> [h \in Nodes(g) |->
     Min({Inf} \cup (IF t = h THEN {0} ELSE {}) \cup
         {Weight(g, e) : e \in {f \in EdgeIxs(g) : Tail_(g, f) = t /\ Head_(g, f) = h}})]],
     1, 1)

OnNegativeCycle(d) == \E n \in DOMAIN d : d[n][n] < 0
-----------------------------------------------------------------------------
(***************************************************************************)
(* Yen's k shortest paths.  yen keeps the paths yielded so far and the     *)
(* candidates, both with their costs.                                      *)
(***************************************************************************)
\* Of parallel edges, the first one counts.
RootCost(g, root) ==
  LET First(i) == CHOOSE e \in EdgeIxs(g) :
        /\ Tail_(g, e) = root[i] /\ Head_(g, e) = root[i + 1]
        /\ \A f \in 1..(e - 1) : ~(Tail_(g, f) = root[i] /\ Head_(g, f) = root[i + 1])
  IN MapThenSumSet(LAMBDA i : Weight(g, First(i)), 1..(Len(root) - 1))

\* The arcs by which paths already yielded continue the root.
Barred(yen, root) ==
  LET i == Len(root)
  IN {<<p[i], p[i + 1]>> : p \in {x[2] : x \in
        {y \in ToSet(yen.paths) : Len(y[2]) >= i /\ SubSeq(y[2], 1, i) = root}}}

SpurPaths(g, yen, root, goal) ==
  {Found(run, goal) : run \in
     Searches(g, [Query(g, Last(root), goal) EXCEPT
                    !.nodes = ToSet(Front(root)), !.arcs = Barred(yen, root)])}

Deviate(g, yen, root, goal) ==
  {IF spur = <<>> THEN yen
   ELSE LET path == Front(root) \o spur[2]
        IN IF path \in {x[2] : x \in ToSet(yen.paths) \cup yen.candidates} THEN yen
           ELSE [yen EXCEPT !.candidates =
                   @ \cup {<<RootCost(g, root) + spur[1], path>>}] :
     spur \in SpurPaths(g, yen, root, goal)}

RECURSIVE DeviateAll(_, _, _, _, _)
DeviateAll(g, yens, path, i, goal) ==
  IF i = Len(path) THEN yens
  ELSE DeviateAll(g, UNION {Deviate(g, yen, SubSeq(path, 1, i), goal) : yen \in yens},
                  path, i + 1, goal)

\* The next path: the cheapest candidate, the lexically smallest of several.
TakeCheapest(yen) ==
  LET Before(p, q) == \E i \in DOMAIN q : /\ SubSeq(p, 1, i - 1) = SubSeq(q, 1, i - 1)
                                          /\ p[i] < q[i]
      next == CHOOSE x \in yen.candidates : \A y \in yen.candidates \ {x} :
                x[1] < y[1] \/ (x[1] = y[1] /\ Before(x[2], y[2]))
  IN [paths |-> Append(yen.paths, next), candidates |-> yen.candidates \ {next}]

RECURSIVE Yen(_, _, _, _)
Yen(g, yen, k, goal) ==
  IF Len(yen.paths) >= k THEN {yen.paths}
  ELSE UNION {IF next.candidates = {} THEN {next.paths}
              ELSE Yen(g, TakeCheapest(next), k, goal) :
                next \in DeviateAll(g, {yen}, Last(yen.paths)[2], 1, goal)}

KShortestPaths(g, start, goal, k) ==
  UNION {IF first = <<>> \/ k = 0 THEN {<<>>}
         ELSE Yen(g, [paths |-> <<first>>, candidates |-> {}], k, goal) :
           first \in AStar(g, start, goal, [n \in Nodes(g) |-> 0])}
-----------------------------------------------------------------------------
Cost(g, path) ==
  LET Hop(i) == Min({Weight(g, e) : e \in {f \in EdgeIxs(g) :
                       Tail_(g, f) = path[i] /\ Head_(g, f) = path[i + 1]}})
  IN MapThenSumSet(Hop, 1..(Len(path) - 1))

\* Costs of the simple paths, those from a node to itself being cycles.
CostsBetween(g) ==
  [s \in Nodes(g) |-> [t \in Nodes(g) |->
     {Cost(g, p) : p \in SimplePathsBetween(g, s, t)}]]

HasNegativeCycle(costs, S) == \E n \in S : \E c \in costs[n][n] : c < 0

Distance(costs, s, t) == IF s = t THEN 0 ELSE Min({Inf} \cup costs[s][t])

\* A predecessor is a node through which the distance is reached.
Tight(g, run, n) ==
  \E e \in EdgeIxs(g) : /\ Tail_(g, e) = run.pred[n] /\ Head_(g, e) = n
                        /\ run.dist[n] = run.dist[run.pred[n]] + Weight(g, e)

(***************************************************************************)
(* Bellman-Ford reports a negative cycle exactly if start reaches one, and *)
(* Floyd-Warshall if there is one; otherwise they find all distances.      *)
(***************************************************************************)
NegativeWeightsExact(g) ==
  LET costs == CostsBetween(g)
      floyd == FloydWarshall(g)
  IN /\ OnNegativeCycle(floyd) = HasNegativeCycle(costs, Nodes(g))
     /\ OnNegativeCycle(floyd) \/ floyd = [s \in Nodes(g) |-> [t \in Nodes(g) |->
                                             Distance(costs, s, t)]]
     /\ \A s \in Nodes(g) :
          LET run == BellmanFord(g, s)
          IN /\ NegativeCycleError(g, run) = HasNegativeCycle(costs, Reachable(g, {s}))
             /\ ~NegativeCycleError(g, run) => \A t \in Nodes(g) :
                  /\ run.dist[t] = Distance(costs, s, t)
                  /\ run.pred[t] = NoNode <=> t = s \/ run.dist[t] = Inf
                  /\ run.pred[t] # NoNode => Tight(g, run, t)

(***************************************************************************)
(* Where no weight is negative, every run of Dijkstra's algorithm finds    *)
(* all distances, or that of its goal; A* finds a shortest path under any  *)
(* heuristic that is consistent; Yen's algorithm yields all simple paths   *)
(* in the order of their costs, if no edges are parallel.                  *)
(***************************************************************************)
PathsShortest(g) ==
  LET costs == CostsBetween(g)
      dist  == [s \in Nodes(g) |-> [t \in Nodes(g) |-> Distance(costs, s, t)]]
      Heuristics(t) == {[n \in Nodes(g) |-> Min({dist[n][t], cap})] : cap \in {0, 1, 99}}
      Shortest(x, s, t) == IF dist[s][t] = Inf THEN x = <<>>
                           ELSE x # <<>> /\ x[1] = dist[s][t] /\ Cost(g, x[2]) = x[1]
  IN \A s \in Nodes(g) :
       /\ \A run \in Dijkstra(g, s, NoNode) :
            run.dist = dist[s] /\ \A n \in Nodes(g) \ {s} : dist[s][n] # Inf => Tight(g, run, n)
       /\ \A t \in Nodes(g) :
            /\ \A run \in Dijkstra(g, s, t) : run.dist[t] = dist[s][t]
            /\ \A h \in Heuristics(t) : \A x \in AStar(g, s, t, h) : Shortest(x, s, t)
            /\ Cardinality(Arcs(g)) = Len(g.edges) =>
                 LET simple == IF s = t THEN {<<s>>} ELSE SimplePathsBetween(g, s, t)
                 IN \A paths \in KShortestPaths(g, s, t, 3) :
                      /\ IsInjective(paths)
                      /\ Len(paths) = Min({3, Cardinality(simple)})
                      /\ \A i \in DOMAIN paths :
                           /\ paths[i][2] \in simple
                           /\ paths[i][1] = Cost(g, paths[i][2])
                           /\ \A p \in simple \ {paths[j][2] : j \in 1..i} :
                                paths[i][1] <= Cost(g, p)
=============================================================================
