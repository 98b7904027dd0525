----------------------------- MODULE Traversal ------------------------------
(***************************************************************************)
(* A graph is built edge by edge; then a traversal (algo/bfs.rs,           *)
(* algo/dfs.rs) borrows it, and its caller asks for nodes and adds roots   *)
(* as it likes.  A traversal leaves a node by edge_indices_from and goes   *)
(* to the end that is not the node, so that on the undirected view, where  *)
(* edge_indices_from is edge_indices_of, it goes against edges too.        *)
(***************************************************************************)
EXTENDS Digraphs, SequencesExt

CONSTANTS Sizes,             \* numbers of nodes
          Weights,           \* payloads of edges
          Admissible(_),     \* bound: the graphs that are built
          Traversable(_),    \* bound: the graphs that are traversed
          MaxRoots           \* bound: the roots of a traversal

ASSUME SizesAssumption == Sizes \subseteq Nat

VARIABLES graph,
          kind,      \* "none", "bfs", "dfs" or "post"
          view,      \* "directed" or "undirected"
          pending,   \* the queue or stack: nodes, expanded or not
          visited,
          yielded,   \* what the caller got so far
          roots      \* the roots, each with what it had got when it added it

tvars == <<graph, kind, view, pending, visited, yielded, roots>>

Init ==
  /\ graph \in {NoEdges(n) : n \in Sizes}
  /\ kind = "none" /\ view = "directed"
  /\ pending = <<>> /\ visited = {} /\ yielded = <<>> /\ roots = <<>>

InsertEdge(t, h, w) ==
  /\ kind = "none"
  /\ graph' = [graph EXCEPT !.edges = Append(@, [tail |-> t, head |-> h, weight |-> w])]
  /\ Admissible(graph')
  /\ UNCHANGED <<kind, view, pending, visited, yielded, roots>>

\* A hop over each edge, from the tail; on the undirected view then one
\* from the head.
Hops ==
  LET forth == [e \in EdgeIxs(graph) |-> <<Tail_(graph, e), Head_(graph, e)>>]
      back  == [e \in EdgeIxs(graph) |-> <<Head_(graph, e), Tail_(graph, e)>>]
  IN IF view = "directed" THEN forth ELSE forth \o back

\* The nodes one hop from n, itself left out.
Ahead(n) ==
  LET Visit(ns, hop) == IF hop[1] = n /\ hop[2] # n THEN Append(ns, hop[2]) ELSE ns
  IN FoldLeft(Visit, <<>>, Hops)

Unexpanded(n) == [node |-> n, expanded |-> FALSE]

\* Mutant: a node is not marked when it is pushed.
PushNewUnmarked(run, ns) ==
  [run EXCEPT !.pending = @ \o [i \in DOMAIN ns |-> Unexpanded(ns[i])]]

\* Those of ns not visited yet are marked and pushed, in order.
PushNew(run, ns) ==
  LET IsNew(i) == ns[i] \notin run.visited /\ \A j \in 1..(i - 1) : ns[j] # ns[i]
      Push(p, i) == IF IsNew(i) THEN Append(p, Unexpanded(ns[i])) ELSE p
  IN [visited |-> run.visited \cup ToSet(ns),
      pending |-> FoldLeftDomain(Push, run.pending, ns)]

New(k, v, start) ==
  /\ kind = "none" /\ Traversable(graph)
  /\ kind' = k /\ view' = v
  /\ pending' = <<Unexpanded(start)>> /\ visited' = {start} /\ roots' = <<<<start, 0>>>>
  /\ UNCHANGED <<graph, yielded>>

AddStart(start) ==
  /\ kind # "none" /\ Len(roots) < MaxRoots
  /\ LET run == PushNew([visited |-> visited, pending |-> pending], <<start>>)
     IN pending' = run.pending /\ visited' = run.visited
  /\ start \notin {r[1] : r \in ToSet(roots)}   \* bound: the same root twice is no news
  /\ roots' = Append(roots, <<start, Len(yielded)>>)
  /\ UNCHANGED <<graph, kind, view, yielded>>

Yield(run, n) ==
  /\ pending' = run.pending /\ visited' = run.visited
  /\ yielded' = Append(yielded, n)
  /\ UNCHANGED <<graph, kind, view, roots>>

\* Mutant: the breadth-first search takes the node it pushed last.
NextBfsLast ==
  /\ kind = "bfs" /\ pending # <<>>
  /\ LET n == Last(pending).node
     IN Yield(PushNew([visited |-> visited, pending |-> Front(pending)], Ahead(n)), n)

NextBfs ==
  /\ kind = "bfs" /\ pending # <<>>
  /\ LET n == Head(pending).node
     IN Yield(PushNew([visited |-> visited, pending |-> Tail(pending)], Ahead(n)), n)

\* Mutant: the iterator returns None at a node that leads to nothing new.
NextDfsStops ==
  /\ kind = "dfs" /\ pending # <<>>
  /\ ~(ToSet(Ahead(Last(pending).node)) \subseteq visited)
  /\ LET n == Last(pending).node
     IN Yield(PushNew([visited |-> visited, pending |-> Front(pending)], Ahead(n)), n)

NextDfs ==
  /\ kind = "dfs" /\ pending # <<>>
  /\ LET n == Last(pending).node
     IN Yield(PushNew([visited |-> visited, pending |-> Front(pending)], Ahead(n)), n)

\* Expands the top of the stack until it has been expanded before.
ExpandTop(start) ==
  LET Frames == [node : Nodes(graph), expanded : BOOLEAN]
      Expand[run \in [visited : SUBSET Nodes(graph), pending : Seq(Frames) \ {<<>>}]] ==
        IF Last(run.pending).expanded THEN run
        ELSE Expand[PushNew([run EXCEPT !.pending[Len(run.pending)].expanded = TRUE],
                            Reverse(Ahead(Last(run.pending).node)))]
  IN Expand[start]

NextPostOrder ==
  /\ kind = "post" /\ pending # <<>>
  /\ \E run \in {ExpandTop([visited |-> visited, pending |-> pending])} :
       Yield([run EXCEPT !.pending = Front(@)], Last(run.pending).node)

NextNode == NextBfs \/ NextDfs \/ NextPostOrder

Next ==
  \/ \E t, h \in Nodes(graph), w \in Weights : InsertEdge(t, h, w)
  \/ \E k \in {"bfs", "dfs", "post"}, v \in {"directed", "undirected"},
        n \in Nodes(graph) : New(k, v, n)
  \/ \E n \in Nodes(graph) : AddStart(n)
  \/ NextNode

\* The caller of a traversal goes on to its end, as a for loop does.
TSpec == Init /\ [][Next]_tvars /\ WF_tvars(NextNode)
-----------------------------------------------------------------------------
Steps     == IF view = "directed" THEN Arcs(graph) ELSE Symmetric(Arcs(graph))
RootsUpTo(k) == {r[1] : r \in {q \in ToSet(roots) : q[2] <= k}}
AllRoots  == RootsUpTo(graph.size)
Position(n) == CHOOSE i \in DOMAIN yielded : yielded[i] = n

(***************************************************************************)
(* Whenever roots are added, no node is yielded twice, nor lost: at the    *)
(* end the caller has got every node that the roots reach, over edges in   *)
(* one direction or, on the undirected view, in both.                      *)
(***************************************************************************)
TraversalCovers ==
  /\ IsInjective(yielded)
  /\ visited = ToSet(yielded) \cup {p.node : p \in ToSet(pending)}
  /\ pending = <<>> => ToSet(yielded) = Closure(Steps, AllRoots)

\* The fewest steps from a root to n; 99 if there is no way.
Remoteness(n) ==
  LET Ring[k \in 0..graph.size] ==
        IF k = 0 THEN AllRoots
        ELSE Ring[k - 1] \cup {s[2] : s \in {q \in Steps : q[1] \in Ring[k - 1]}}
      at == {k \in 0..graph.size : n \in Ring[k]}
  IN IF at = {} THEN 99 ELSE CHOOSE k \in at : \A l \in at : k <= l

(***************************************************************************)
(* The order of the nodes.  A breadth-first search whose roots were all    *)
(* there at the beginning yields them by their distance.  A depth-first    *)
(* search yields only roots and nodes next to one yielded before.  The     *)
(* post-order yields a node after all that can be reached through it only; *)
(* not after all its descendants, since a node is marked when pushed.      *)
(***************************************************************************)
TraversalOrdered ==
  /\ kind = "bfs" /\ AllRoots = RootsUpTo(0) =>
       \A i \in 2..Len(yielded) : Remoteness(yielded[i - 1]) <= Remoteness(yielded[i])
  /\ kind = "dfs" => \A i \in DOMAIN yielded :
       yielded[i] \in AllRoots \/ \E j \in 1..(i - 1) : <<yielded[j], yielded[i]>> \in Steps
  /\ kind = "post" => \A n \in ToSet(yielded) :
       \A m \in Closure(Steps, {n}) \
                Closure({s \in Steps : s[1] # n /\ s[2] # n}, AllRoots \ {n}) :
         m # n => m \in ToSet(yielded) /\ Position(m) < Position(n)

(***************************************************************************)
(* A traversal comes to its end (None), whatever roots are added meanwhile *)
(* and whatever cycles the graph has.                                      *)
(***************************************************************************)
TraversalEnds == kind # "none" ~> pending = <<>>
=============================================================================
