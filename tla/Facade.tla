------------------------------- MODULE Facade -------------------------------
(***************************************************************************)
(* What the Graph trait (graph.rs) adds to the calls of a storage layout:  *)
(* extend_graph, get_or_insert_node, and scopes (graph/context.rs), over   *)
(* the flat layout.  In a scope indices carry a brand instead of being     *)
(* checked: contains_node_index and contains_edge_index answer true to     *)
(* every index the scope has handed out, and removal ends the scope.       *)
(*                                                                         *)
(*   scope.nodes[n], scope.edges[ix]   what n and ix named when the scope  *)
(*                                     first handed them out               *)
(*   scope.since[ix]                   the same, of the edges handed out   *)
(*                                     since the scope was last reversed;  *)
(*                                     a history that no call looks at     *)
(***************************************************************************)
EXTENDS FlatAdjEdge

CONSTANT Others   \* bound: graphs of the same layout to extend by

(***************************************************************************)
(* Payloads name nodes, as ids name edges.                                 *)
(***************************************************************************)
PayloadsDiffer(g) == \A n, m \in DOMAIN g : g[n].val = g[m].val => n = m

ASSUME OthersAssumption == \A other \in Others : WellFormed(other) /\ PayloadsDiffer(other)

VARIABLE scope    \* the indices an open scope has handed out, or NoScope

facadeVars == <<graph, answer, scope>>

NoScope == <<>>

Closed == scope = NoScope

FacadeInit == Init /\ scope = NoScope

-----------------------------------------------------------------------------
(***************************************************************************)
(* What f says, and beyond it what g says.                                 *)
(***************************************************************************)
Joined(f, g) == [x \in DOMAIN f \cup DOMAIN g |-> IF x \in DOMAIN f THEN f[x] ELSE g[x]]

Ascending(ns) == Sorted(ns, <)

(***************************************************************************)
(* extend_graph: the nodes of other, in the order in which it lists and    *)
(* drains them, and the index each is given; then its edges between the    *)
(* new indices.                                                            *)
(***************************************************************************)
AddNodes(g, other) ==
  LET AddNode(run, n) ==
        [g   |-> InsertNode(run.g, other[n].val),
         new |-> Joined(run.new, [m \in {n} |-> IndexOfNew(DenseNodes, run.g, other[n].val)])]
  IN FoldLeft(AddNode, [g |-> g, new |-> <<>>], Ascending(DOMAIN other))

AddEdges(g, other, new) ==
  LET AddEdge(h, ix) == InsertEdge(h, [Edge(other, ix) EXCEPT !.to = new[@]], new[ix[1]])
  IN FoldLeft(AddEdge, g, Reverse(Descending(EdgeIxs(other))))

ExtendGraph(g, other) ==
  LET added == AddNodes(g, other)
  IN AddEdges(added.g, other, added.new)

(***************************************************************************)
(* The nodes and edges of other, by payload and by id.                     *)
(***************************************************************************)
Contents(other) == [verts |-> VertsOf(other), arcs |-> ArcsOf(other)]

(***************************************************************************)
(* The results of the insertions are unwrapped unchecked, so that a caller *)
(* must not pass a key the graph holds: what follows then is undefined.    *)
(***************************************************************************)
ExtendGraphCall(other) ==
  LET more == Contents(other)
  IN /\ Size(graph) + Size(other) <= MaxNodes
     /\ Cardinality(Ids) + Cardinality(DOMAIN more.arcs) <= MaxEdges
     /\ more.verts \cap {NodeVal(n) : n \in Nodes} = {}
     /\ DOMAIN more.arcs \cap Ids = {}
     /\ graph' = ExtendGraph(graph, other)
     /\ answer' = Answer("extend_graph", more, <<>>)

(***************************************************************************)
(* get_or_insert_node, for graphs whose node index is the payload.         *)
(***************************************************************************)
GetOrInsertNodeCall(v) ==
  /\ ~DenseNodes
  /\ \/ /\ v \in Nodes
        /\ answer' = Answer("get", <<v>>, <<NodeVal(v)>>)
        /\ UNCHANGED graph
     \/ v \notin Nodes /\ InsertNodeCall(v)

-----------------------------------------------------------------------------
(***************************************************************************)
(* scope_mut.  The closure may list all indices at any time; those it has  *)
(* keep what they named.                                                   *)
(***************************************************************************)
ListedNodes == [n \in Nodes |-> NodeVal(n)]
ListedEdges == [ix \in EdgeIxs(graph) |-> EdgeId(ix)]

OpenScope ==
  /\ Closed
  /\ scope' = [nodes |-> ListedNodes, edges |-> ListedEdges, since |-> ListedEdges]
  /\ UNCHANGED vars

CloseScope ==
  /\ ~Closed
  /\ scope' = NoScope
  /\ UNCHANGED vars

HandOut(since) == scope' = [nodes |-> Joined(scope.nodes, ListedNodes'),
                            edges |-> Joined(scope.edges, ListedEdges'),
                            since |-> Joined(since, ListedEdges')]

(***************************************************************************)
(* What a Context forwards: insertions, and reverse.  The scope goes on    *)
(* answering true to every index of before, an edge index too that reverse *)
(* has left without an edge.                                               *)
(***************************************************************************)
ScopedInsertNode(v) == ~Closed /\ InsertNodeCall(v) /\ HandOut(scope.since)

ScopedInsertEdge(v, id, from, to) == ~Closed /\ InsertEdgeCall(v, id, from, to) /\ HandOut(scope.since)

ScopedExtend(other) == ~Closed /\ ExtendGraphCall(other) /\ HandOut(scope.since)

ScopedReverse(order) == ~Closed /\ ReverseCall(order) /\ HandOut(<<>>)

(***************************************************************************)
(* Mutant: the node is taken first, then the edge if there is one there.   *)
(***************************************************************************)
TakeSingleNodeFirst(g, ns, ixs) ==
  LET taken == FoldLeft(TakeNode, g, SetToSeq(ns))
  IN FoldLeft(TakeEdge, taken, SetToSeq(ixs \cap EdgeIxs(taken)))

(***************************************************************************)
(* The short way of take_nodes_edges in a scope, for at most one index on  *)
(* either side: the edge, then the node.                                   *)
(***************************************************************************)
TakeSingle(g, ns, ixs) ==
  FoldLeft(TakeNode, FoldLeft(TakeEdge, g, SetToSeq(ixs)), SetToSeq(ns))

(***************************************************************************)
(* Mutant: a removal leaves the scope open.                                *)
(***************************************************************************)
EndScopeBorrowed == UNCHANGED scope

(***************************************************************************)
(* Removals take the context by value.                                     *)
(***************************************************************************)
EndScope == scope' = NoScope

(***************************************************************************)
(* take_nodes_edges.  Whether the iterators say that they are short is up  *)
(* to safe code: the short way is taken if they say so and are, and one    *)
(* that yields more than it said is passed to the batch, with all that was *)
(* pulled out of it.  An index passed twice makes the batch panic before   *)
(* anything is removed.  Nothing checks that an index still has an edge:   *)
(* what a removal does with one that has none is undefined and left out.   *)
(***************************************************************************)
ScopedTakeSingle(ns, ixs) ==
  /\ ~Closed
  /\ Cardinality(ns) <= 1 /\ Cardinality(ixs) <= 1
  /\ graph' = TakeSingle(graph, ns, ixs)
  /\ answer' = Answer("take", Named(ns, ixs), Returned(ns, ixs))
  /\ EndScope

ScopedTakeBatch(ns, ixs) == ~Closed /\ TakeNodesEdgesCall(ns, ixs) /\ EndScope

ScopedTakeTwice ==
  /\ ~Closed
  /\ DOMAIN scope.nodes # {} \/ DOMAIN scope.edges # {}
  /\ EndScope
  /\ UNCHANGED vars

-----------------------------------------------------------------------------
FacadeNext ==
  \/ Closed /\ Next /\ UNCHANGED scope
  \/ \E other \in Others : Closed /\ ExtendGraphCall(other) /\ UNCHANGED scope
  \/ \E v \in NodeVals : Closed /\ GetOrInsertNodeCall(v) /\ UNCHANGED scope
  \/ OpenScope
  \/ CloseScope
  \/ \E v \in NodeVals : ScopedInsertNode(v)
  \/ \E v \in EdgeVals, id \in EdgeIds, from, to \in Nodes : ScopedInsertEdge(v, id, from, to)
  \/ \E other \in Others : ScopedExtend(other)
  \/ \E order \in DrainOrders(graph) : ScopedReverse(order)
  \/ /\ ~Closed
     /\ \E ns \in SUBSET DOMAIN scope.nodes,
           ixs \in SUBSET (DOMAIN scope.edges \cap EdgeIxs(graph)) :
          ScopedTakeSingle(ns, ixs) \/ ScopedTakeBatch(ns, ixs)
  \/ ScopedTakeTwice

FacadeSpec == FacadeInit /\ [][FacadeNext]_facadeVars

NodesLive ==
  \A n \in DOMAIN scope.nodes : n \in Nodes /\ NodeVal(n) = scope.nodes[n]

EdgesLive(handed) ==
  \A ix \in DOMAIN handed : ix \in EdgeIxs(graph) /\ EdgeId(ix) = handed[ix]

(***************************************************************************)
(* "Within a scope, node indices are inherently stable" and "Same          *)
(* reasoning as StableNode - edge indices are stable within a scope"       *)
(* (SAFETY comments in graph/context.rs), and an index "always refers to   *)
(* the same edge for the lifetime of the graph" (StableEdge, capability.rs *)
(* in graph/, which the flat layout implements over maps): what a scope    *)
(* answers true to is there, and is what it was, until the scope ends.     *)
(***************************************************************************)
ScopeIndicesLive == Closed \/ (NodesLive /\ EdgesLive(scope.edges))

(***************************************************************************)
(* What does hold of that: no removal outlives the scope it is called in,  *)
(* and no insertion moves an entry, so that a node index is live as long   *)
(* as the scope, whatever is inserted, extended or reversed in it, and an  *)
(* edge index until the scope reverses the graph.                          *)
(***************************************************************************)
LiveUntilReverse == Closed \/ (NodesLive /\ EdgesLive(scope.since))
=============================================================================
