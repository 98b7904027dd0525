--------------------------- MODULE LinkedAdjEdge ----------------------------
(***************************************************************************)
(* LinkedAdjEdgeGraph under the one-at-a-time calls of the Graph facade    *)
(* (graph.rs): insert_node, insert_edge, take_edge, take_node, reverse.    *)
(* Every call is one action, since it holds &mut self from start to end.   *)
(* The facade asserts that the indices it is given are in the graph; a     *)
(* call that would panic changes nothing and is left out.                  *)
(***************************************************************************)
EXTENDS LinkedAdjStore

CONSTANTS NodeVals, EdgeVals,   \* payloads
          MaxNodes, MaxEdges    \* bounds on the size of the graph

ASSUME SizesAssumption == MaxNodes \in Nat /\ MaxEdges \in Nat

(***************************************************************************)
(* No edge has the sentinel for an index: a Vec would need u32::MAX edges, *)
(* and the slots of a map are options.                                     *)
(***************************************************************************)
EdgeIndices == IF DenseEdges THEN 0..MaxEdges - 1 ELSE EdgeVals

ASSUME SentinelAssumption == Sentinel \notin EdgeIndices

VARIABLES graph,    \* the two collections
          answer    \* the last call, the payloads it was asked for and returned

vars == <<graph, answer>>

Answer(call, asked, got) == [call |-> call, asked |-> asked, got |-> got]

Nodes == DOMAIN graph.nodes
Edges == DOMAIN graph.edges
NodeVal(n) == graph.nodes[n].val
EdgeVal(e) == graph.edges[e].val

Init == /\ graph = EmptyGraph
        /\ answer = Answer("new", <<>>, <<>>)

-----------------------------------------------------------------------------
(***************************************************************************)
(* A Vec accepts equal payloads; here each entry gets a payload of its own *)
(* so that an entry can be told from another.                              *)
(***************************************************************************)
NewNodeVal(v) == DenseNodes => \A n \in Nodes : NodeVal(n) # v
NewEdgeVal(v) == DenseEdges => \A e \in Edges : EdgeVal(e) # v

InsertNodeCall(v) ==
  /\ Size(graph.nodes) < MaxNodes /\ NewNodeVal(v)
  /\ IF CanInsert(DenseNodes, graph.nodes, v)
       THEN /\ graph' = InsertNode(graph, v)
            /\ answer' = Answer("insert_node", <<v>>,
                 <<graph'.nodes[IndexOfNew(DenseNodes, graph.nodes, v)].val>>)
       ELSE /\ answer' = Answer("reject", <<v>>, <<v>>)
            /\ UNCHANGED graph

InsertEdgeCall(v, from, to) ==
  /\ Size(graph.edges) < MaxEdges /\ NewEdgeVal(v)
  /\ IF CanInsert(DenseEdges, graph.edges, v)
       THEN LET e == IndexOfNew(DenseEdges, graph.edges, v) IN
            /\ graph' = InsertEdge(graph, v, from, to)
            /\ answer' = Answer("insert_edge", <<v, NodeVal(from), NodeVal(to)>>,
                 <<graph'.edges[e].val,
                   graph'.nodes[graph'.edges[e].node[OUTGOING]].val,
                   graph'.nodes[graph'.edges[e].node[INCOMING]].val>>)
       ELSE /\ answer' = Answer("reject", <<v>>, <<v>>)
            /\ UNCHANGED graph

TakeEdgeCall(e) ==
  /\ graph' = TakeEdge(graph, e)
  /\ answer' = Answer("take", <<<<>>, <<EdgeVal(e)>>>>, <<<<>>, <<EdgeVal(e)>>>>)

TakeNodeCall(n) ==
  /\ graph' = TakeNode(graph, n)
  /\ answer' = Answer("take", <<<<NodeVal(n)>>, <<>>>>, <<<<NodeVal(n)>>, <<>>>>)

ReverseCall ==
  /\ graph' = ReverseEdges(graph)
  /\ answer' = Answer("reverse", <<>>, <<>>)

Next ==
  \/ \E v \in NodeVals : InsertNodeCall(v)
  \/ \E v \in EdgeVals, from, to \in Nodes : InsertEdgeCall(v, from, to)
  \/ \E e \in Edges : TakeEdgeCall(e)
  \/ \E n \in Nodes : TakeNodeCall(n)
  \/ ReverseCall

Spec == Init /\ [][Next]_vars

-----------------------------------------------------------------------------
(***************************************************************************)
(* Every slot the collections hold is an index of an entry or, in a chain, *)
(* the sentinel; the indices of a Vec are 0, 1, ..., len - 1.              *)
(***************************************************************************)
TypeOK ==
  LET Link == Edges \cup {Sentinel} IN
  /\ DenseNodes => Nodes = 0..Size(graph.nodes) - 1
  /\ DenseEdges => Edges = 0..Size(graph.edges) - 1
  /\ \A n \in Nodes : graph.nodes[n] \in [val : NodeVals, next : [Dirs -> Link]]
  /\ \A e \in Edges : graph.edges[e] \in
       [val : EdgeVals, next : [Dirs -> Link], node : [Dirs -> Nodes]]

Occurrences(e, n, dir) ==
  LET chain == Chain(graph, n, dir) IN
  Cardinality({k \in DOMAIN chain : chain[k] = e})

(***************************************************************************)
(* Chain integrity: an edge is on the OUTGOING chain of its tail and on    *)
(* the INCOMING chain of its head, once on each, and on no other chain; in *)
(* particular every chain ends.  Each unlink, relink and endpoint rewrite  *)
(* of take_edge and take_node, with or without a relocation, must keep it. *)
(***************************************************************************)
ThreadedOnce ==
  /\ \A e \in Edges, n \in Nodes, dir \in Dirs :
       Occurrences(e, n, dir) = IF graph.edges[e].node[dir] = n THEN 1 ELSE 0
  /\ \A n \in Nodes, dir \in Dirs :
       Links(graph, n, dir)[Len(Chain(graph, n, dir))] = Sentinel

(***************************************************************************)
(* Mutant: a self-loop is met on both chains.                              *)
(***************************************************************************)
EdgeIndicesOfLoopsTwice(n) == Chain(graph, n, OUTGOING) \o Chain(graph, n, INCOMING)

(***************************************************************************)
(* EdgeIndicesOf and WalksOf: the outgoing chain, then the incoming chain  *)
(* without the self-loops.                                                 *)
(***************************************************************************)
EdgeIndicesOf(n) ==
  LET Yield(es, e) == IF graph.edges[e].node[OUTGOING] = n THEN es ELSE Append(es, e)
  IN FoldLeft(Yield, Chain(graph, n, OUTGOING), Chain(graph, n, INCOMING))

(***************************************************************************)
(* The iteration over all edges of a node meets each incident edge, a      *)
(* self-loop too, exactly once.                                            *)
(***************************************************************************)
IncidentOnce ==
  \A n \in Nodes :
    /\ IsInjective(EdgeIndicesOf(n))
    /\ ToSet(EdgeIndicesOf(n)) =
         {e \in Edges : \E dir \in Dirs : graph.edges[e].node[dir] = n}

(***************************************************************************)
(* The graph the collections stand for, by payload.                        *)
(***************************************************************************)
ValAt(n) == IF n \in Nodes THEN NodeVal(n) ELSE "no such node"

Verts == {NodeVal(n) : n \in Nodes}

Arcs ==
  [v \in {EdgeVal(e) : e \in Edges} |->
     LET e == CHOOSE f \in Edges : EdgeVal(f) = v
     IN <<ValAt(graph.edges[e].node[OUTGOING]), ValAt(graph.edges[e].node[INCOMING])>>]
=============================================================================
