----------------------------- MODULE FlatAdjEdge -----------------------------
(***************************************************************************)
(* FlatAdjEdgeGraph (raw_graph/flat_adj_edge.rs): one collection of nodes, *)
(* each owning the collection of its outgoing edges and, in one of two     *)
(* profiles, a set of the indices of the edges that lead to it.            *)
(*                                                                         *)
(*   graph[n] = [val, outgoing, incoming]                                  *)
(*   graph[n].outgoing[e] = [val, to, id]     an edge from n to to         *)
(*                                                                         *)
(* An edge index is a pair <<n, e>>; e is unique within the edges of n     *)
(* only, and a map-backed outgoing collection may hold the same key under  *)
(* two nodes.  id is history: it tells edges of equal payload apart.       *)
(***************************************************************************)
EXTENDS Collections, SequencesExt

CONSTANTS DenseNodes, DenseEdges,  \* the collections are Vecs, not maps
          Maintained,              \* incoming is a set, not TNone
          NodeVals, EdgeVals,      \* payloads
          EdgeIds,                 \* names for edges
          MaxNodes, MaxEdges       \* bounds on the size of the graph

(***************************************************************************)
(* A maintained index requires UpdatableRandomAccess, which maps are not.  *)
(***************************************************************************)
ASSUME ProfileAssumption == /\ {DenseNodes, DenseEdges, Maintained} \subseteq BOOLEAN
                            /\ Maintained => DenseNodes
                            /\ MaxNodes \in Nat /\ MaxEdges \in Nat

(***************************************************************************)
(* The keys of a map are ordered (a batch sorts its indices: Ord).  Here   *)
(* they are numbers.                                                       *)
(***************************************************************************)
ASSUME KeysAssumption == /\ DenseNodes \/ NodeVals \subseteq Int
                         /\ DenseEdges \/ EdgeVals \subseteq Int

VARIABLES graph,    \* the node collection
          answer    \* history: the last call, its arguments and its result

vars == <<graph, answer>>

Answer(call, asked, got) == [call |-> call, asked |-> asked, got |-> got]

EdgeIxs(g) == UNION {{n} \X DOMAIN g[n].outgoing : n \in DOMAIN g}

Edge(g, ix) == g[ix[1]].outgoing[ix[2]]

Init == /\ graph = <<>>
        /\ answer = Answer("new", <<>>, <<>>)

-----------------------------------------------------------------------------
(***************************************************************************)
(* record_insert, record_remove and collect_incoming (IncomingOps).        *)
(***************************************************************************)
RecordInsert(g, at, ix) == IF Maintained THEN [g EXCEPT ![at].incoming = @ \cup {ix}] ELSE g

RecordRemove(g, at, ix) == IF Maintained THEN [g EXCEPT ![at].incoming = @ \ {ix}] ELSE g

(***************************************************************************)
(* Mutant: the profile without incoming sets does not scan for edges.      *)
(***************************************************************************)
CollectIncomingRecorded(g, n) == g[n].incoming

CollectIncoming(g, n) ==
  IF Maintained THEN g[n].incoming ELSE {ix \in EdgeIxs(g) : Edge(g, ix).to = n}

-----------------------------------------------------------------------------
(***************************************************************************)
(* insert_node_unchecked and insert_edge_unchecked.  An edge whose key its *)
(* tail already holds is refused.                                          *)
(***************************************************************************)
InsertNode(g, v) ==
  Insert(DenseNodes, g, [val |-> v, outgoing |-> <<>>, incoming |-> {}])

InsertEdge(g, entry, from) ==
  LET ix == <<from, IndexOfNew(DenseEdges, g[from].outgoing, entry.val)>>
  IN IF CanInsert(DenseEdges, g[from].outgoing, entry.val)
       THEN RecordInsert([g EXCEPT ![from].outgoing = Insert(DenseEdges, @, entry)],
                         entry.to, ix)
       ELSE g

(***************************************************************************)
(* Mutant: the edge that moved keeps its old index in the incoming set.    *)
(***************************************************************************)
TakeEdgeForgetMoved(g, ix) ==
  RecordRemove([g EXCEPT ![ix[1]].outgoing = Take(DenseEdges, @, ix[2])],
               Edge(g, ix).to, ix)

(***************************************************************************)
(* take_edge_unchecked: out of the tail's collection and out of the head's *)
(* set; an edge that moved into the freed position is recorded anew.       *)
(***************************************************************************)
TakeEdge(g, ix) ==
  LET n     == ix[1]
      old   == <<n, LastIndex(g[n].outgoing)>>
      taken == RecordRemove([g EXCEPT ![n].outgoing = Take(DenseEdges, @, ix[2])],
                            Edge(g, ix).to, ix)
      to    == Edge(taken, ix).to
  IN IF Relocates(DenseEdges, g[n].outgoing, ix[2]) /\ old \in taken[to].incoming
       THEN RecordInsert(RecordRemove(taken, to, old), to, ix)
       ELSE taken

(***************************************************************************)
(* The elements of a set, each once, in the given order (sort).            *)
(***************************************************************************)
Sorted(S, Before(_, _)) ==
  CHOOSE s \in SetToSeqs(S) : \A i, j \in DOMAIN s : i < j => Before(s[i], s[j])

(***************************************************************************)
(* The order of removals: by tail, then by position, highest first, so     *)
(* that no removal moves an edge that is still to be removed.              *)
(***************************************************************************)
Descending(ixs) ==
  Sorted(ixs, LAMBDA a, b : a[1] > b[1] \/ (a[1] = b[1] /\ a[2] > b[2]))

TakeEdges(g, ixs) == FoldLeft(TakeEdge, g, Descending(ixs))

(***************************************************************************)
(* The node at old has moved to new: rewrite the edges to it and, in the   *)
(* incoming sets, the edges from it.                                       *)
(***************************************************************************)
Renumber(g, old, new) ==
  LET Renamed(n) == IF n = old THEN new ELSE n
      Entry(e) == [e EXCEPT !.to = Renamed(@)]
  IN [n \in DOMAIN g |->
        [g[n] EXCEPT !.outgoing = [e \in DOMAIN @ |-> Entry(@[e])],
                     !.incoming = {<<Renamed(ix[1]), ix[2]>> : ix \in @}]]

(***************************************************************************)
(* take_node_unchecked: the incoming edges but the self-loops, then the    *)
(* outgoing edges, then the node; the last node may move to its index.     *)
(***************************************************************************)
TakeNode(g, n) ==
  LET noIn  == TakeEdges(g, {ix \in CollectIncoming(g, n) : ix[1] # n})
      alone == TakeEdges(noIn, {n} \X DOMAIN noIn[n].outgoing)
      taken == Take(DenseNodes, alone, n)
  IN IF Relocates(DenseNodes, alone, n)
       THEN Renumber(taken, LastIndex(alone), n)
       ELSE taken

DescendingNodes(ns) == Sorted(ns, >)

(***************************************************************************)
(* take_nodes_edges_unchecked: the edges, then the nodes.                  *)
(***************************************************************************)
TakeNodesEdges(g, ns, ixs) == FoldLeft(TakeNode, TakeEdges(g, ixs), DescendingNodes(ns))

-----------------------------------------------------------------------------
(***************************************************************************)
(* reverse rebuilds the graph: the nodes in their order, then every edge   *)
(* into the collection of what was its head; an edge that is refused there *)
(* is dropped (let _ = insert_edge_unchecked).  A Vec is drained in order, *)
(* a map in any.                                                           *)
(***************************************************************************)
InDrainOrder(s) ==
  \A i, j \in DOMAIN s : i < j =>
    /\ DenseNodes => s[i][1] <= s[j][1]
    /\ DenseEdges /\ s[i][1] = s[j][1] => s[i][2] < s[j][2]
    /\ s[i][1] = s[j][1] => \A k \in i..j : s[k][1] = s[i][1]

DrainOrders(g) == {s \in SetToSeqs(EdgeIxs(g)) : InDrainOrder(s)}

(***************************************************************************)
(* Mutant: an edge moves to its head and keeps its target.                 *)
(***************************************************************************)
ReverseEdgesTargetKept(g, order) ==
  LET empty == [n \in DOMAIN g |-> [g[n] EXCEPT !.outgoing = <<>>, !.incoming = {}]]
      Reinsert(h, ix) == InsertEdge(h, Edge(g, ix), Edge(g, ix).to)
  IN FoldLeft(Reinsert, empty, order)

ReverseEdges(g, order) ==
  LET empty == [n \in DOMAIN g |-> [g[n] EXCEPT !.outgoing = <<>>, !.incoming = {}]]
      Reinsert(h, ix) == InsertEdge(h, [Edge(g, ix) EXCEPT !.to = ix[1]], Edge(g, ix).to)
  IN FoldLeft(Reinsert, empty, order)

-----------------------------------------------------------------------------
(***************************************************************************)
(* The calls.  The facade asserts that indices are valid and, in a batch,  *)
(* distinct.  The payloads of a batch come back in the order of removal.   *)
(***************************************************************************)
Nodes == DOMAIN graph
NodeVal(n) == graph[n].val
EdgeId(ix) == Edge(graph, ix).id
Ids == {EdgeId(ix) : ix \in EdgeIxs(graph)}

InsertNodeCall(v) ==
  /\ Size(graph) < MaxNodes
  /\ DenseNodes => \A n \in Nodes : NodeVal(n) # v
  /\ graph' = IF CanInsert(DenseNodes, graph, v) THEN InsertNode(graph, v) ELSE graph
  /\ answer' = IF CanInsert(DenseNodes, graph, v)
                 THEN Answer("insert_node", <<v>>,
                        <<graph'[IndexOfNew(DenseNodes, graph, v)].val>>)
                 ELSE Answer("reject", <<v>>, <<v>>)

InsertEdgeCall(v, id, from, to) ==
  LET ix == <<from, IndexOfNew(DenseEdges, graph[from].outgoing, v)>> IN
  /\ Cardinality(Ids) < MaxEdges /\ id \notin Ids
  /\ graph' = InsertEdge(graph, [val |-> v, to |-> to, id |-> id], from)
  /\ answer' = IF CanInsert(DenseEdges, graph[from].outgoing, v)
                 THEN Answer("insert_edge", <<id, NodeVal(from), NodeVal(to)>>,
                        <<Edge(graph', ix).id, NodeVal(ix[1]), NodeVal(Edge(graph', ix).to)>>)
                 ELSE Answer("refuse edge", <<v>>, <<v>>)

(***************************************************************************)
(* What is at the given indices now, in the order of removal.              *)
(***************************************************************************)
Named(ns, ixs) ==
  LET n == DescendingNodes(ns)
      e == Descending(ixs)
  IN <<[k \in DOMAIN n |-> NodeVal(n[k])], [k \in DOMAIN e |-> EdgeId(e[k])]>>

(***************************************************************************)
(* What the removals return: the entry each finds when its turn comes.     *)
(***************************************************************************)
Returned(ns, ixs) ==
  LET n == DescendingNodes(ns)
      e == Descending(ixs)
      noEdges == TakeEdges(graph, ixs)
  IN <<[k \in DOMAIN n |-> FoldLeft(TakeNode, noEdges, SubSeq(n, 1, k - 1))[n[k]].val],
       [k \in DOMAIN e |-> Edge(FoldLeft(TakeEdge, graph, SubSeq(e, 1, k - 1)), e[k]).id]>>

TakeNodesEdgesCall(ns, ixs) ==
  /\ graph' = TakeNodesEdges(graph, ns, ixs)
  /\ answer' = Answer("take", Named(ns, ixs), Returned(ns, ixs))

TakeEdgeCall(ix) ==
  /\ graph' = TakeEdge(graph, ix)
  /\ answer' = Answer("take", Named({}, {ix}), <<<<>>, <<EdgeId(ix)>>>>)

TakeNodeCall(n) ==
  /\ graph' = TakeNode(graph, n)
  /\ answer' = Answer("take", Named({n}, {}), <<<<NodeVal(n)>>, <<>>>>)

ReverseCall(order) ==
  /\ graph' = ReverseEdges(graph, order)
  /\ answer' = Answer("reverse", <<>>, <<>>)

Next ==
  \/ \E v \in NodeVals : InsertNodeCall(v)
  \/ \E v \in EdgeVals, id \in EdgeIds, from, to \in Nodes : InsertEdgeCall(v, id, from, to)
  \/ \E ix \in EdgeIxs(graph) : TakeEdgeCall(ix)
  \/ \E n \in Nodes : TakeNodeCall(n)
  \/ \E ns \in SUBSET Nodes, ixs \in SUBSET EdgeIxs(graph) : TakeNodesEdgesCall(ns, ixs)
  \/ \E order \in DrainOrders(graph) : ReverseCall(order)

Spec == Init /\ [][Next]_vars

-----------------------------------------------------------------------------
(***************************************************************************)
(* The indices of a Vec are 0, 1, ..., len - 1; those of a map are its     *)
(* keys, the payloads.                                                     *)
(***************************************************************************)
Indexed(dense, c) ==
  /\ IsFiniteSet(DOMAIN c)
  /\ IF dense THEN DOMAIN c = 0..Size(c) - 1 ELSE \A i \in DOMAIN c : c[i].val = i

(***************************************************************************)
(* Both levels are so indexed, every edge leads to a node, and ids name    *)
(* edges.                                                                  *)
(***************************************************************************)
WellFormed(g) ==
  /\ Indexed(DenseNodes, g)
  /\ \A n \in DOMAIN g :
       /\ g[n].val \in NodeVals
       /\ Indexed(DenseEdges, g[n].outgoing)
       /\ \A e \in DOMAIN g[n].outgoing :
            g[n].outgoing[e] \in [val : EdgeVals, to : DOMAIN g, id : EdgeIds]
  /\ Cardinality({Edge(g, ix).id : ix \in EdgeIxs(g)}) = Cardinality(EdgeIxs(g))

TypeOK == WellFormed(graph)

(***************************************************************************)
(* "incoming set only holds valid EdgeIx values; the dual index is         *)
(* maintained on every insert / remove" (SAFETY comment in WalksToIter):   *)
(* a node's incoming set is exactly the set of the edges that lead to it,  *)
(* although removals renumber edges and nodes.                             *)
(***************************************************************************)
ReverseIndexExact ==
  Maintained => \A n \in Nodes :
    graph[n].incoming = {ix \in EdgeIxs(graph) : Edge(graph, ix).to = n}

(***************************************************************************)
(* Both together: the collections are what every call relies on.           *)
(***************************************************************************)
Consistent == TypeOK /\ ReverseIndexExact

(***************************************************************************)
(* The graph the collections stand for: nodes by payload, edges by id.     *)
(***************************************************************************)
VertsOf(g) == {g[n].val : n \in DOMAIN g}

ValAt(g, n) == IF n \in DOMAIN g THEN g[n].val ELSE "no such node"

ById(g, id) == CHOOSE ix \in EdgeIxs(g) : Edge(g, ix).id = id

ArcsOf(g) ==
  [id \in {Edge(g, ix).id : ix \in EdgeIxs(g)} |->
     <<ValAt(g, ById(g, id)[1]), ValAt(g, Edge(g, ById(g, id)).to)>>]

Abstract == INSTANCE Multigraph WITH
  EdgeVals <- EdgeIds,
  verts    <- VertsOf(graph),
  arcs     <- ArcsOf(graph)

(***************************************************************************)
(* Every call does to the graph what the interface promises; a batch       *)
(* removes and returns what was asked for, although its own removals move  *)
(* entries while it goes through its list.                                 *)
(***************************************************************************)
RefinesMultigraph == Abstract!Spec

(***************************************************************************)
(* With maps at both levels (StableNode, StableEdge) no call but reverse   *)
(* makes an index that stays valid refer to another edge, or moves an edge *)
(* to other endpoints.                                                     *)
(***************************************************************************)
StableUnlessReversed ==
  [][answer'.call # "reverse" =>
       \A ix \in EdgeIxs(graph) \cap EdgeIxs(graph') : Edge(graph', ix) = Edge(graph, ix)]_vars

(***************************************************************************)
(* The same for a map-backed graph, where a key taken is refused (once per *)
(* tail), up to the edges that reverse loses.                              *)
(***************************************************************************)
CallsRefine ==
  [][answer'.call \notin {"reverse", "refuse edge"} => Abstract!Next]_vars

(***************************************************************************)
(* Edge id is still there, reversed, after it was at ix.                   *)
(***************************************************************************)
KeptBy(id, ix) == \E jx \in EdgeIxs(graph') :
  /\ Edge(graph', jx).id = id
  /\ jx[1] = Edge(graph, ix).to /\ Edge(graph', jx).to = ix[1]

(***************************************************************************)
(* What reverse does with keyed edges: an edge that is kept has its ends   *)
(* exchanged, and one is lost only to an edge of equal key and equal new   *)
(* tail that is kept.                                                      *)
(***************************************************************************)
ReverseLosesOnlyClashes ==
  [][answer'.call = "reverse" =>
       \A ix \in EdgeIxs(graph) : \E jx \in EdgeIxs(graph) :
         /\ Edge(graph, jx).val = Edge(graph, ix).val
         /\ Edge(graph, jx).to = Edge(graph, ix).to
         /\ KeptBy(EdgeId(jx), jx)]_vars
=============================================================================
