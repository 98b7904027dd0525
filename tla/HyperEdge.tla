------------------------------ MODULE HyperEdge ------------------------------
(***************************************************************************)
(* The undirected hypergraph layout (raw_graph/hyper_edge.rs): two         *)
(* collections that refer to each other.                                   *)
(*                                                                         *)
(*   graph.nodes[n] = [val, incident]   the indices of the edges at n      *)
(*   graph.edges[e] = [val, ends]       the indices of the nodes e joins   *)
(*                                                                         *)
(* Both collections are Vecs and both kinds of set HashSets, as in the     *)
(* alias HyperGraph of the crate: what is removed is filled by the last    *)
(* entry, and the order in which a set is read is arbitrary.  Edges can be *)
(* inserted only when nodes are a Vec, and nodes removed only when edges   *)
(* are one; keyed edges, whose indices never move, are not modelled.       *)
(***************************************************************************)
EXTENDS Collections, SequencesExt

CONSTANTS NodeVals, EdgeVals,     \* payloads
          MaxNodes, MaxEdges      \* bounds on the size of the graph

ASSUME SizesAssumption == MaxNodes \in Nat /\ MaxEdges \in Nat

VARIABLES graph,    \* the two collections
          answer    \* history: the last call, its arguments and its result

vars == <<graph, answer>>

Answer(call, asked, got) == [call |-> call, asked |-> asked, got |-> got]

Nodes == DOMAIN graph.nodes
Edges == DOMAIN graph.edges
NodeVal(n) == graph.nodes[n].val
EdgeVal(e) == graph.edges[e].val

Init == /\ graph = [nodes |-> <<>>, edges |-> <<>>]
        /\ answer = Answer("new", <<>>, <<>>)

-----------------------------------------------------------------------------
(***************************************************************************)
(* The incidence sets of the nodes ns lose one edge and gain another.      *)
(***************************************************************************)
Unrecord(g, ns, e) ==
  [g EXCEPT !.nodes = [n \in DOMAIN g.nodes |->
     IF n \in ns THEN [g.nodes[n] EXCEPT !.incident = @ \ {e}] ELSE g.nodes[n]]]

Record(g, ns, e) ==
  [g EXCEPT !.nodes = [n \in DOMAIN g.nodes |->
     IF n \in ns THEN [g.nodes[n] EXCEPT !.incident = @ \cup {e}] ELSE g.nodes[n]]]

InsertNode(g, v) ==
  [g EXCEPT !.nodes = Insert(TRUE, @, [val |-> v, incident |-> {}])]

InsertEdge(g, v, ends) ==
  Record([g EXCEPT !.edges = Insert(TRUE, @, [val |-> v, ends |-> ends])],
         ends, IndexOfNew(TRUE, g.edges, v))

(***************************************************************************)
(* Mutant: the edge that moved is recorded first, and then unrecorded with *)
(* the edge that was taken.                                                *)
(***************************************************************************)
TakeEdgeRecordFirst(g, e) ==
  LET last  == LastIndex(g.edges)
      taken == [g EXCEPT !.edges = Take(TRUE, @, e)]
      moved == taken.edges[e].ends
  IN IF Relocates(TRUE, g.edges, e)
       THEN Unrecord(Record(Unrecord(taken, moved, last), moved, e), g.edges[e].ends, e)
       ELSE Unrecord(taken, g.edges[e].ends, e)

(***************************************************************************)
(* take_edge_unchecked: the edge leaves the sets of its nodes; an edge     *)
(* that moved into its position is recorded anew.                          *)
(***************************************************************************)
TakeEdge(g, e) ==
  LET last  == LastIndex(g.edges)
      taken == Unrecord([g EXCEPT !.edges = Take(TRUE, @, e)], g.edges[e].ends, e)
      moved == taken.edges[e].ends
  IN IF Relocates(TRUE, g.edges, e)
       THEN Record(Unrecord(taken, moved, last), moved, e)
       ELSE taken

(***************************************************************************)
(* take_node_unchecked removes incident edges, looking at the set again    *)
(* after each, until there are none.  Which one is found first is up to    *)
(* the set: every outcome.                                                 *)
(***************************************************************************)
TakeAnyAt(n, gs) == UNION {{TakeEdge(h, e) : e \in h.nodes[n].incident} : h \in gs}

Drained(g, n) ==
  LET degree == Cardinality(g.nodes[n].incident)
      After[k \in 0..degree] == IF k = 0 THEN {g} ELSE TakeAnyAt(n, After[k - 1])
  IN After[degree]

(***************************************************************************)
(* Mutant: the edges at the node that moved keep its old index.            *)
(***************************************************************************)
TakeAloneStale(g, n) == [g EXCEPT !.nodes = Take(TRUE, @, n)]

(***************************************************************************)
(* Take a node no edge joins any more; the edges at the node that moved    *)
(* into its position are rewritten.                                        *)
(***************************************************************************)
TakeAlone(g, n) ==
  LET last == LastIndex(g.nodes)
      Renamed(ends) == {IF m = last THEN n ELSE m : m \in ends}
  IN [g EXCEPT !.nodes = Take(TRUE, @, n),
               !.edges = [e \in DOMAIN g.edges |-> [g.edges[e] EXCEPT !.ends = Renamed(@)]]]

TakeNode(g, n) == {TakeAlone(h, n) : h \in Drained(g, n)}

-----------------------------------------------------------------------------
(***************************************************************************)
(* take_nodes_edges_unchecked: one removal after the other in the order    *)
(* the caller gave, skipping an index that is not there when its turn      *)
(* comes.  A run is a graph with the payloads returned so far.             *)
(***************************************************************************)
EdgeTurn(run, e) ==
  IF e \in DOMAIN run.g.edges
    THEN [run EXCEPT !.g = TakeEdge(@, e), !.edges = Append(@, run.g.edges[e].val)]
    ELSE run

EdgeTurns(run, es) ==
  LET After[k \in 0..Len(es)] == IF k = 0 THEN run ELSE EdgeTurn(After[k - 1], es[k])
  IN After[Len(es)]

NodeTurn(runs, n) ==
  UNION {IF n \in DOMAIN run.g.nodes
           THEN {[run EXCEPT !.g = h, !.nodes = Append(@, run.g.nodes[n].val)] :
                   h \in TakeNode(run.g, n)}
           ELSE {run} : run \in runs}

NodeTurns(runs, ns) ==
  LET After[k \in 0..Len(ns)] == IF k = 0 THEN runs ELSE NodeTurn(After[k - 1], ns[k])
  IN After[Len(ns)]

TakeNodesEdges(g, ns, es) ==
  NodeTurns({EdgeTurns([g |-> g, nodes |-> <<>>, edges |-> <<>>], es)}, ns)

-----------------------------------------------------------------------------
(***************************************************************************)
(* The calls.  A Vec accepts equal payloads; here each entry has its own.  *)
(***************************************************************************)
InsertNodeCall(v) ==
  /\ Size(graph.nodes) < MaxNodes /\ \A n \in Nodes : NodeVal(n) # v
  /\ graph' = InsertNode(graph, v)
  /\ answer' = Answer("insert_node", <<v>>, <<graph'.nodes[Size(graph.nodes)].val>>)

Ends(g, e) ==
  {IF n \in DOMAIN g.nodes THEN g.nodes[n].val ELSE "no such node" : n \in g.edges[e].ends}

InsertEdgeCall(v, ends) ==
  LET e == IndexOfNew(TRUE, graph.edges, v) IN
  /\ Size(graph.edges) < MaxEdges /\ \A f \in Edges : EdgeVal(f) # v
  /\ graph' = InsertEdge(graph, v, ends)
  /\ answer' = Answer("insert_edge", <<v, {NodeVal(n) : n \in ends}>>,
                      <<graph'.edges[e].val, Ends(graph', e)>>)

Vals(ns, es) == <<[k \in DOMAIN ns |-> NodeVal(ns[k])], [k \in DOMAIN es |-> EdgeVal(es[k])]>>

TakeEdgeCall(e) ==
  /\ graph' = TakeEdge(graph, e)
  /\ answer' = Answer("take", Vals(<<>>, <<e>>), <<<<>>, <<EdgeVal(e)>>>>)

TakeNodeCall(n) ==
  /\ graph' \in TakeNode(graph, n)
  /\ answer' = Answer("take", Vals(<<n>>, <<>>), <<<<NodeVal(n)>>, <<>>>>)

(***************************************************************************)
(* Lists of distinct indices (assert_valid_batch).                         *)
(***************************************************************************)
Lists(S) == UNION {SetToSeqs(T) : T \in SUBSET S}

Falls(s) == \A i, j \in DOMAIN s : i < j => s[i] > s[j]

TakeNodesEdgesCall(ns, es) ==
  /\ \E run \in TakeNodesEdges(graph, ns, es) :
       /\ graph' = run.g
       /\ answer' = Answer(IF Falls(ns) /\ Falls(es) THEN "take" ELSE "take in another order",
                           Vals(ns, es), <<run.nodes, run.edges>>)

(***************************************************************************)
(* clear: a batch of everything, in the order of node_indices and          *)
(* edge_indices, positions from the lowest up.                             *)
(***************************************************************************)
ClearCall ==
  LET Up(size) == [k \in 1..size |-> k - 1] IN
  /\ \E run \in TakeNodesEdges(graph, Up(Size(graph.nodes)), Up(Size(graph.edges))) :
       graph' = run.g
  /\ answer' = Answer("clear", <<>>, <<>>)

Next ==
  \/ \E v \in NodeVals : InsertNodeCall(v)
  \/ \E v \in EdgeVals, ends \in SUBSET Nodes : InsertEdgeCall(v, ends)
  \/ \E e \in Edges : TakeEdgeCall(e)
  \/ \E n \in Nodes : TakeNodeCall(n)
  \/ \E ns \in Lists(Nodes), es \in Lists(Edges) : TakeNodesEdgesCall(ns, es)
  \/ ClearCall

Spec == Init /\ [][Next]_vars

-----------------------------------------------------------------------------
(***************************************************************************)
(* Positions are 0, 1, ..., len - 1, and the sets hold indices.            *)
(***************************************************************************)
TypeOK ==
  /\ Nodes = 0..Size(graph.nodes) - 1
  /\ Edges = 0..Size(graph.edges) - 1
  /\ \A n \in Nodes : graph.nodes[n] \in [val : NodeVals, incident : SUBSET Edges]
  /\ \A e \in Edges : graph.edges[e] \in [val : EdgeVals, ends : SUBSET Nodes]

(***************************************************************************)
(* "The invariant eix in nodes[vix].Storage <=> vix in edges[eix].Storage  *)
(* is maintained by every insert / remove path" (header of the file): also *)
(* by batches whose own removals move what they still have to remove.      *)
(***************************************************************************)
DualIndex ==
  /\ \A n \in Nodes : graph.nodes[n].incident = {e \in Edges : n \in graph.edges[e].ends}
  /\ \A e \in Edges : graph.edges[e].ends \subseteq Nodes

(***************************************************************************)
(* Both together: the tables are what every call relies on.                *)
(***************************************************************************)
Consistent == TypeOK /\ DualIndex

(***************************************************************************)
(* The hypergraph the tables stand for, by payload.                        *)
(***************************************************************************)
VertsOf(g) == {g.nodes[n].val : n \in DOMAIN g.nodes}

ByVal(g, v) == CHOOSE e \in DOMAIN g.edges : g.edges[e].val = v

JoinsOf(g) == [v \in {g.edges[e].val : e \in DOMAIN g.edges} |-> Ends(g, ByVal(g, v))]

Abstract == INSTANCE Hypergraph WITH
  verts <- VertsOf(graph),
  joins <- JoinsOf(graph)

(***************************************************************************)
(* One-at-a-time calls, and batches that list what they remove from the    *)
(* highest index down, do to the hypergraph what the interface promises.   *)
(***************************************************************************)
ExactCallsRefine ==
  [][answer'.call \notin {"take in another order", "clear"} => Abstract!Next]_vars

(***************************************************************************)
(* "Removes all nodes and edges from the graph" (Graph::clear, graph.rs).  *)
(***************************************************************************)
ClearEmpties == answer.call = "clear" => Nodes = {} /\ Edges = {}
=============================================================================
