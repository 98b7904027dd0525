----------------------------- MODULE Stabilized -----------------------------
(***************************************************************************)
(* The tombstone wrapper Stabilized<G, N, E> (graph/stabilized.rs).        *)
(*                                                                         *)
(* The inner graph only ever grows.  Its slots are numbered from 1 here,   *)
(* in the order its iterators visit them.  A slot carries a version: v > 0 *)
(* is a live entry, -v one that was removed while at version v.  An index  *)
(* handed out is a pair <<slot, version>> and is valid while the slot      *)
(* carries that very version.  Payloads are left out: the entry of a slot  *)
(* at a version is the same entry throughout.                              *)
(*                                                                         *)
(* Whether an insertion reuses a slot depends on the spare capacity of the *)
(* inner graph, which is part of the state; growth is up to the allocator. *)
(***************************************************************************)
EXTENDS Integers, Sequences, FiniteSets

CONSTANTS MaxNodes, MaxEdges,  \* bounds on the slots of the inner graph
          MaxVersion           \* bound on versions

ASSUME BoundsAssumption ==
  MaxNodes \in Nat /\ MaxEdges \in Nat /\ MaxVersion \in Nat \ {0}

VARIABLES
  nodes,         \* slot -> version
  edges,         \* slot -> [version, ends, given]; ends are node slots, given
                 \* (history) the indices the caller passed as endpoints
  live_nodes,    \* the wrapper's counters
  live_edges,
  capacity,      \* <<capacity_node, capacity_edge>> of the inner graph: a
                 \* number (Vec) or None (a collection without capacities)
  retired,       \* history: the <<node, edge>> indices that were valid once
                 \* and are no longer
  answer         \* history: the last call, its arguments and its result

None == -1

vars == <<nodes, edges, live_nodes, live_edges, capacity, retired, answer>>

-----------------------------------------------------------------------------
LiveNodes == {n \in DOMAIN nodes : nodes[n] > 0}
LiveEdges == {e \in DOMAIN edges : edges[e].version > 0}
DeadNodes == {n \in DOMAIN nodes : nodes[n] < 0}
DeadEdges == {e \in DOMAIN edges : edges[e].version < 0}

(***************************************************************************)
(* The index of a slot's present entry; those for which                    *)
(* contains_node_index and contains_edge_index answer true.                *)
(***************************************************************************)
NodeIx(n) == <<n, nodes[n]>>
EdgeIx(e) == <<e, edges[e].version>>

ContainsNode(ix) == /\ ix[2] > 0 /\ ix[1] \in DOMAIN nodes
                    /\ nodes[ix[1]] = ix[2]
ContainsEdge(ix) == /\ ix[2] > 0 /\ ix[1] \in DOMAIN edges
                    /\ edges[ix[1]].version = ix[2]

NodeIxs == {NodeIx(n) : n \in LiveNodes}
EdgeIxs == {EdgeIx(e) : e \in LiveEdges}

(***************************************************************************)
(* The endpoints of an edge as the wrapper reports them: the slots of the  *)
(* inner edge, each with its node's present version.                       *)
(***************************************************************************)
Endpoints(e) == <<NodeIx(edges[e].ends[1]), NodeIx(edges[e].ends[2])>>

Flip(pair) == <<pair[2], pair[1]>>

Answer(call, asked, got) == [call |-> call, asked |-> asked, got |-> got]

-----------------------------------------------------------------------------
(***************************************************************************)
(* stabilize: any graph, every entry at version 1.                         *)
(***************************************************************************)
NewEdge(tail, head) == [version |-> 1,
                        ends    |-> <<tail, head>>,
                        given   |-> <<NodeIx(tail), NodeIx(head)>>]

Init ==
  /\ \E k \in 0..MaxNodes : nodes = [n \in 1..k |-> 1]
  /\ \E m \in 0..MaxEdges : \E ends \in [1..m -> (DOMAIN nodes) \X (DOMAIN nodes)] :
       edges = [e \in 1..m |-> NewEdge(ends[e][1], ends[e][2])]
  /\ live_nodes = Len(nodes)
  /\ live_edges = Len(edges)
  /\ capacity \in ({None} \cup Len(nodes)..MaxNodes) \X ({None} \cup Len(edges)..MaxEdges)
  /\ retired = <<{}, {}>>
  /\ answer = Answer("new", <<>>, <<>>)

(***************************************************************************)
(* Every step records which indices it made invalid.                       *)
(***************************************************************************)
Retire == retired' = <<retired[1] \cup (NodeIxs \ NodeIxs'),
                       retired[2] \cup (EdgeIxs \ EdgeIxs')>>

-----------------------------------------------------------------------------
(***************************************************************************)
(* insert_node_unchecked and insert_edge_unchecked.  An insertion appends  *)
(* when that is cheap, and otherwise looks for a tombstone first; an       *)
(* edge's must join the same node slots.  A full collection grows.         *)
(***************************************************************************)
CanAppendCheaply(cap, len, live) == IF cap = None THEN len <= live ELSE cap > len

Grown(cap, len, max) == IF cap = len THEN (len + 1)..max ELSE {cap}

IsFirst(slot, slots) == slot \in slots /\ \A s \in slots : slot <= s

(***************************************************************************)
(* Mutant: a slot is reused at the version it had.                         *)
(***************************************************************************)
NextVersionSame(v) == -v

NextVersion(v) == -v + 1

Inserted(call, indices) == Answer(call, indices, indices)

AppendNode ==
  /\ \/ CanAppendCheaply(capacity[1], Len(nodes), live_nodes)
     \/ DeadNodes = {}
  /\ Len(nodes) < MaxNodes
  /\ nodes' = Append(nodes, 1)
  /\ live_nodes' = live_nodes + 1
  /\ \E cap \in Grown(capacity[1], Len(nodes), MaxNodes) : capacity' = <<cap, capacity[2]>>
  /\ answer' = Inserted("insert_node", <<<<Len(nodes) + 1, 1>>>>)
  /\ UNCHANGED <<edges, live_edges>>

ReuseNode(n) ==
  /\ ~CanAppendCheaply(capacity[1], Len(nodes), live_nodes)
  /\ IsFirst(n, DeadNodes)
  /\ NextVersion(nodes[n]) <= MaxVersion
  /\ nodes' = [nodes EXCEPT ![n] = NextVersion(@)]
  /\ live_nodes' = live_nodes + 1
  /\ answer' = Inserted("insert_node", <<<<n, NextVersion(nodes[n])>>>>)
  /\ UNCHANGED <<edges, live_edges, capacity>>

(***************************************************************************)
(* Mutant: the tombstone's endpoints are not compared.                     *)
(***************************************************************************)
DeadBetweenAny(tail, head) == DeadEdges

DeadBetween(tail, head) == {e \in DeadEdges : edges[e].ends = <<tail, head>>}

AppendEdge(tail, head) ==
  /\ {tail, head} \subseteq LiveNodes
  /\ \/ CanAppendCheaply(capacity[2], Len(edges), live_edges)
     \/ DeadBetween(tail, head) = {}
  /\ Len(edges) < MaxEdges
  /\ edges' = Append(edges, NewEdge(tail, head))
  /\ live_edges' = live_edges + 1
  /\ \E cap \in Grown(capacity[2], Len(edges), MaxEdges) : capacity' = <<capacity[1], cap>>
  /\ answer' = Inserted("insert_edge", <<<<Len(edges) + 1, 1>>, NodeIx(tail), NodeIx(head)>>)
  /\ UNCHANGED <<nodes, live_nodes>>

ReuseEdge(e, tail, head) ==
  /\ {tail, head} \subseteq LiveNodes
  /\ ~CanAppendCheaply(capacity[2], Len(edges), live_edges)
  /\ IsFirst(e, DeadBetween(tail, head))
  /\ NextVersion(edges[e].version) <= MaxVersion
  /\ edges' = [edges EXCEPT ![e].version = NextVersion(@),
                            ![e].given = <<NodeIx(tail), NodeIx(head)>>]
  /\ live_edges' = live_edges + 1
  /\ answer' = Inserted("insert_edge",
       <<<<e, NextVersion(edges[e].version)>>, NodeIx(tail), NodeIx(head)>>)
  /\ UNCHANGED <<nodes, live_nodes, capacity>>

(***************************************************************************)
(* Mutant: a removal forgets the version.                                  *)
(***************************************************************************)
TombstoneZero(es, S) ==
  [e \in DOMAIN es |-> IF e \in S THEN [es[e] EXCEPT !.version = 0] ELSE es[e]]

-----------------------------------------------------------------------------
(***************************************************************************)
(* take/remove_edge_unchecked, take/remove_node_unchecked and              *)
(* take_nodes_edges_unchecked.  A removal flips the sign of a version; the *)
(* removal of a node flips its live incident edges first.                  *)
(***************************************************************************)
Tombstone(es, S) ==
  [e \in DOMAIN es |-> IF e \in S THEN [es[e] EXCEPT !.version = -@] ELSE es[e]]

(***************************************************************************)
(* Mutant: the edges into a node are not incident to it.                   *)
(***************************************************************************)
IncidentOutgoing(ns) == {e \in DOMAIN edges : edges[e].ends[1] \in ns}

Incident(ns) == {e \in DOMAIN edges : \E d \in 1..2 : edges[e].ends[d] \in ns}

LiveIn(es, S) == {e \in S : es[e].version > 0}

(***************************************************************************)
(* Mutant: the counter is not decremented.                                 *)
(***************************************************************************)
RemoveEdgeUncounted(e) ==
  /\ e \in LiveEdges
  /\ edges' = Tombstone(edges, {e})
  /\ answer' = Answer("take", <<<<>>, <<EdgeIx(e)>>>>, <<<<>>, <<EdgeIx(e)>>>>)
  /\ UNCHANGED <<nodes, live_nodes, live_edges, capacity>>

RemoveEdge(e) ==
  /\ e \in LiveEdges
  /\ edges' = Tombstone(edges, {e})
  /\ live_edges' = live_edges - 1
  /\ answer' = Answer("take", <<<<>>, <<EdgeIx(e)>>>>, <<<<>>, <<EdgeIx(e)>>>>)
  /\ UNCHANGED <<nodes, live_nodes, capacity>>

(***************************************************************************)
(* Mutant: every incident edge is counted, dead ones too.                  *)
(***************************************************************************)
RemoveNodeMiscounted(n) ==
  /\ n \in LiveNodes
  /\ edges' = Tombstone(edges, LiveIn(edges, Incident({n})))
  /\ live_edges' = live_edges - Cardinality(Incident({n}))
  /\ nodes' = [nodes EXCEPT ![n] = -@]
  /\ live_nodes' = live_nodes - 1
  /\ answer' = Answer("take", <<<<NodeIx(n)>>, <<>>>>, <<<<NodeIx(n)>>, <<>>>>)
  /\ UNCHANGED capacity

RemoveNode(n) ==
  /\ n \in LiveNodes
  /\ edges' = Tombstone(edges, LiveIn(edges, Incident({n})))
  /\ live_edges' = live_edges - Cardinality(LiveIn(edges, Incident({n})))
  /\ nodes' = [nodes EXCEPT ![n] = -@]
  /\ live_nodes' = live_nodes - 1
  /\ answer' = Answer("take", <<<<NodeIx(n)>>, <<>>>>, <<<<NodeIx(n)>>, <<>>>>)
  /\ UNCHANGED capacity

(***************************************************************************)
(* A batch removes its edges one by one, then its nodes, each with the     *)
(* incident edges still live.  The caller's indices are valid and distinct *)
(* (assert_valid_batch); the order within each list does not matter here.  *)
(***************************************************************************)
Ascending(S) == CHOOSE s \in [1..Cardinality(S) -> S] :
                  \A i, j \in DOMAIN s : i < j => s[i] < s[j]

Named(ns, es) ==
  <<[i \in 1..Cardinality(ns) |-> NodeIx(Ascending(ns)[i])],
    [i \in 1..Cardinality(es) |-> EdgeIx(Ascending(es)[i])]>>

(***************************************************************************)
(* Mutant: the nodes first, so that an edge asked for may already be dead. *)
(***************************************************************************)
TakeNodesEdgesNodesFirst(ns, es) ==
  LET cascade == LiveIn(edges, Incident(ns))
  IN /\ ns \subseteq LiveNodes /\ es \subseteq LiveEdges
     /\ edges' = Tombstone(Tombstone(edges, cascade), es)
     /\ live_edges' = live_edges - Cardinality(es) - Cardinality(cascade)
     /\ nodes' = [n \in DOMAIN nodes |-> IF n \in ns THEN -nodes[n] ELSE nodes[n]]
     /\ live_nodes' = live_nodes - Cardinality(ns)
     /\ answer' = Answer("take", Named(ns, es), Named(ns, es))
     /\ UNCHANGED capacity

TakeNodesEdges(ns, es) ==
  LET without == Tombstone(edges, es)
      cascade == LiveIn(without, Incident(ns))
  IN /\ ns \subseteq LiveNodes /\ es \subseteq LiveEdges
     /\ edges' = Tombstone(without, cascade)
     /\ live_edges' = live_edges - Cardinality(es) - Cardinality(cascade)
     /\ nodes' = [n \in DOMAIN nodes |-> IF n \in ns THEN -nodes[n] ELSE nodes[n]]
     /\ live_nodes' = live_nodes - Cardinality(ns)
     /\ answer' = Answer("take", Named(ns, es), Named(ns, es))
     /\ UNCHANGED capacity

(***************************************************************************)
(* reverse, of tombstones too.                                             *)
(***************************************************************************)
Reverse ==
  /\ edges' = [e \in DOMAIN edges |-> [edges[e] EXCEPT !.ends = Flip(@), !.given = Flip(@)]]
  /\ answer' = Answer("reverse", <<>>, <<>>)
  /\ UNCHANGED <<nodes, live_nodes, live_edges, capacity>>

Step ==
  \/ AppendNode
  \/ \E n \in DOMAIN nodes : ReuseNode(n) \/ RemoveNode(n)
  \/ \E tail, head \in DOMAIN nodes :
       \/ AppendEdge(tail, head)
       \/ \E e \in DOMAIN edges : ReuseEdge(e, tail, head)
  \/ \E e \in DOMAIN edges : RemoveEdge(e)
  \/ \E ns \in SUBSET LiveNodes, es \in SUBSET LiveEdges : TakeNodesEdges(ns, es)
  \/ Reverse

Next == Step /\ Retire

Spec == Init /\ [][Next]_vars

-----------------------------------------------------------------------------
(***************************************************************************)
(* into_inner: the tombstoned edges are taken out of the inner graph, then *)
(* the tombstoned nodes with whatever edges are still incident.  What is   *)
(* left, by the slots the entries had.                                     *)
(***************************************************************************)
AfterEdgePass == DOMAIN edges \ DeadEdges
AfterNodePass == [nodes |-> DOMAIN nodes \ DeadNodes,
                  edges |-> AfterEdgePass \ Incident(DeadNodes)]

-----------------------------------------------------------------------------
Versions == Int \ {0}

Ends == (DOMAIN nodes) \X (DOMAIN nodes)

EdgeEntries ==
  [version : Versions, ends : Ends,
   given : ((DOMAIN nodes) \X Versions) \X ((DOMAIN nodes) \X Versions)]

Capacities == (Nat \cup {None}) \X (Nat \cup {None})

(***************************************************************************)
(* A slot's version is never 0; an edge's ends are slots of the inner      *)
(* graph, and its given endpoints are indices with those slots.            *)
(***************************************************************************)
TypeOK ==
  /\ nodes \in Seq(Versions)
  /\ edges \in Seq(EdgeEntries)
  /\ live_nodes \in Int /\ live_edges \in Int
  /\ capacity \in Capacities
  /\ \A k \in 1..2 : retired[k] \subseteq Nat \X Int

(***************************************************************************)
(* len_node and len_edge count the live entries, through cascades, batches *)
(* whose edges are incident to their nodes, and reuse.                     *)
(***************************************************************************)
CountersExact == /\ live_nodes = Cardinality(LiveNodes)
                 /\ live_edges = Cardinality(LiveEdges)

(***************************************************************************)
(* Without capacity to go by, an insertion skips the scan only when there  *)
(* are "no tombstones to reuse anyway (dead == 0...)" (comment in          *)
(* insert_node_unchecked): the counters never hide a tombstone.            *)
(***************************************************************************)
NoTombstoneSkipped ==
  /\ CanAppendCheaply(None, Len(nodes), live_nodes) => DeadNodes = {}
  /\ CanAppendCheaply(None, Len(edges), live_edges) => DeadEdges = {}

(***************************************************************************)
(* A live edge reports the endpoints it was inserted with, as valid        *)
(* indices, although its end slots are reused by other nodes in the        *)
(* meantime (endpoints_unchecked drops a tombstoned node and attaches      *)
(* whatever version it finds).                                             *)
(***************************************************************************)
EndpointsKept ==
  \A e \in LiveEdges : /\ Endpoints(e) = edges[e].given
                       /\ \A d \in 1..2 : ContainsNode(Endpoints(e)[d])

(***************************************************************************)
(* An index that has become invalid never becomes valid again ("versions   *)
(* prevent ABA"), so that StableNode and StableEdge may be claimed.        *)
(***************************************************************************)
NoResurrection == /\ \A ix \in retired[1] : ~ContainsNode(ix)
                  /\ \A ix \in retired[2] : ~ContainsEdge(ix)

(***************************************************************************)
(* into_inner keeps the live entries, all of them: "the node pass cascades *)
(* nothing" (comment in into_inner).                                       *)
(***************************************************************************)
PurgeKeepsLive == AfterNodePass = [nodes |-> LiveNodes, edges |-> LiveEdges]

(***************************************************************************)
(* The wrapper as a graph whose payloads are the indices it hands out.     *)
(***************************************************************************)
Abstract == INSTANCE Multigraph WITH
  NodeVals <- (1..MaxNodes) \X (1..MaxVersion),
  EdgeVals <- (1..MaxEdges) \X (1..MaxVersion),
  verts    <- NodeIxs,
  arcs     <- [ix \in EdgeIxs |-> Endpoints(ix[1])]

(***************************************************************************)
(* The wrapper is a graph of indices: an insertion adds one that was not   *)
(* valid, a removal invalidates the ones it was given and the edges of the *)
(* removed nodes, and no other index is invalidated or changes endpoints.  *)
(***************************************************************************)
RefinesMultigraph == Abstract!GrownSpec
=============================================================================
