----------------------------- MODULE Hypergraph ------------------------------
(***************************************************************************)
(* What a mutable hypergraph promises its callers: a set of nodes, and     *)
(* edges that each join a set of nodes, possibly one or none               *)
(* (graph/capability.rs, graph/edge.rs).  As in Multigraph, nodes and      *)
(* edges are known by their payloads and answer records the last call.     *)
(***************************************************************************)
EXTENDS Integers, Sequences, SequencesExt

CONSTANTS NodeVals, EdgeVals   \* payloads

VARIABLES verts,    \* the payloads of the nodes
          joins,    \* edge payload -> the payloads of the nodes it joins
          answer    \* the last call, what it was asked for and what it returned

vars == <<verts, joins, answer>>

Answer(call, asked, got) == [call |-> call, asked |-> asked, got |-> got]

Init == /\ verts = {}
        /\ joins = <<>>
        /\ answer = Answer("new", <<>>, <<>>)

InsertNode(v) ==
  /\ v \notin verts
  /\ verts' = verts \cup {v}
  /\ answer' = Answer("insert_node", <<v>>, <<v>>)
  /\ UNCHANGED joins

InsertEdge(v, ends) ==
  /\ v \notin DOMAIN joins
  /\ joins' = [e \in DOMAIN joins \cup {v} |-> IF e = v THEN ends ELSE joins[e]]
  /\ answer' = Answer("insert_edge", <<v, ends>>, <<v, ends>>)
  /\ UNCHANGED verts

(***************************************************************************)
(* Remove the nodes of ns, the edges of es, and every edge that joins a    *)
(* removed node; return the payloads of ns and of es in the order asked.   *)
(***************************************************************************)
TakeNodesEdges(ns, es) ==
  LET kept == {e \in DOMAIN joins \ ToSet(es) : joins[e] \cap ToSet(ns) = {}} IN
  /\ answer' = Answer("take", <<ns, es>>, <<ns, es>>)
  /\ ToSet(ns) \subseteq verts /\ ToSet(es) \subseteq DOMAIN joins
  /\ verts' = verts \ ToSet(ns)
  /\ joins' = [e \in kept |-> joins[e]]

Listings(S) == UNION {SetToSeqs(T) : T \in SUBSET S}

Next ==
  \/ \E v \in NodeVals : InsertNode(v)
  \/ \E v \in EdgeVals, ends \in SUBSET verts : InsertEdge(v, ends)
  \/ \E ns \in Listings(verts), es \in Listings(DOMAIN joins) : TakeNodesEdges(ns, es)

Spec == Init /\ [][Next]_vars
=============================================================================
