----------------------------- MODULE Multigraph -----------------------------
(***************************************************************************)
(* What a mutable graph promises its callers, whatever the storage layout: *)
(* a set of nodes and a set of directed edges between them, parallel edges *)
(* and self-loops allowed (graph.rs, graph/capability.rs).                 *)
(*                                                                         *)
(* Nodes and edges are known here by their payloads.  An index is only a   *)
(* way of addressing a payload and does not appear; that a call given an   *)
(* index acts on the payload the index addressed is what answer records.   *)
(***************************************************************************)
EXTENDS Integers, Sequences, SequencesExt

CONSTANTS NodeVals,   \* payloads a node can carry
          EdgeVals    \* payloads an edge can carry

VARIABLES verts,    \* the payloads of the nodes
          arcs,     \* edge payload -> <<tail payload, head payload>>
          answer    \* the last call, what it was asked for and what it returned

vars == <<verts, arcs, answer>>

(***************************************************************************)
(* asked and got are pairs of sequences: nodes and edges.                  *)
(***************************************************************************)
Answer(call, asked, got) == [call |-> call, asked |-> asked, got |-> got]

Init == /\ verts = {}
        /\ arcs = <<>>
        /\ answer = Answer("new", <<>>, <<>>)

Without(ns, es) ==
  [e \in {f \in DOMAIN arcs : /\ f \notin es
                              /\ \A i \in 1..2 : arcs[f][i] \notin ns} |-> arcs[e]]

InsertNode(v) ==
  /\ answer' = Answer("insert_node", <<v>>, <<v>>)
  /\ v \notin verts
  /\ verts' = verts \cup {v}
  /\ UNCHANGED arcs

InsertEdge(v, from, to) ==
  /\ answer' = Answer("insert_edge", <<v, from, to>>, <<v, from, to>>)
  /\ v \notin DOMAIN arcs
  /\ {from, to} \subseteq verts
  /\ arcs' = [e \in DOMAIN arcs \cup {v} |-> IF e = v THEN <<from, to>> ELSE arcs[e]]
  /\ UNCHANGED verts

(***************************************************************************)
(* A graph may refuse a payload it already holds, and then hands it back.  *)
(***************************************************************************)
Reject(v) ==
  /\ answer' = Answer("reject", <<v>>, <<v>>)
  /\ v \in verts \cup DOMAIN arcs
  /\ UNCHANGED <<verts, arcs>>

(***************************************************************************)
(* Remove the nodes of ns, the edges of es, and every edge incident to a   *)
(* removed node; return the payloads of ns and of es in the order asked.   *)
(***************************************************************************)
TakeNodesEdges(ns, es) ==
  /\ answer' = Answer("take", <<ns, es>>, <<ns, es>>)
  /\ ToSet(ns) \subseteq verts
  /\ ToSet(es) \subseteq DOMAIN arcs
  /\ verts' = verts \ ToSet(ns)
  /\ arcs' = Without(ToSet(ns), ToSet(es))

(***************************************************************************)
(* Ask for the index of a payload; it is there already.                    *)
(***************************************************************************)
Get(v) ==
  /\ answer' = Answer("get", <<v>>, <<v>>)
  /\ v \in verts
  /\ UNCHANGED <<verts, arcs>>

(***************************************************************************)
(* Add the nodes and edges of another graph, which are entirely new.       *)
(***************************************************************************)
ExtendGraph(other) ==
  /\ answer' = Answer("extend_graph", other, <<>>)
  /\ other.verts \cap verts = {} /\ DOMAIN other.arcs \cap DOMAIN arcs = {}
  /\ verts' = verts \cup other.verts
  /\ arcs' = [e \in DOMAIN arcs \cup DOMAIN other.arcs |->
                IF e \in DOMAIN arcs THEN arcs[e] ELSE other.arcs[e]]

(***************************************************************************)
(* A call may take its time; until it returns it has no answer.            *)
(***************************************************************************)
Pending == Answer("pending", <<>>, <<>>)

Begin == answer' = Pending /\ UNCHANGED <<verts, arcs>>

ReverseEdges ==
  /\ answer' = Answer("reverse", <<>>, <<>>)
  /\ arcs' = [e \in DOMAIN arcs |-> <<arcs[e][2], arcs[e][1]>>]
  /\ UNCHANGED verts

(***************************************************************************)
(* What a batch is asked for it may be asked for once.                     *)
(***************************************************************************)
AskedOnce(asked) == IsInjective(asked[1]) /\ IsInjective(asked[2])

(***************************************************************************)
(* No edge outlives one of its endpoints.                                  *)
(***************************************************************************)
NoDanglingArc ==
  \A e \in DOMAIN arcs : \A i \in 1..2 : arcs[e][i] \in verts

Next ==
  \/ Begin
  \/ \E v \in NodeVals : InsertNode(v)
  \/ \E v \in EdgeVals, from, to \in verts : InsertEdge(v, from, to)
  \/ \E v \in NodeVals \cup EdgeVals : Reject(v)
  \/ \E v \in NodeVals : Get(v)
  \/ answer'.call = "extend_graph" /\ ExtendGraph(answer'.asked)
  \/ ReverseEdges
  \/ /\ answer'.call = "take" /\ AskedOnce(answer'.asked)
     /\ TakeNodesEdges(answer'.asked[1], answer'.asked[2])

Spec == Init /\ [][Next]_vars

(***************************************************************************)
(* A graph that was not built from nothing.                                *)
(***************************************************************************)
GrownSpec == NoDanglingArc /\ [][Next]_vars
=============================================================================
