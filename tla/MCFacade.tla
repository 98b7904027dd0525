------------------------------ MODULE MCFacade ------------------------------
(***************************************************************************)
(* Facade on small instances.  The graphs to extend by have two nodes and  *)
(* one or two edges between them, self-loops among them.                   *)
(***************************************************************************)
EXTENDS Facade

Names == Permutations(EdgeIds)
NamesAndPayloads == Names \cup Permutations(NodeVals)

TwoNodes == {InsertNode(InsertNode(<<>>, u), v) : <<u, v>> \in
               {p \in NodeVals \X NodeVals : p[1] # p[2]}}

OneEdge == UNION {{InsertEdge(g, [val |-> v, to |-> h, id |-> id], t) :
             t, h \in DOMAIN g, v \in EdgeVals, id \in EdgeIds} : g \in TwoNodes}

TwoEdges == UNION {{InsertEdge(g, [val |-> v, to |-> h, id |-> id], t) :
             t, h \in DOMAIN g, v \in EdgeVals,
             id \in EdgeIds \ {Edge(g, ix).id : ix \in EdgeIxs(g)}} : g \in OneEdge}

SmallOthers == OneEdge \cup TwoEdges

(***************************************************************************)
(* A view for properties of the calls alone: as a scope is handed all that *)
(* there is after each call, the calls open to it depend on the graph and  *)
(* not on what the indices named once.                                     *)
(***************************************************************************)
WhatCallsSee == <<graph, answer, Closed>>
=============================================================================
