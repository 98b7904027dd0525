-------------------------- MODULE HyperEdge_proofs --------------------------
(***************************************************************************)
(* Proofs about HyperEdge, for all payloads and bounds.                    *)
(*                                                                         *)
(* The two tables of a hypergraph name each other's entries by position,   *)
(* and a removal moves an entry.  Graphs is the set of the pairs of tables *)
(* that agree with each other; every operation is shown to stay in it,     *)
(* and the loops over a batch by induction on their rounds.                *)
(*                                                                         *)
(* The operations are described once, by what can be observed of a graph   *)
(* before and after (NodeIxs to EndsAt); the rest of the proof speaks of   *)
(* observations only.                                                      *)
(***************************************************************************)
EXTENDS HyperEdge, Groundwork

NodeEntries == [val : NodeVals, incident : SUBSET Nat]
EdgeEntries == [val : EdgeVals, ends : SUBSET Nat]

Tables == [nodes : Vecs(NodeEntries), edges : Vecs(EdgeEntries)]

(***************************************************************************)
(* What can be observed of a graph.                                        *)
(***************************************************************************)
NodeIxs(g)       == DOMAIN g.nodes
EdgeIxs(g)       == DOMAIN g.edges
NodePayload(g, n) == g.nodes[n].val
EdgePayload(g, e) == g.edges[e].val
IncidentTo(g, n) == g.nodes[n].incident
EndsOf(g, e)     == g.edges[e].ends
LastNode(g)      == LastIndex(g.nodes)
LastEdge(g)      == LastIndex(g.edges)

(***************************************************************************)
(* An edge is in the set of a node if and only if the node is in the set   *)
(* of the edge.                                                            *)
(***************************************************************************)
Mutual(g) ==
  /\ \A n \in NodeIxs(g) : \A e : e \in IncidentTo(g, n) <=> e \in EdgeIxs(g) /\ n \in EndsOf(g, e)
  /\ \A e \in EdgeIxs(g) : \A n \in EndsOf(g, e) : n \in NodeIxs(g)

(***************************************************************************)
(* Every entry has a payload of its own.                                   *)
(***************************************************************************)
Distinct(g) ==
  /\ \A n, m \in NodeIxs(g) : NodePayload(g, n) = NodePayload(g, m) => n = m
  /\ \A e, f \in EdgeIxs(g) : EdgePayload(g, e) = EdgePayload(g, f) => e = f

Graphs == {g \in Tables : Mutual(g) /\ Distinct(g)}

(***************************************************************************)
(* The inductive invariant.                                                *)
(***************************************************************************)
IInv == graph \in Graphs

(***************************************************************************)
(* h has the nodes of g; h has the edges of g.                             *)
(***************************************************************************)
SameNodes(g, h) ==
  /\ NodeIxs(h) = NodeIxs(g) /\ LastNode(h) = LastNode(g)
  /\ \A n \in NodeIxs(g) : NodePayload(h, n) = NodePayload(g, n)

SameEdges(g, h) ==
  /\ EdgeIxs(h) = EdgeIxs(g) /\ LastEdge(h) = LastEdge(g)
  /\ \A e \in EdgeIxs(g) : EdgePayload(h, e) = EdgePayload(g, e) /\ EndsOf(h, e) = EndsOf(g, e)

-----------------------------------------------------------------------------
(***************************************************************************)
(* Replacing one table keeps the other.                                    *)
(***************************************************************************)
LEMMA TableExcept ==
  ASSUME NEW g \in Tables
  PROVE  /\ g.nodes \in Vecs(NodeEntries)
         /\ g.edges \in Vecs(EdgeEntries)
         /\ \A t \in Vecs(NodeEntries) : /\ [g EXCEPT !.nodes = t] \in Tables
                                         /\ [g EXCEPT !.nodes = t].nodes = t
                                         /\ [g EXCEPT !.nodes = t].edges = g.edges
         /\ \A t \in Vecs(EdgeEntries) : /\ [g EXCEPT !.edges = t] \in Tables
                                         /\ [g EXCEPT !.edges = t].edges = t
                                         /\ [g EXCEPT !.edges = t].nodes = g.nodes
  BY DEF Tables

(***************************************************************************)
(* The types of the observations.                                          *)
(***************************************************************************)
LEMMA ObservationTypes ==
  ASSUME NEW g \in Tables
  PROVE  /\ NodeIxs(g) \subseteq Nat /\ IsFiniteSet(NodeIxs(g))
         /\ EdgeIxs(g) \subseteq Nat /\ IsFiniteSet(EdgeIxs(g))
         /\ NodeIxs(g) = 0..LastNode(g) /\ EdgeIxs(g) = 0..LastEdge(g)
         /\ LastNode(g) \in Int /\ LastEdge(g) \in Int
         /\ \A n \in NodeIxs(g) : NodePayload(g, n) \in NodeVals /\ IncidentTo(g, n) \subseteq Nat
         /\ \A e \in EdgeIxs(g) : EdgePayload(g, e) \in EdgeVals /\ EndsOf(g, e) \subseteq Nat
  <1>1. g.nodes \in Vecs(NodeEntries) /\ g.edges \in Vecs(EdgeEntries)
    BY TableExcept
  <1>2. \A n \in DOMAIN g.nodes : g.nodes[n] \in NodeEntries
    BY <1>1, VecElim
  <1>3. \A e \in DOMAIN g.edges : g.edges[e] \in EdgeEntries
    BY <1>1, VecElim
  <1>4. \A n \in NodeIxs(g) : NodePayload(g, n) \in NodeVals /\ IncidentTo(g, n) \subseteq Nat
    BY <1>2 DEF NodeEntries, NodeIxs, NodePayload, IncidentTo
  <1>5. \A e \in EdgeIxs(g) : EdgePayload(g, e) \in EdgeVals /\ EndsOf(g, e) \subseteq Nat
    BY <1>3 DEF EdgeEntries, EdgeIxs, EdgePayload, EndsOf
  <1>6. /\ NodeIxs(g) \subseteq Nat /\ IsFiniteSet(NodeIxs(g))
        /\ LastNode(g) = Size(g.nodes) - 1 /\ Size(g.nodes) \in Nat
        /\ NodeIxs(g) = 0..(Size(g.nodes) - 1)
    BY <1>1, VecElim DEF NodeIxs, LastNode
  <1>7. /\ EdgeIxs(g) \subseteq Nat /\ IsFiniteSet(EdgeIxs(g))
        /\ LastEdge(g) = Size(g.edges) - 1 /\ Size(g.edges) \in Nat
        /\ EdgeIxs(g) = 0..(Size(g.edges) - 1)
    BY <1>1, VecElim DEF EdgeIxs, LastEdge
  <1> QED
    BY <1>4, <1>5, <1>6, <1>7

(***************************************************************************)
(* Unrecord takes e out of the sets of the nodes ns and does nothing else. *)
(***************************************************************************)
LEMMA UnrecordFacts ==
  ASSUME NEW g \in Tables, NEW ns, NEW e \in Nat
  PROVE  LET h == Unrecord(g, ns, e) IN
         /\ h \in Tables /\ SameNodes(g, h) /\ SameEdges(g, h)
         /\ \A n \in NodeIxs(g) : \A f :
              f \in IncidentTo(h, n) <=> f \in IncidentTo(g, n) /\ ~(n \in ns /\ f = e)
  <1> DEFINE t == [n \in DOMAIN g.nodes |->
                     IF n \in ns THEN [g.nodes[n] EXCEPT !.incident = @ \ {e}] ELSE g.nodes[n]]
             h == Unrecord(g, ns, e)
             k == Size(g.nodes)
  <1> HIDE DEF t, h, k
  <1>1. g.nodes \in Vecs(NodeEntries)
    BY TableExcept
  <1>2. k \in Nat /\ DOMAIN g.nodes = 0..(k - 1)
    BY <1>1, VecElim DEF k
  <1>3. ASSUME NEW n \in DOMAIN g.nodes
        PROVE  /\ t[n] \in NodeEntries /\ t[n].val = g.nodes[n].val
               /\ \A f : f \in t[n].incident <=> f \in g.nodes[n].incident /\ ~(n \in ns /\ f = e)
    <2>1. g.nodes[n] \in NodeEntries
      BY <1>1, VecElim
    <2>2. t[n] = IF n \in ns THEN [g.nodes[n] EXCEPT !.incident = @ \ {e}] ELSE g.nodes[n]
      BY DEF t
    <2> QED
      BY <2>1, <2>2 DEF NodeEntries
  <1>4. t \in [0..(k - 1) -> NodeEntries] /\ DOMAIN t = DOMAIN g.nodes
    BY <1>2, <1>3 DEF t
  <1>5. t \in Vecs(NodeEntries) /\ Size(t) = k
    BY <1>2, <1>4, VecIntro
  <1>6. h \in Tables /\ h.nodes = t /\ h.edges = g.edges
    <2>1. h = [g EXCEPT !.nodes = t]
      BY Zenon DEF Unrecord, t, h
    <2> QED
      BY <1>5, <2>1, TableExcept
  <1>7. SameEdges(g, h)
    BY <1>6 DEF SameEdges, EdgeIxs, LastEdge, EdgePayload, EndsOf
  <1>8. SameNodes(g, h)
    <2>1. LastIndex(t) = LastIndex(g.nodes)
      BY <1>5 DEF LastIndex, k
    <2> QED
      BY <1>3, <1>4, <1>6, <2>1 DEF SameNodes, NodeIxs, LastNode, NodePayload
  <1>9. ASSUME NEW n \in NodeIxs(g), NEW f
        PROVE  f \in IncidentTo(h, n) <=> f \in IncidentTo(g, n) /\ ~(n \in ns /\ f = e)
    <2>1. IncidentTo(h, n) = t[n].incident
      BY <1>6 DEF IncidentTo
    <2>2. f \in t[n].incident <=> f \in g.nodes[n].incident /\ ~(n \in ns /\ f = e)
      BY <1>3 DEF NodeIxs
    <2> QED
      BY <2>1, <2>2 DEF IncidentTo
  <1> QED
    BY <1>6, <1>7, <1>8, <1>9 DEF h

(***************************************************************************)
(* Record puts e into the sets of the nodes ns and does nothing else.      *)
(***************************************************************************)
LEMMA RecordFacts ==
  ASSUME NEW g \in Tables, NEW ns, NEW e \in Nat
  PROVE  LET h == Record(g, ns, e) IN
         /\ h \in Tables /\ SameNodes(g, h) /\ SameEdges(g, h)
         /\ \A n \in NodeIxs(g) : \A f :
              f \in IncidentTo(h, n) <=> f \in IncidentTo(g, n) \/ (n \in ns /\ f = e)
  <1> DEFINE t == [n \in DOMAIN g.nodes |->
                     IF n \in ns THEN [g.nodes[n] EXCEPT !.incident = @ \cup {e}] ELSE g.nodes[n]]
             h == Record(g, ns, e)
             k == Size(g.nodes)
  <1> HIDE DEF t, h, k
  <1>1. g.nodes \in Vecs(NodeEntries)
    BY TableExcept
  <1>2. k \in Nat /\ DOMAIN g.nodes = 0..(k - 1)
    BY <1>1, VecElim DEF k
  <1>3. ASSUME NEW n \in DOMAIN g.nodes
        PROVE  /\ t[n] \in NodeEntries /\ t[n].val = g.nodes[n].val
               /\ \A f : f \in t[n].incident <=> f \in g.nodes[n].incident \/ (n \in ns /\ f = e)
    <2>1. g.nodes[n] \in NodeEntries
      BY <1>1, VecElim
    <2>2. t[n] = IF n \in ns THEN [g.nodes[n] EXCEPT !.incident = @ \cup {e}] ELSE g.nodes[n]
      BY DEF t
    <2> QED
      BY <2>1, <2>2 DEF NodeEntries
  <1>4. t \in [0..(k - 1) -> NodeEntries] /\ DOMAIN t = DOMAIN g.nodes
    BY <1>2, <1>3 DEF t
  <1>5. t \in Vecs(NodeEntries) /\ Size(t) = k
    BY <1>2, <1>4, VecIntro
  <1>6. h \in Tables /\ h.nodes = t /\ h.edges = g.edges
    <2>1. h = [g EXCEPT !.nodes = t]
      BY Zenon DEF Record, t, h
    <2> QED
      BY <1>5, <2>1, TableExcept
  <1>7. SameEdges(g, h)
    BY <1>6 DEF SameEdges, EdgeIxs, LastEdge, EdgePayload, EndsOf
  <1>8. SameNodes(g, h)
    <2>1. LastIndex(t) = LastIndex(g.nodes)
      BY <1>5 DEF LastIndex, k
    <2> QED
      BY <1>3, <1>4, <1>6, <2>1 DEF SameNodes, NodeIxs, LastNode, NodePayload
  <1>9. ASSUME NEW n \in NodeIxs(g), NEW f
        PROVE  f \in IncidentTo(h, n) <=> f \in IncidentTo(g, n) \/ (n \in ns /\ f = e)
    <2>1. IncidentTo(h, n) = t[n].incident
      BY <1>6 DEF IncidentTo
    <2>2. f \in t[n].incident <=> f \in g.nodes[n].incident \/ (n \in ns /\ f = e)
      BY <1>3 DEF NodeIxs
    <2> QED
      BY <2>1, <2>2 DEF IncidentTo
  <1> QED
    BY <1>6, <1>7, <1>8, <1>9 DEF h

-----------------------------------------------------------------------------
(***************************************************************************)
(* A new node is in no edge yet.                                           *)
(***************************************************************************)
LEMMA InsertNodeFacts ==
  ASSUME NEW g \in Graphs, NEW v \in NodeVals, \A n \in NodeIxs(g) : NodePayload(g, n) # v
  PROVE  LET h == InsertNode(g, v)
             ix == LastNode(g) + 1
         IN /\ h \in Graphs
            /\ SameEdges(g, h)
            /\ NodeIxs(h) = NodeIxs(g) \cup {ix} /\ ix \notin NodeIxs(g)
            /\ NodePayload(h, ix) = v
            /\ \A n \in NodeIxs(g) : NodePayload(h, n) = NodePayload(g, n)
  <1> DEFINE new == [val |-> v, incident |-> {}]
             t   == Insert(TRUE, g.nodes, new)
             h   == InsertNode(g, v)
             ix  == LastNode(g) + 1
  <1> HIDE DEF new, t, h, ix
  <1>1. g \in Tables /\ Mutual(g)
    BY DEF Graphs
  <1>2. g.nodes \in Vecs(NodeEntries)
    BY <1>1, TableExcept
  <1>3. new \in NodeEntries /\ new.val = v /\ new.incident = {}
    BY DEF NodeEntries, new
  <1>4. ix = Size(g.nodes)
    BY <1>2, VecElim DEF ix, LastNode
  <1>5. /\ t \in Vecs(NodeEntries)
        /\ \A i : i \in DOMAIN t <=> i \in DOMAIN g.nodes \/ i = ix
        /\ ix \notin DOMAIN g.nodes
        /\ t[ix] = new
        /\ \A i \in DOMAIN g.nodes : t[i] = g.nodes[i]
    <2> DEFINE c == g.nodes
    <2> HIDE DEF c
    <2>1. new \in NodeEntries /\ c \in Vecs(NodeEntries) /\ ix = Size(c) /\ t = Insert(TRUE, c, new)
      BY <1>2, <1>3, <1>4 DEF c, t
    <2>2. t \in Vecs(NodeEntries)
      BY <2>1, VecInsert
    <2>3. \A i : i \in DOMAIN t <=> i \in DOMAIN c \/ i = ix
      BY <2>1, VecInsert
    <2>4. ix \notin DOMAIN c /\ t[ix] = new
      BY <2>1, VecInsert
    <2>5. \A i \in DOMAIN c : t[i] = c[i]
      BY <2>1, VecInsert
    <2> QED
      BY <2>2, <2>3, <2>4, <2>5 DEF c
  <1>6. h \in Tables /\ h.nodes = t /\ h.edges = g.edges
    <2>1. h = [g EXCEPT !.nodes = t]
      BY Zenon DEF InsertNode, new, h, t
    <2> QED
      BY <1>1, <1>5, <2>1, TableExcept
  <1>7. SameEdges(g, h)
    BY <1>6 DEF SameEdges, EdgeIxs, LastEdge, EdgePayload, EndsOf
  <1>8. NodeIxs(h) = NodeIxs(g) \cup {ix} /\ ix \notin NodeIxs(g)
    BY <1>5, <1>6 DEF NodeIxs
  <1>9. NodePayload(h, ix) = v /\ IncidentTo(h, ix) = {}
    BY <1>3, <1>5, <1>6 DEF NodePayload, IncidentTo
  <1>10. \A n \in NodeIxs(g) : /\ NodePayload(h, n) = NodePayload(g, n)
                               /\ IncidentTo(h, n) = IncidentTo(g, n)
    BY <1>5, <1>6 DEF NodePayload, IncidentTo, NodeIxs
  <1>11. Mutual(h)
    BY <1>1, <1>7, <1>8, <1>9, <1>10 DEF Mutual, SameEdges
  <1>12. Distinct(h)
    <2>1. Distinct(g)
      BY DEF Graphs
    <2>2. \A e, f \in EdgeIxs(h) : EdgePayload(h, e) = EdgePayload(h, f) => e = f
      BY <1>7, <2>1 DEF Distinct, SameEdges
    <2>3. \A n, m \in NodeIxs(h) : NodePayload(h, n) = NodePayload(h, m) => n = m
      BY <1>8, <1>9, <1>10, <2>1 DEF Distinct
    <2> QED
      BY <2>2, <2>3 DEF Distinct
  <1>13. h \in Graphs
    BY <1>6, <1>11, <1>12 DEF Graphs
  <1> QED
    BY <1>7, <1>8, <1>9, <1>10, <1>13 DEF h, ix

(***************************************************************************)
(* h is g with a new edge at ix.                                           *)
(***************************************************************************)
GainsEdge(g, h, ix, v, ends) ==
  /\ SameNodes(g, h)
  /\ EdgeIxs(h) = EdgeIxs(g) \cup {ix} /\ ix \notin EdgeIxs(g)
  /\ EdgePayload(h, ix) = v /\ EndsOf(h, ix) = ends
  /\ \A e \in EdgeIxs(g) : EdgePayload(h, e) = EdgePayload(g, e) /\ EndsOf(h, e) = EndsOf(g, e)

(***************************************************************************)
(* A new edge is recorded at every node it joins.                          *)
(***************************************************************************)
LEMMA InsertEdgeFacts ==
  ASSUME NEW g \in Graphs, NEW v \in EdgeVals, NEW ends \in SUBSET NodeIxs(g),
         \A e \in EdgeIxs(g) : EdgePayload(g, e) # v
  PROVE  /\ InsertEdge(g, v, ends) \in Graphs
         /\ GainsEdge(g, InsertEdge(g, v, ends), IndexOfNew(TRUE, g.edges, v), v, ends)
  <1> DEFINE new == [val |-> v, ends |-> ends]
             t   == Insert(TRUE, g.edges, new)
             mid == [g EXCEPT !.edges = t]
             h   == InsertEdge(g, v, ends)
             ix  == LastEdge(g) + 1
  <1> HIDE DEF new, t, mid, h, ix
  <1>1. g \in Tables /\ Mutual(g)
    BY DEF Graphs
  <1>2. g.edges \in Vecs(EdgeEntries)
    BY <1>1, TableExcept
  <1>3. new \in EdgeEntries /\ new.ends = ends /\ new.val = v
    <2>1. ends \subseteq Nat
      BY <1>1, ObservationTypes
    <2> QED
      BY <2>1 DEF EdgeEntries, new
  <1>4. ix = Size(g.edges) /\ ix = IndexOfNew(TRUE, g.edges, v) /\ ix \in Nat
    BY <1>2, VecElim DEF ix, LastEdge, IndexOfNew
  <1>5. /\ t \in Vecs(EdgeEntries)
        /\ \A i : i \in DOMAIN t <=> i \in DOMAIN g.edges \/ i = ix
        /\ ix \notin DOMAIN g.edges
        /\ t[ix] = new
        /\ \A i \in DOMAIN g.edges : t[i] = g.edges[i]
    <2> DEFINE c == g.edges
    <2> HIDE DEF c
    <2>1. new \in EdgeEntries /\ c \in Vecs(EdgeEntries) /\ ix = Size(c) /\ t = Insert(TRUE, c, new)
      BY <1>2, <1>3, <1>4 DEF c, t
    <2>2. t \in Vecs(EdgeEntries)
      BY <2>1, VecInsert
    <2>3. \A i : i \in DOMAIN t <=> i \in DOMAIN c \/ i = ix
      BY <2>1, VecInsert
    <2>4. ix \notin DOMAIN c /\ t[ix] = new
      BY <2>1, VecInsert
    <2>5. \A i \in DOMAIN c : t[i] = c[i]
      BY <2>1, VecInsert
    <2> QED
      BY <2>2, <2>3, <2>4, <2>5 DEF c
  <1>6. mid \in Tables /\ mid.nodes = g.nodes /\ mid.edges = t
    BY <1>1, <1>5, TableExcept DEF mid
  <1>7. h = Record(mid, ends, ix)
    BY <1>4, Zenon DEF InsertEdge, new, t, h, mid
  <1>8. SameNodes(g, mid) /\ \A n \in NodeIxs(g) : IncidentTo(mid, n) = IncidentTo(g, n)
    BY <1>6 DEF SameNodes, NodeIxs, LastNode, NodePayload, IncidentTo
  <1>9. /\ EdgeIxs(mid) = EdgeIxs(g) \cup {ix} /\ ix \notin EdgeIxs(g)
        /\ EdgePayload(mid, ix) = v /\ EndsOf(mid, ix) = ends
        /\ \A e \in EdgeIxs(g) : /\ EdgePayload(mid, e) = EdgePayload(g, e)
                                 /\ EndsOf(mid, e) = EndsOf(g, e)
    BY <1>3, <1>5, <1>6 DEF EdgeIxs, EdgePayload, EndsOf
  <1>10. /\ h \in Tables /\ SameNodes(mid, h) /\ SameEdges(mid, h)
         /\ \A n \in NodeIxs(mid) : \A f :
              f \in IncidentTo(h, n) <=> f \in IncidentTo(mid, n) \/ (n \in ends /\ f = ix)
    BY <1>4, <1>6, <1>7, RecordFacts
  <1>11. SameNodes(g, h)
    BY <1>8, <1>10 DEF SameNodes
  <1>12. /\ EdgeIxs(h) = EdgeIxs(g) \cup {ix}
         /\ EdgePayload(h, ix) = v /\ EndsOf(h, ix) = ends
         /\ \A e \in EdgeIxs(g) : /\ EdgePayload(h, e) = EdgePayload(g, e)
                                  /\ EndsOf(h, e) = EndsOf(g, e)
    BY <1>9, <1>10 DEF SameEdges
  <1>13. ASSUME NEW n \in NodeIxs(h), NEW f
         PROVE  f \in IncidentTo(h, n) <=> f \in EdgeIxs(h) /\ n \in EndsOf(h, f)
    <2>1. n \in NodeIxs(g) /\ n \in NodeIxs(mid)
      BY <1>8, <1>11 DEF SameNodes
    <2>2. f \in IncidentTo(g, n) <=> f \in EdgeIxs(g) /\ n \in EndsOf(g, f)
      BY <1>1, <2>1 DEF Mutual
    <2>3. f \in IncidentTo(h, n) <=> f \in IncidentTo(g, n) \/ (n \in ends /\ f = ix)
      BY <1>8, <1>10, <2>1
    <2> QED
      BY <1>9, <1>12, <2>2, <2>3
  <1>14. ASSUME NEW e \in EdgeIxs(h), NEW n \in EndsOf(h, e)
         PROVE  n \in NodeIxs(h)
    BY <1>1, <1>11, <1>12, <1>14 DEF Mutual, SameNodes
  <1>15. Distinct(h)
    <2>1. Distinct(g)
      BY DEF Graphs
    <2>2. \A e, f \in EdgeIxs(h) : EdgePayload(h, e) = EdgePayload(h, f) => e = f
      BY <1>12, <2>1 DEF Distinct
    <2>3. \A n, m \in NodeIxs(h) : NodePayload(h, n) = NodePayload(h, m) => n = m
      BY <1>11, <2>1 DEF Distinct, SameNodes
    <2> QED
      BY <2>2, <2>3 DEF Distinct
  <1>16. h \in Graphs
    BY <1>10, <1>13, <1>14, <1>15 DEF Graphs, Mutual
  <1>17. GainsEdge(g, h, ix, v, ends)
    BY <1>9, <1>11, <1>12 DEF GainsEdge
  <1> QED
    BY <1>4, <1>16, <1>17 DEF h

-----------------------------------------------------------------------------
(***************************************************************************)
(* take_edge_unchecked keeps the tables in agreement: the edge that moved  *)
(* is known by its new position wherever it was known by its old one.      *)
(***************************************************************************)
LEMMA TakeEdgeFacts ==
  ASSUME NEW g \in Graphs, NEW e \in EdgeIxs(g)
  PROVE  LET h == TakeEdge(g, e)
             last == LastEdge(g)
         IN /\ h \in Graphs
            /\ SameNodes(g, h)
            /\ last \in EdgeIxs(g)
            /\ EdgeIxs(h) = EdgeIxs(g) \ {last}
            /\ LastEdge(h) = last - 1
            /\ e # last => /\ EdgePayload(h, e) = EdgePayload(g, last)
                           /\ EndsOf(h, e) = EndsOf(g, last)
            /\ \A f \in EdgeIxs(h) : f # e => /\ EdgePayload(h, f) = EdgePayload(g, f)
                                              /\ EndsOf(h, f) = EndsOf(g, f)
  <1> DEFINE last  == LastEdge(g)
             t     == Take(TRUE, g.edges, e)
             mid   == [g EXCEPT !.edges = t]
             taken == Unrecord(mid, EndsOf(g, e), e)
             moved == EndsOf(taken, e)
             away  == Unrecord(taken, moved, last)
             h     == TakeEdge(g, e)
  <1> HIDE DEF last, t, mid, taken, moved, away, h
  <1>1. g \in Tables /\ Mutual(g)
    BY DEF Graphs
  <1>2. g.edges \in Vecs(EdgeEntries) /\ e \in DOMAIN g.edges
    BY <1>1, TableExcept DEF EdgeIxs
  <1>3. /\ last = LastIndex(g.edges)
        /\ t \in Vecs(EdgeEntries)
        /\ \A i : i \in DOMAIN t <=> i \in DOMAIN g.edges /\ i # last
        /\ Size(t) = Size(g.edges) - 1
        /\ last \in DOMAIN g.edges
        /\ e # last => t[e] = g.edges[last]
        /\ \A i \in DOMAIN t : i # e => t[i] = g.edges[i]
    <2> DEFINE c == g.edges
    <2> HIDE DEF c
    <2>1. c \in Vecs(EdgeEntries) /\ e \in DOMAIN c /\ t = Take(TRUE, c, e) /\ last = LastIndex(c)
      BY <1>2 DEF c, t, last, LastEdge
    <2>2. t \in Vecs(EdgeEntries) /\ Size(t) = Size(c) - 1 /\ last \in DOMAIN c
      BY <2>1, VecTake
    <2>3. \A i : i \in DOMAIN t <=> i \in DOMAIN c /\ i # last
      BY <2>1, VecTake
    <2>4. e # last => t[e] = c[last]
      BY <2>1, VecTake
    <2>5. \A i \in DOMAIN t : i # e => t[i] = c[i]
      BY <2>1, VecTake
    <2> QED
      BY <2>1, <2>2, <2>3, <2>4, <2>5 DEF c
  <1>4. e \in Nat /\ last \in Nat /\ last \in EdgeIxs(g)
    BY <1>1, <1>3, ObservationTypes DEF EdgeIxs
  <1>5. mid \in Tables /\ mid.nodes = g.nodes /\ mid.edges = t
    BY <1>1, <1>3, TableExcept DEF mid
  <1>6. SameNodes(g, mid) /\ \A n \in NodeIxs(g) : IncidentTo(mid, n) = IncidentTo(g, n)
    BY <1>5 DEF SameNodes, NodeIxs, LastNode, NodePayload, IncidentTo
  <1>7. /\ EdgeIxs(mid) = EdgeIxs(g) \ {last}
        /\ LastEdge(mid) = last - 1
        /\ e # last => /\ EdgePayload(mid, e) = EdgePayload(g, last)
                       /\ EndsOf(mid, e) = EndsOf(g, last)
        /\ \A f \in EdgeIxs(mid) : f # e => /\ EdgePayload(mid, f) = EdgePayload(g, f)
                                           /\ EndsOf(mid, f) = EndsOf(g, f)
    <2>1. LastEdge(mid) = last - 1
      <3>1. Size(g.edges) \in Nat
        BY <1>2, VecElim
      <3> QED
        BY <1>3, <1>5, <3>1 DEF LastEdge, LastIndex
    <2>2. e # last => e \in DOMAIN t
      BY <1>2, <1>3
    <2> QED
      BY <1>3, <1>5, <2>1, <2>2 DEF EdgeIxs, EdgePayload, EndsOf
  <1>8. h = IF e # last THEN Record(away, moved, e) ELSE taken
    <2>1. Relocates(TRUE, g.edges, e) <=> e # last
      BY <1>3 DEF Relocates
    <2>2. h = IF Relocates(TRUE, g.edges, e) THEN Record(away, moved, e) ELSE taken
      BY Zenon DEF TakeEdge, h, away, moved, taken, mid, t, last, LastEdge, EndsOf
    <2> QED
      BY <2>1, <2>2
  <1>9. /\ taken \in Tables /\ SameNodes(mid, taken) /\ SameEdges(mid, taken)
        /\ \A n \in NodeIxs(mid) : \A f :
             f \in IncidentTo(taken, n) <=>
               f \in IncidentTo(mid, n) /\ ~(n \in EndsOf(g, e) /\ f = e)
    BY <1>4, <1>5, UnrecordFacts DEF taken
  <1>10. /\ away \in Tables /\ SameNodes(taken, away) /\ SameEdges(taken, away)
         /\ \A n \in NodeIxs(taken) : \A f :
              f \in IncidentTo(away, n) <=>
                f \in IncidentTo(taken, n) /\ ~(n \in moved /\ f = last)
    BY <1>4, <1>9, UnrecordFacts DEF away
  <1>11. e # last =>
           /\ h \in Tables /\ SameNodes(away, h) /\ SameEdges(away, h)
           /\ \A n \in NodeIxs(away) : \A f :
                f \in IncidentTo(h, n) <=>
                  f \in IncidentTo(away, n) \/ (n \in moved /\ f = e)
    BY <1>4, <1>8, <1>10, RecordFacts
  <1>12. h \in Tables /\ SameNodes(g, h) /\ SameEdges(mid, h)
    BY <1>6, <1>8, <1>9, <1>10, <1>11 DEF SameNodes, SameEdges
  <1>13. ASSUME NEW n \in NodeIxs(g), NEW f
         PROVE  f \in IncidentTo(h, n) <=> f \in EdgeIxs(h) /\ n \in EndsOf(h, f)
    <2>1. f \in IncidentTo(g, n) <=> f \in EdgeIxs(g) /\ n \in EndsOf(g, f)
      BY <1>1 DEF Mutual
    <2>2. f \in IncidentTo(taken, n) <=> f \in IncidentTo(g, n) /\ ~(n \in EndsOf(g, e) /\ f = e)
      BY <1>6, <1>9 DEF SameNodes
    <2>3. f \in EdgeIxs(h) <=> f \in EdgeIxs(g) /\ f # last
      BY <1>7, <1>12 DEF SameEdges
    <2>4. CASE e = last
      <3>1. h = taken
        BY <1>8, <2>4
      <3>2. f \in EdgeIxs(h) => EndsOf(h, f) = EndsOf(g, f)
        BY <1>7, <1>12, <2>3, <2>4 DEF SameEdges
      <3> QED
        BY <2>1, <2>2, <2>3, <2>4, <3>1, <3>2
    <2>5. CASE e # last
      <3>1. e \in EdgeIxs(mid)
        BY <1>7, <2>5
      <3>2. moved = EndsOf(g, last)
        BY <1>7, <1>9, <2>5, <3>1 DEF moved, SameEdges
      <3>3. f \in IncidentTo(h, n) <=>
              (f \in IncidentTo(taken, n) /\ ~(n \in moved /\ f = last)) \/ (n \in moved /\ f = e)
        BY <1>6, <1>9, <1>10, <1>11, <2>5 DEF SameNodes
      <3>4. /\ f \in EdgeIxs(h) /\ f # e => EndsOf(h, f) = EndsOf(g, f)
            /\ EndsOf(h, e) = EndsOf(g, last)
        BY <1>7, <1>12, <2>5, <3>1 DEF SameEdges
      <3> QED
        BY <1>4, <2>1, <2>2, <2>3, <2>5, <3>2, <3>3, <3>4
    <2> QED
      BY <2>4, <2>5
  <1>14. ASSUME NEW f \in EdgeIxs(h), NEW n \in EndsOf(h, f)
         PROVE  n \in NodeIxs(h)
    <2>1. f \in EdgeIxs(mid) /\ n \in EndsOf(mid, f)
      BY <1>12, <1>14 DEF SameEdges
    <2>2. \E d \in EdgeIxs(g) : n \in EndsOf(g, d)
      BY <1>4, <1>7, <2>1
    <2> QED
      BY <1>1, <1>12, <2>2 DEF Mutual, SameNodes
  <1>15. /\ EdgeIxs(h) = EdgeIxs(g) \ {last}
         /\ LastEdge(h) = last - 1
         /\ e # last => /\ EdgePayload(h, e) = EdgePayload(g, last)
                        /\ EndsOf(h, e) = EndsOf(g, last)
         /\ \A f \in EdgeIxs(h) : f # e => /\ EdgePayload(h, f) = EdgePayload(g, f)
                                           /\ EndsOf(h, f) = EndsOf(g, f)
    BY <1>7, <1>12 DEF SameEdges
  <1>16. Distinct(h)
    <2>1. Distinct(g)
      BY DEF Graphs
    <2>2. \A n, m \in NodeIxs(h) : NodePayload(h, n) = NodePayload(h, m) => n = m
      BY <1>12, <2>1 DEF Distinct, SameNodes
    <2>3. ASSUME NEW x \in EdgeIxs(h), NEW y \in EdgeIxs(h), EdgePayload(h, x) = EdgePayload(h, y)
          PROVE  x = y
      <3> DEFINE Old(i) == IF i = e THEN last ELSE i
      <3>1. \A i \in EdgeIxs(h) : Old(i) \in EdgeIxs(g) /\ EdgePayload(h, i) = EdgePayload(g, Old(i))
        BY <1>4, <1>15
      <3>2. Old(x) = Old(y)
        BY <2>1, <2>3, <3>1 DEF Distinct
      <3> QED
        BY <1>15, <3>2
    <2> QED
      BY <2>2, <2>3 DEF Distinct
  <1>17. h \in Graphs
    BY <1>12, <1>13, <1>14, <1>16 DEF Graphs, Mutual, SameNodes
  <1> QED
    BY <1>4, <1>12, <1>15, <1>17 DEF h, last

-----------------------------------------------------------------------------
(***************************************************************************)
(* The hypergraph a graph stands for, by payload: what is a node, what is  *)
(* an edge, and which edge joins which node.                               *)
(***************************************************************************)
NodeNamed(g, v) == \E n \in NodeIxs(g) : NodePayload(g, n) = v
EdgeNamed(g, x) == \E e \in EdgeIxs(g) : EdgePayload(g, e) = x

Joined(g, x, v) == \E e \in EdgeIxs(g) : /\ EdgePayload(g, e) = x
                                        /\ \E n \in EndsOf(g, e) : NodePayload(g, n) = v

(***************************************************************************)
(* The set of payloads that an edge joins.                                 *)
(***************************************************************************)
LEMMA EndsByPayload ==
  ASSUME NEW g \in Graphs, NEW e \in EdgeIxs(g), NEW v
  PROVE  v \in Ends(g, e) <=> \E n \in EndsOf(g, e) : NodePayload(g, n) = v
  <1>1. \A n \in g.edges[e].ends : n \in DOMAIN g.nodes
    BY DEF Graphs, Mutual, EndsOf, NodeIxs
  <1> QED
    BY <1>1 DEF Ends, EndsOf, NodePayload

(***************************************************************************)
(* The refinement mapping gives what it should, as payloads differ.        *)
(***************************************************************************)
LEMMA StandsFor ==
  ASSUME NEW g \in Graphs
  PROVE  /\ \A v : v \in VertsOf(g) <=> NodeNamed(g, v)
         /\ \A x : x \in DOMAIN JoinsOf(g) <=> EdgeNamed(g, x)
         /\ \A x \in DOMAIN JoinsOf(g) : \A v : v \in JoinsOf(g)[x] <=> Joined(g, x, v)
         /\ JoinsOf(g) = [x \in DOMAIN JoinsOf(g) |-> JoinsOf(g)[x]]
  <1>1. \A v : v \in VertsOf(g) <=> NodeNamed(g, v)
    BY DEF VertsOf, NodeNamed, NodeIxs, NodePayload
  <1>2. \A x : x \in DOMAIN JoinsOf(g) <=> EdgeNamed(g, x)
    BY DEF JoinsOf, EdgeNamed, EdgeIxs, EdgePayload
  <1>3. ASSUME NEW x \in DOMAIN JoinsOf(g), NEW v
        PROVE  v \in JoinsOf(g)[x] <=> Joined(g, x, v)
    <2>1. PICK e \in EdgeIxs(g) : EdgePayload(g, e) = x
      BY <1>2, <1>3 DEF EdgeNamed
    <2>2. ByVal(g, x) \in EdgeIxs(g) /\ EdgePayload(g, ByVal(g, x)) = x
      BY <2>1 DEF ByVal, EdgeIxs, EdgePayload
    <2>3. \A f \in EdgeIxs(g) : EdgePayload(g, f) = x => f = ByVal(g, x)
      BY <2>2 DEF Graphs, Distinct
    <2>4. JoinsOf(g)[x] = Ends(g, ByVal(g, x))
      BY <1>3 DEF JoinsOf
    <2>5. v \in Ends(g, ByVal(g, x)) <=> \E n \in EndsOf(g, ByVal(g, x)) : NodePayload(g, n) = v
      BY <2>2, EndsByPayload
    <2> QED
      BY <2>2, <2>3, <2>4, <2>5 DEF Joined
  <1>4. JoinsOf(g) = [x \in DOMAIN JoinsOf(g) |-> JoinsOf(g)[x]]
    BY DEF JoinsOf
  <1> QED
    BY <1>1, <1>2, <1>3, <1>4

(***************************************************************************)
(* h is g without the nodes of V, the edges of X, and the edges that join  *)
(* a node of V.                                                            *)
(***************************************************************************)
Loses(g, h, V, X) ==
  /\ h \in Graphs
  /\ \A v : NodeNamed(h, v) <=> NodeNamed(g, v) /\ v \notin V
  /\ \A x : EdgeNamed(h, x) <=> EdgeNamed(g, x) /\ x \notin X /\ \A v \in V : ~Joined(g, x, v)
  /\ \A x, v : EdgeNamed(h, x) => (Joined(h, x, v) <=> Joined(g, x, v))

(***************************************************************************)
(* Losing one after the other.                                             *)
(***************************************************************************)
LEMMA LosesMore ==
  ASSUME NEW g, NEW h, NEW k, NEW V, NEW X, NEW W, NEW Y, Loses(g, h, V, X), Loses(h, k, W, Y)
  PROVE  Loses(g, k, V \cup W, X \cup Y)
  BY DEF Loses

(***************************************************************************)
(* An edge that is taken is lost, and no other.                            *)
(***************************************************************************)
LEMMA TakeEdgeLoses ==
  ASSUME NEW g \in Graphs, NEW e \in EdgeIxs(g)
  PROVE  Loses(g, TakeEdge(g, e), {}, {EdgePayload(g, e)})
  <1> DEFINE h      == TakeEdge(g, e)
             last   == LastEdge(g)
             Old(i) == IF i = e THEN last ELSE i
             New(i) == IF i = last THEN e ELSE i
  <1>1. /\ h \in Graphs
        /\ SameNodes(g, h)
        /\ last \in EdgeIxs(g)
        /\ EdgeIxs(h) = EdgeIxs(g) \ {last}
        /\ e # last => EdgePayload(h, e) = EdgePayload(g, last) /\ EndsOf(h, e) = EndsOf(g, last)
        /\ \A f \in EdgeIxs(h) : f # e => EdgePayload(h, f) = EdgePayload(g, f) /\ EndsOf(h, f) = EndsOf(g, f)
    BY TakeEdgeFacts
  <1> HIDE DEF h, last
  <1>2. \A i \in EdgeIxs(h) : /\ Old(i) \in EdgeIxs(g) /\ Old(i) # e
                             /\ EdgePayload(h, i) = EdgePayload(g, Old(i))
                             /\ EndsOf(h, i) = EndsOf(g, Old(i))
    BY <1>1
  <1>3. \A i \in EdgeIxs(g) : i # e => New(i) \in EdgeIxs(h) /\ Old(New(i)) = i
    BY <1>1
  <1> HIDE DEF Old, New
  <1>4. \A v : NodeNamed(h, v) <=> NodeNamed(g, v)
    BY <1>1 DEF NodeNamed, SameNodes
  <1>5. \A i \in EdgeIxs(g) : EdgePayload(g, i) = EdgePayload(g, e) => i = e
    BY DEF Graphs, Distinct
  <1>6. \A x : EdgeNamed(h, x) <=> EdgeNamed(g, x) /\ x # EdgePayload(g, e)
    BY <1>2, <1>3, <1>5 DEF EdgeNamed
  <1>7. \A i \in EdgeIxs(h) : \A n \in EndsOf(h, i) : NodePayload(h, n) = NodePayload(g, n)
    BY <1>1 DEF Graphs, Mutual, SameNodes
  <1>8. ASSUME NEW x, NEW v, EdgeNamed(h, x)
        PROVE  Joined(h, x, v) <=> Joined(g, x, v)
    <2>1. x # EdgePayload(g, e)
      BY <1>6, <1>8
    <2>2. Joined(h, x, v) => Joined(g, x, v)
      BY <1>2, <1>7 DEF Joined
    <2>3. Joined(g, x, v) => Joined(h, x, v)
      BY <1>2, <1>3, <1>7, <2>1 DEF Joined
    <2> QED
      BY <2>2, <2>3
  <1> QED
    BY <1>1, <1>4, <1>6, <1>8 DEF Loses, h

(***************************************************************************)
(* Nothing need be lost.                                                   *)
(***************************************************************************)
LEMMA LosesNothing ==
  ASSUME NEW g \in Graphs
  PROVE  Loses(g, g, {}, {})
  BY DEF Loses

-----------------------------------------------------------------------------
(***************************************************************************)
(* Taking an edge at n leaves n with one edge fewer, although the edge     *)
(* that moved may be another one at n.                                     *)
(***************************************************************************)
LEMMA DegreeFalls ==
  ASSUME NEW g \in Graphs, NEW n \in NodeIxs(g), NEW e \in IncidentTo(g, n)
  PROVE  LET h == TakeEdge(g, e) IN
         /\ h \in Graphs /\ SameNodes(g, h)
         /\ IsFiniteSet(IncidentTo(g, n))
         /\ Cardinality(IncidentTo(h, n)) = Cardinality(IncidentTo(g, n)) - 1
  <1> DEFINE h    == TakeEdge(g, e)
             last == LastEdge(g)
             I    == IncidentTo(g, n)
             J    == IncidentTo(h, n)
  <1> HIDE DEF h, last, I, J
  <1>1. g \in Tables /\ Mutual(g)
    BY DEF Graphs
  <1>2. \A f : f \in I <=> f \in EdgeIxs(g) /\ n \in EndsOf(g, f)
    BY <1>1 DEF Mutual, I
  <1>3. e \in I /\ e \in EdgeIxs(g)
    BY <1>2 DEF I
  <1>4. IsFiniteSet(I)
    <2>1. I \subseteq EdgeIxs(g)
      BY <1>2
    <2>2. IsFiniteSet(EdgeIxs(g))
      BY <1>1, ObservationTypes
    <2> QED
      BY <2>1, <2>2, FS_Subset
  <1>5. /\ h \in Graphs
        /\ SameNodes(g, h)
        /\ last \in EdgeIxs(g)
        /\ EdgeIxs(h) = EdgeIxs(g) \ {last}
        /\ e # last => EndsOf(h, e) = EndsOf(g, last)
        /\ \A f \in EdgeIxs(h) : f # e => EndsOf(h, f) = EndsOf(g, f)
    BY <1>3, TakeEdgeFacts DEF h, last
  <1>6. \A f : f \in J <=> f \in EdgeIxs(h) /\ n \in EndsOf(h, f)
    BY <1>5 DEF Graphs, Mutual, SameNodes, J
  <1>7. \E x \in I : J = I \ {x}
    <2>1. CASE last \in I
      <3>1. \A f : f \in J <=> f \in I \ {last}
        BY <1>2, <1>3, <1>5, <1>6, <2>1
      <3> QED
        BY <2>1, <3>1
    <2>2. CASE last \notin I
      <3>1. \A f : f \in J <=> f \in I \ {e}
        BY <1>2, <1>3, <1>5, <1>6, <2>2
      <3> QED
        BY <1>3, <3>1
    <2> QED
      BY <2>1, <2>2
  <1>8. Cardinality(J) = Cardinality(I) - 1
    BY <1>4, <1>7, FS_RemoveElement
  <1> QED
    BY <1>4, <1>5, <1>8 DEF h, I, J

(***************************************************************************)
(* h is g without some of the edges at n.                                  *)
(***************************************************************************)
LosesAt(g, h, n) ==
  \E X : Loses(g, h, {}, X) /\ \A x \in X : Joined(g, x, NodePayload(g, n))

(***************************************************************************)
(* When one more edge at n is taken, this stays so.                        *)
(***************************************************************************)
LEMMA LosesOneMore ==
  ASSUME NEW g \in Graphs, NEW n \in NodeIxs(g), NEW h \in Graphs, SameNodes(g, h),
         LosesAt(g, h, n), NEW e \in IncidentTo(h, n)
  PROVE  LosesAt(g, TakeEdge(h, e), n)
  <1>1. PICK X : Loses(g, h, {}, X) /\ \A x \in X : Joined(g, x, NodePayload(g, n))
    BY DEF LosesAt
  <1>2. n \in NodeIxs(h) /\ NodePayload(h, n) = NodePayload(g, n)
    BY DEF SameNodes
  <1>3. e \in EdgeIxs(h) /\ n \in EndsOf(h, e)
    BY <1>2 DEF Graphs, Mutual
  <1> DEFINE x == EdgePayload(h, e)
  <1>4. Joined(h, x, NodePayload(g, n)) /\ EdgeNamed(h, x)
    BY <1>2, <1>3 DEF Joined, EdgeNamed
  <1> HIDE DEF x
  <1>5. Joined(g, x, NodePayload(g, n))
    BY <1>1, <1>4 DEF Loses
  <1>6. Loses(h, TakeEdge(h, e), {}, {x})
    BY <1>3, TakeEdgeLoses DEF x
  <1>7. Loses(g, TakeEdge(h, e), {} \cup {}, X \cup {x})
    BY <1>1, <1>6, LosesMore
  <1>8. {} \cup {} = {}
    OBVIOUS
  <1> QED
    BY <1>1, <1>5, <1>7, <1>8 DEF LosesAt

(***************************************************************************)
(* The graphs with the nodes of g, and its edges but some at n, in which n *)
(* has k edges.                                                            *)
(***************************************************************************)
WithDegree(g, n, k) ==
  {h \in Graphs : SameNodes(g, h) /\ LosesAt(g, h, n) /\ Cardinality(IncidentTo(h, n)) = k}

(***************************************************************************)
(* The removal of the edges at n comes to its end, whichever edge is found *)
(* first each time: after as many rounds as n has edges it has none.       *)
(***************************************************************************)
LEMMA DrainedFacts ==
  ASSUME NEW g \in Graphs, NEW n \in NodeIxs(g), NEW h \in Drained(g, n)
  PROVE  h \in Graphs /\ SameNodes(g, h) /\ LosesAt(g, h, n) /\ IncidentTo(h, n) = {}
  <1> DEFINE d     == Cardinality(g.nodes[n].incident)
             After == CHOOSE f : f = [k \in 0..d |-> IF k = 0 THEN {g} ELSE TakeAnyAt(n, f[k - 1])]
             In    == [k \in 0..d |-> SUBSET WithDegree(g, n, d - k)]
             step  == [k \in 1..d |-> [X \in In[k - 1] |-> TakeAnyAt(n, X)]]
  <1> HIDE DEF d, After, In, step
  <1>1. Drained(g, n) = After[d]
    BY Zenon DEF Drained, After, d
  <1>2. g \in Tables /\ Mutual(g)
    BY DEF Graphs
  <1>3. d \in Nat /\ d = Cardinality(IncidentTo(g, n))
    <2>1. IncidentTo(g, n) \subseteq EdgeIxs(g) /\ IsFiniteSet(EdgeIxs(g))
      BY <1>2, ObservationTypes DEF Mutual
    <2> QED
      BY <2>1, FS_Subset, FS_CardinalityType DEF IncidentTo, d
  <1>4. {g} \in In[0]
    <2>1. g \in WithDegree(g, n, d)
      BY <1>3, LosesNothing DEF WithDegree, SameNodes, LosesAt
    <2>2. In[0] = SUBSET WithDegree(g, n, d - 0) /\ d - 0 = d
      BY <1>3 DEF In
    <2> QED
      BY <2>1, <2>2
  <1>5. ASSUME NEW k \in 1..d, NEW X \in In[k - 1]
        PROVE  TakeAnyAt(n, X) \in In[k]
    <2>1. X \subseteq WithDegree(g, n, d - (k - 1)) /\ In[k] = SUBSET WithDegree(g, n, d - k)
      BY <1>3, <1>5 DEF In
    <2>2. SUFFICES ASSUME NEW x \in X, NEW e \in x.nodes[n].incident
                   PROVE  TakeEdge(x, e) \in WithDegree(g, n, d - k)
      BY <2>1 DEF TakeAnyAt
    <2>3. /\ x \in Graphs /\ SameNodes(g, x) /\ LosesAt(g, x, n)
          /\ Cardinality(IncidentTo(x, n)) = d - (k - 1)
      BY <2>1 DEF WithDegree
    <2>4. n \in NodeIxs(x) /\ e \in IncidentTo(x, n)
      BY <2>2, <2>3 DEF SameNodes, IncidentTo
    <2>5. /\ TakeEdge(x, e) \in Graphs /\ SameNodes(x, TakeEdge(x, e))
          /\ Cardinality(IncidentTo(TakeEdge(x, e), n)) = Cardinality(IncidentTo(x, n)) - 1
      BY <2>3, <2>4, DegreeFalls
    <2>6. Cardinality(IncidentTo(TakeEdge(x, e), n)) = d - k
      BY <1>3, <2>3, <2>5
    <2>7. SameNodes(g, TakeEdge(x, e))
      BY <2>3, <2>5 DEF SameNodes
    <2>8. LosesAt(g, TakeEdge(x, e), n)
      BY <2>3, <2>4, LosesOneMore
    <2> QED
      BY <2>5, <2>6, <2>7, <2>8 DEF WithDegree
  <1>6. \A k \in 1..d : \A X \in In[k - 1] : step[k][X] = TakeAnyAt(n, X) /\ step[k][X] \in In[k]
    BY <1>5 DEF step
  <1>7. PICK f : Iterates(f, d, In, {g}, step)
    <2>1. \A k \in 1..d : \A X \in In[k - 1] : step[k][X] \in In[k]
      BY <1>6
    <2> QED
      BY <1>3, <1>4, <2>1, IterationExists
  <1>8. f = [k \in 0..d |-> IF k = 0 THEN {g} ELSE TakeAnyAt(n, f[k - 1])]
    <2>1. ASSUME NEW k \in 0..d
          PROVE  f[k] = IF k = 0 THEN {g} ELSE TakeAnyAt(n, f[k - 1])
      <3>1. CASE k = 0
        BY <1>7, <3>1 DEF Iterates
      <3>2. CASE k # 0
        <4>1. k \in 1..d /\ k - 1 \in 0..d
          BY <1>3, <3>2
        <4> QED
          BY <1>6, <1>7, <3>2, <4>1 DEF Iterates
      <3> QED
        BY <3>1, <3>2
    <2> QED
      BY <1>7, <2>1 DEF Iterates
  <1>9. After = [k \in 0..d |-> IF k = 0 THEN {g} ELSE TakeAnyAt(n, After[k - 1])]
    BY <1>8, Zenon DEF After
  <1>10. \A k \in 0..d : After[k] = IF k = 0 THEN {g} ELSE TakeAnyAt(n, After[k - 1])
    BY <1>9
  <1>11. \A k \in 0..d : After[k] \in In[k]
    <2>1. After[0] \in In[0]
      BY <1>3, <1>4, <1>10
    <2>2. ASSUME NEW k \in 1..d, After[k - 1] \in In[k - 1] PROVE After[k] \in In[k]
      <3>1. k \in 0..d /\ k # 0
        BY <1>3
      <3> QED
        BY <1>5, <1>10, <2>2, <3>1
    <2> QED
      BY <1>3, <2>1, <2>2, IterationStays
  <1>12. h \in WithDegree(g, n, 0)
    <2>1. In[d] = SUBSET WithDegree(g, n, d - d) /\ d - d = 0
      BY <1>3 DEF In
    <2> QED
      BY <1>1, <1>3, <1>11, <2>1
  <1>13. IncidentTo(h, n) = {}
    <2>1. h \in Tables /\ Mutual(h) /\ n \in NodeIxs(h) /\ Cardinality(IncidentTo(h, n)) = 0
      BY <1>12 DEF WithDegree, Graphs, SameNodes
    <2>2. IncidentTo(h, n) \subseteq EdgeIxs(h) /\ IsFiniteSet(EdgeIxs(h))
      BY <2>1, ObservationTypes DEF Mutual
    <2> QED
      BY <2>1, <2>2, FS_Subset, FS_EmptySet
  <1> QED
    BY <1>12, <1>13 DEF WithDegree

-----------------------------------------------------------------------------
(***************************************************************************)
(* m is an end of the edge e of g once the last node of g is known as n.   *)
(***************************************************************************)
MovedEnd(g, e, n, m) == \/ m = n /\ LastNode(g) \in EndsOf(g, e)
                        \/ m # LastNode(g) /\ m \in EndsOf(g, e)

(***************************************************************************)
(* A node that no edge joins is taken, and the edges at the node that      *)
(* moves into its position are told the new one: an edge joins the same    *)
(* nodes as before, of which only that one is called differently.          *)
(***************************************************************************)
LEMMA TakeAloneFacts ==
  ASSUME NEW g \in Graphs, NEW n \in NodeIxs(g), IncidentTo(g, n) = {}
  PROVE  LET h == TakeAlone(g, n)
             last == LastNode(g)
         IN /\ h \in Graphs
            /\ last \in NodeIxs(g)
            /\ NodeIxs(h) = NodeIxs(g) \ {last}
            /\ LastNode(h) = last - 1
            /\ n # last => NodePayload(h, n) = NodePayload(g, last)
            /\ \A m \in NodeIxs(h) : m # n => NodePayload(h, m) = NodePayload(g, m)
            /\ EdgeIxs(h) = EdgeIxs(g) /\ LastEdge(h) = LastEdge(g)
            /\ \A e \in EdgeIxs(g) :
                 /\ EdgePayload(h, e) = EdgePayload(g, e)
                 /\ n \notin EndsOf(g, e)
                 /\ \A m : m \in EndsOf(h, e) <=> MovedEnd(g, e, n, m)
  <1> DEFINE last == LastNode(g)
             t    == Take(TRUE, g.nodes, n)
             Renamed(ends) == {IF m = last THEN n ELSE m : m \in ends}
             u    == [e \in DOMAIN g.edges |-> [g.edges[e] EXCEPT !.ends = Renamed(@)]]
             h    == TakeAlone(g, n)
  <1> HIDE DEF last, t, u, h, Renamed
  <1>1. g \in Tables /\ Mutual(g)
    BY DEF Graphs
  <1>2. g.nodes \in Vecs(NodeEntries) /\ n \in DOMAIN g.nodes /\ g.edges \in Vecs(EdgeEntries)
    BY <1>1, TableExcept DEF NodeIxs
  <1>3. /\ last = LastIndex(g.nodes)
        /\ t \in Vecs(NodeEntries)
        /\ \A i : i \in DOMAIN t <=> i \in DOMAIN g.nodes /\ i # last
        /\ Size(t) = Size(g.nodes) - 1
        /\ last \in DOMAIN g.nodes
        /\ n # last => t[n] = g.nodes[last]
        /\ \A i \in DOMAIN t : i # n => t[i] = g.nodes[i]
    <2> DEFINE c == g.nodes
    <2> HIDE DEF c
    <2>1. c \in Vecs(NodeEntries) /\ n \in DOMAIN c /\ t = Take(TRUE, c, n) /\ last = LastIndex(c)
      BY <1>2 DEF c, t, last, LastNode
    <2>2. t \in Vecs(NodeEntries) /\ Size(t) = Size(c) - 1 /\ last \in DOMAIN c
      BY <2>1, VecTake
    <2>3. \A i : i \in DOMAIN t <=> i \in DOMAIN c /\ i # last
      BY <2>1, VecTake
    <2>4. n # last => t[n] = c[last]
      BY <2>1, VecTake
    <2>5. \A i \in DOMAIN t : i # n => t[i] = c[i]
      BY <2>1, VecTake
    <2> QED
      BY <2>1, <2>2, <2>3, <2>4, <2>5 DEF c
  <1>4. n \in Nat /\ last \in Nat /\ last \in NodeIxs(g)
    BY <1>1, <1>3, ObservationTypes DEF NodeIxs
  <1>5. ASSUME NEW e \in DOMAIN g.edges
        PROVE  /\ u[e] \in EdgeEntries /\ u[e].val = g.edges[e].val
               /\ u[e].ends = Renamed(g.edges[e].ends)
    <2>1. g.edges[e] \in EdgeEntries
      BY <1>2, VecElim
    <2>2. Renamed(g.edges[e].ends) \subseteq Nat
      BY <1>4, <2>1 DEF EdgeEntries, Renamed
    <2>3. u[e] = [g.edges[e] EXCEPT !.ends = Renamed(g.edges[e].ends)]
      BY DEF u
    <2> QED
      BY <2>1, <2>2, <2>3 DEF EdgeEntries
  <1>6. u \in Vecs(EdgeEntries) /\ Size(u) = Size(g.edges) /\ DOMAIN u = DOMAIN g.edges
    <2>1. Size(g.edges) \in Nat /\ DOMAIN g.edges = 0..(Size(g.edges) - 1)
      BY <1>2, VecElim
    <2>2. u \in [DOMAIN g.edges -> EdgeEntries]
      BY <1>5 DEF u
    <2> QED
      BY <2>1, <2>2, VecIntro
  <1>7. h \in Tables /\ h.nodes = t /\ h.edges = u
    <2>1. h = [g EXCEPT !.nodes = t, !.edges = u]
      BY Zenon DEF TakeAlone, h, t, u, Renamed, last, LastNode
    <2> QED
      BY <1>1, <1>3, <1>6, <2>1 DEF Tables
  <1>8. /\ NodeIxs(h) = NodeIxs(g) \ {last}
        /\ LastNode(h) = last - 1
        /\ n # last => NodePayload(h, n) = NodePayload(g, last) /\ IncidentTo(h, n) = IncidentTo(g, last)
        /\ \A m \in NodeIxs(h) : m # n => /\ NodePayload(h, m) = NodePayload(g, m)
                                         /\ IncidentTo(h, m) = IncidentTo(g, m)
    <2>1. LastNode(h) = last - 1
      <3>1. Size(g.nodes) \in Nat
        BY <1>2, VecElim
      <3> QED
        BY <1>3, <1>7, <3>1 DEF LastNode, LastIndex
    <2>2. n # last => n \in DOMAIN t
      BY <1>2, <1>3
    <2> QED
      BY <1>3, <1>7, <2>1, <2>2 DEF NodeIxs, NodePayload, IncidentTo
  <1>9. /\ EdgeIxs(h) = EdgeIxs(g) /\ LastEdge(h) = LastEdge(g)
        /\ \A e \in EdgeIxs(g) : /\ EdgePayload(h, e) = EdgePayload(g, e)
                                 /\ EndsOf(h, e) = Renamed(EndsOf(g, e))
    BY <1>5, <1>6, <1>7 DEF EdgeIxs, LastEdge, LastIndex, EdgePayload, EndsOf
  <1>10. ASSUME NEW e \in EdgeIxs(g)
         PROVE  /\ EdgePayload(h, e) = EdgePayload(g, e)
                /\ n \notin EndsOf(g, e)
                /\ \A m : m \in EndsOf(h, e) <=> MovedEnd(g, e, n, m)
    <2>1. n \notin EndsOf(g, e)
      BY <1>1 DEF Mutual
    <2>2. EndsOf(h, e) = Renamed(EndsOf(g, e))
      BY <1>9
    <2>3. \A m : m \in Renamed(EndsOf(g, e)) <=> MovedEnd(g, e, n, m)
      BY <2>1 DEF Renamed, MovedEnd, last
    <2> QED
      BY <1>9, <2>1, <2>2, <2>3
  <1>11. ASSUME NEW m \in NodeIxs(h), NEW e
         PROVE  e \in IncidentTo(h, m) <=> e \in EdgeIxs(h) /\ m \in EndsOf(h, e)
    <2>1. m \in NodeIxs(g) /\ m # last
      BY <1>8
    <2>2. CASE m = n
      <3>1. e \in IncidentTo(h, m) <=> e \in EdgeIxs(g) /\ last \in EndsOf(g, e)
        BY <1>1, <1>4, <1>8, <2>1, <2>2 DEF Mutual
      <3> QED
        BY <1>9, <1>10, <2>1, <2>2, <3>1 DEF MovedEnd, last
    <2>3. CASE m # n
      <3>1. e \in IncidentTo(h, m) <=> e \in EdgeIxs(g) /\ m \in EndsOf(g, e)
        BY <1>1, <1>8, <2>1, <2>3 DEF Mutual
      <3> QED
        BY <1>9, <1>10, <2>1, <2>3, <3>1 DEF MovedEnd, last
    <2> QED
      BY <2>2, <2>3
  <1>12. ASSUME NEW e \in EdgeIxs(h), NEW m \in EndsOf(h, e)
         PROVE  m \in NodeIxs(h)
    <2>1. e \in EdgeIxs(g)
      BY <1>9
    <2>2. (m = n /\ last \in EndsOf(g, e)) \/ (m # last /\ m \in EndsOf(g, e))
      BY <1>10, <1>12, <2>1 DEF MovedEnd, last
    <2>3. n \notin EndsOf(g, e)
      BY <1>10, <2>1
    <2> QED
      BY <1>1, <1>8, <2>1, <2>2, <2>3 DEF Mutual
  <1>13. Distinct(h)
    <2>1. Distinct(g)
      BY DEF Graphs
    <2>2. \A x, y \in EdgeIxs(h) : EdgePayload(h, x) = EdgePayload(h, y) => x = y
      BY <1>9, <1>10, <2>1 DEF Distinct
    <2>3. ASSUME NEW x \in NodeIxs(h), NEW y \in NodeIxs(h), NodePayload(h, x) = NodePayload(h, y)
          PROVE  x = y
      <3> DEFINE Old(i) == IF i = n THEN last ELSE i
      <3>1. \A i \in NodeIxs(h) : Old(i) \in NodeIxs(g) /\ NodePayload(h, i) = NodePayload(g, Old(i))
        BY <1>4, <1>8
      <3>2. Old(x) = Old(y)
        BY <2>1, <2>3, <3>1 DEF Distinct
      <3> QED
        BY <1>8, <3>2
    <2> QED
      BY <2>2, <2>3 DEF Distinct
  <1>14. h \in Graphs
    BY <1>7, <1>11, <1>12, <1>13 DEF Graphs, Mutual
  <1> QED
    BY <1>4, <1>8, <1>9, <1>10, <1>14 DEF h, last

(***************************************************************************)
(* Only the node is lost.                                                  *)
(***************************************************************************)
LEMMA TakeAloneLoses ==
  ASSUME NEW g \in Graphs, NEW n \in NodeIxs(g), IncidentTo(g, n) = {}
  PROVE  Loses(g, TakeAlone(g, n), {NodePayload(g, n)}, {})
  <1> DEFINE h      == TakeAlone(g, n)
             last   == LastNode(g)
             Old(i) == IF i = n THEN last ELSE i
             New(i) == IF i = last THEN n ELSE i
  <1>1. /\ h \in Graphs
        /\ last \in NodeIxs(g)
        /\ NodeIxs(h) = NodeIxs(g) \ {last}
        /\ n # last => NodePayload(h, n) = NodePayload(g, last)
        /\ \A m \in NodeIxs(h) : m # n => NodePayload(h, m) = NodePayload(g, m)
        /\ EdgeIxs(h) = EdgeIxs(g)
        /\ \A e \in EdgeIxs(g) : EdgePayload(h, e) = EdgePayload(g, e) /\ n \notin EndsOf(g, e)
        /\ \A e \in EdgeIxs(g) : \A m : m \in EndsOf(h, e) <=> MovedEnd(g, e, n, m)
    BY TakeAloneFacts
  <1>2. Mutual(g) /\ Mutual(h)
    BY <1>1 DEF Graphs
  <1> HIDE DEF h, last
  <1>3. \A i \in NodeIxs(h) : /\ Old(i) \in NodeIxs(g) /\ Old(i) # n
                             /\ NodePayload(h, i) = NodePayload(g, Old(i))
    BY <1>1
  <1>4. \A i \in NodeIxs(g) : i # n => New(i) \in NodeIxs(h) /\ Old(New(i)) = i
    BY <1>1
  <1>5. \A e \in EdgeIxs(g) : \A m \in EndsOf(h, e) : Old(m) \in EndsOf(g, e) /\ m \in NodeIxs(h)
    BY <1>1, <1>2 DEF MovedEnd, Mutual, last
  <1>6. \A e \in EdgeIxs(g) : \A m \in EndsOf(g, e) : New(m) \in EndsOf(h, e) /\ m # n /\ m \in NodeIxs(g)
    BY <1>1, <1>2 DEF MovedEnd, Mutual, last
  <1> HIDE DEF Old, New
  <1>7. \A i \in NodeIxs(g) : NodePayload(g, i) = NodePayload(g, n) => i = n
    BY DEF Graphs, Distinct
  <1>8. \A v : NodeNamed(h, v) <=> NodeNamed(g, v) /\ v \notin {NodePayload(g, n)}
    BY <1>3, <1>4, <1>7 DEF NodeNamed
  <1>9. \A x, v : Joined(h, x, v) <=> Joined(g, x, v)
    <2>1. ASSUME NEW e \in EdgeIxs(g), NEW v
          PROVE  (\E m \in EndsOf(h, e) : NodePayload(h, m) = v)
                   <=> (\E m \in EndsOf(g, e) : NodePayload(g, m) = v)
      <3>1. ASSUME NEW m \in EndsOf(h, e), NodePayload(h, m) = v
            PROVE  \E i \in EndsOf(g, e) : NodePayload(g, i) = v
        BY <1>3, <1>5, <3>1
      <3>2. ASSUME NEW m \in EndsOf(g, e), NodePayload(g, m) = v
            PROVE  \E i \in EndsOf(h, e) : NodePayload(h, i) = v
        BY <1>3, <1>4, <1>6, <3>2
      <3> QED
        BY <3>1, <3>2
    <2> QED
      BY <1>1, <2>1 DEF Joined
  <1>10. \A x : EdgeNamed(h, x) <=> EdgeNamed(g, x)
    BY <1>1 DEF EdgeNamed
  <1>11. \A x : ~Joined(g, x, NodePayload(g, n))
    BY <1>6, <1>7 DEF Joined
  <1> QED
    BY <1>1, <1>8, <1>9, <1>10, <1>11 DEF Loses, h

(***************************************************************************)
(* take_node_unchecked: the node is lost with the edges that join it, and  *)
(* the nodes at lower positions keep theirs.                               *)
(***************************************************************************)
LEMMA TakeNodeFacts ==
  ASSUME NEW g \in Graphs, NEW n \in NodeIxs(g), NEW h \in TakeNode(g, n)
  PROVE  /\ h \in Graphs
         /\ Loses(g, h, {NodePayload(g, n)}, {})
         /\ \A m \in NodeIxs(g) : m < n => m \in NodeIxs(h) /\ NodePayload(h, m) = NodePayload(g, m)
  <1>1. PICK d \in Drained(g, n) : h = TakeAlone(d, n)
    BY DEF TakeNode
  <1>2. d \in Graphs /\ SameNodes(g, d) /\ LosesAt(g, d, n) /\ IncidentTo(d, n) = {}
    BY DrainedFacts
  <1>3. /\ NodeIxs(d) = NodeIxs(g) /\ LastNode(d) = LastNode(g) /\ n \in NodeIxs(d)
        /\ \A m \in NodeIxs(g) : NodePayload(d, m) = NodePayload(g, m)
    BY <1>2 DEF SameNodes
  <1>4. /\ h \in Graphs
        /\ NodeIxs(h) = NodeIxs(d) \ {LastNode(d)}
        /\ \A m \in NodeIxs(h) : m # n => NodePayload(h, m) = NodePayload(d, m)
    BY <1>1, <1>2, <1>3, TakeAloneFacts
  <1>5. Loses(d, h, {NodePayload(g, n)}, {})
    BY <1>1, <1>2, <1>3, TakeAloneLoses
  <1>6. PICK X : Loses(g, d, {}, X) /\ \A x \in X : Joined(g, x, NodePayload(g, n))
    BY <1>2 DEF LosesAt
  <1>7. Loses(g, h, {} \cup {NodePayload(g, n)}, X \cup {})
    BY <1>5, <1>6, LosesMore
  <1>8. Loses(g, h, {NodePayload(g, n)}, {})
    BY <1>6, <1>7 DEF Loses
  <1>9. \A m \in NodeIxs(g) : m \in Int /\ m <= LastNode(g) /\ LastNode(g) \in Int
    BY ObservationTypes DEF Graphs
  <1>10. ASSUME NEW m \in NodeIxs(g), m < n
         PROVE  m \in NodeIxs(h) /\ NodePayload(h, m) = NodePayload(g, m)
    <2>1. m # LastNode(g) /\ m # n
      BY <1>9, <1>10
    <2> QED
      BY <1>3, <1>4, <2>1
  <1> QED
    BY <1>4, <1>8, <1>10

-----------------------------------------------------------------------------
(***************************************************************************)
(* A batch.                                                                *)
(***************************************************************************)
Runs == [g : Graphs, nodes : Seq(NodeVals), edges : Seq(EdgeVals)]

(***************************************************************************)
(* A run goes on with another graph and one more payload.                  *)
(***************************************************************************)
LEMMA RunExcept ==
  ASSUME NEW run \in Runs, NEW h \in Graphs
  PROVE  /\ \A s \in Seq(NodeVals) : [run EXCEPT !.g = h, !.nodes = s] \in Runs
         /\ \A s \in Seq(EdgeVals) : [run EXCEPT !.g = h, !.edges = s] \in Runs
  BY DEF Runs

(***************************************************************************)
(* Each turn of a batch keeps the tables in agreement, whether or not the  *)
(* index whose turn it is is still there.                                  *)
(***************************************************************************)
LEMMA EdgeTurnGood ==
  ASSUME NEW run \in Runs, NEW e
  PROVE  EdgeTurn(run, e) \in Runs
  <1>1. run.g \in Graphs /\ run.g \in Tables
    BY DEF Runs, Graphs
  <1>2. CASE e \in EdgeIxs(run.g)
    <2>1. TakeEdge(run.g, e) \in Graphs
      BY <1>1, <1>2, TakeEdgeFacts
    <2>2. EdgePayload(run.g, e) \in EdgeVals
      BY <1>1, <1>2, ObservationTypes
    <2>3. EdgeTurn(run, e) = [run EXCEPT !.g = TakeEdge(run.g, e),
                                         !.edges = Append(run.edges, EdgePayload(run.g, e))]
      BY <1>2 DEF EdgeTurn, EdgeIxs, EdgePayload
    <2>4. Append(run.edges, EdgePayload(run.g, e)) \in Seq(EdgeVals)
      BY <2>2 DEF Runs
    <2>5. \A s \in Seq(EdgeVals) : [run EXCEPT !.g = TakeEdge(run.g, e), !.edges = s] \in Runs
      BY <2>1, RunExcept
    <2> QED
      BY <2>3, <2>4, <2>5, Zenon
  <1>3. CASE e \notin EdgeIxs(run.g)
    BY <1>3 DEF EdgeTurn, EdgeIxs
  <1> QED
    BY <1>2, <1>3

(***************************************************************************)
(* The same of a turn of a node, whatever edge is found first at it.       *)
(***************************************************************************)
LEMMA NodeTurnGood ==
  ASSUME NEW runs \in SUBSET Runs, NEW n
  PROVE  NodeTurn(runs, n) \in SUBSET Runs
  <1>1. SUFFICES ASSUME NEW run \in runs,
                        NEW next \in IF n \in DOMAIN run.g.nodes
                                       THEN {[run EXCEPT !.g = h, !.nodes = Append(@, run.g.nodes[n].val)] :
                                               h \in TakeNode(run.g, n)}
                                       ELSE {run}
                 PROVE  next \in Runs
    BY DEF NodeTurn
  <1>2. run \in Runs /\ run.g \in Graphs /\ run.g \in Tables
    BY DEF Runs, Graphs
  <1>3. CASE n \in NodeIxs(run.g)
    <2>1. PICK h \in TakeNode(run.g, n) :
                 next = [run EXCEPT !.g = h, !.nodes = Append(run.nodes, NodePayload(run.g, n))]
      BY <1>1, <1>3 DEF NodeIxs, NodePayload
    <2>2. h \in Graphs
      BY <1>2, <1>3, TakeNodeFacts
    <2>3. NodePayload(run.g, n) \in NodeVals
      BY <1>2, <1>3, ObservationTypes
    <2>4. Append(run.nodes, NodePayload(run.g, n)) \in Seq(NodeVals)
      <3>1. run.nodes \in Seq(NodeVals)
        BY <1>2 DEF Runs
      <3> QED
        BY <2>3, <3>1, AppendType
    <2> QED
      BY <1>2, <2>1, <2>2, <2>4, RunExcept
  <1>4. CASE n \notin NodeIxs(run.g)
    BY <1>1, <1>2, <1>4 DEF NodeIxs
  <1> QED
    BY <1>3, <1>4

(***************************************************************************)
(* The loop over the edges of a batch ends in the last set of a family if  *)
(* every turn leads from one to the next.                                  *)
(***************************************************************************)
LEMMA EdgeTurnsLead ==
  ASSUME NEW es, Len(es) \in Nat, NEW In, NEW run \in In[0],
         \A k \in 1..Len(es) : \A x \in In[k - 1] : EdgeTurn(x, es[k]) \in In[k]
  PROVE  EdgeTurns(run, es) \in In[Len(es)]
  <1> DEFINE d     == Len(es)
             After == CHOOSE f : f = [k \in 0..d |-> IF k = 0 THEN run ELSE EdgeTurn(f[k - 1], es[k])]
             step  == [k \in 1..d |-> [x \in In[k - 1] |-> EdgeTurn(x, es[k])]]
  <1> HIDE DEF d, After, step
  <1>1. EdgeTurns(run, es) = After[d] /\ d \in Nat
    BY Zenon DEF EdgeTurns, After, d
  <1>2. \A k \in 1..d : \A x \in In[k - 1] : EdgeTurn(x, es[k]) \in In[k]
    BY DEF d
  <1>3. \A k \in 1..d : \A x \in In[k - 1] : step[k][x] = EdgeTurn(x, es[k]) /\ step[k][x] \in In[k]
    BY <1>2 DEF step
  <1>4. PICK f : Iterates(f, d, In, run, step)
    BY <1>1, <1>3, IterationExists
  <1>5. f = [k \in 0..d |-> IF k = 0 THEN run ELSE EdgeTurn(f[k - 1], es[k])]
    <2>1. ASSUME NEW k \in 0..d
          PROVE  f[k] = IF k = 0 THEN run ELSE EdgeTurn(f[k - 1], es[k])
      <3>1. CASE k = 0
        BY <1>4, <3>1 DEF Iterates
      <3>2. CASE k # 0
        <4>1. k \in 1..d /\ k - 1 \in 0..d
          BY <1>1, <3>2
        <4>2. f[k] = step[k][f[k - 1]] /\ f[k - 1] \in In[k - 1]
          BY <1>4, <4>1 DEF Iterates
        <4>3. step[k][f[k - 1]] = EdgeTurn(f[k - 1], es[k])
          BY <1>3, <4>1, <4>2
        <4> QED
          BY <3>2, <4>2, <4>3
      <3> QED
        BY <3>1, <3>2
    <2> QED
      BY <1>4, <2>1 DEF Iterates
  <1>6. After = [k \in 0..d |-> IF k = 0 THEN run ELSE EdgeTurn(After[k - 1], es[k])]
    BY <1>5, Zenon DEF After
  <1>7. \A k \in 0..d : After[k] = IF k = 0 THEN run ELSE EdgeTurn(After[k - 1], es[k])
    BY <1>6
  <1>8. \A k \in 0..d : After[k] \in In[k]
    <2>1. After[0] \in In[0]
      BY <1>1, <1>7
    <2>2. ASSUME NEW k \in 1..d, After[k - 1] \in In[k - 1] PROVE After[k] \in In[k]
      <3>1. k \in 0..d /\ k # 0
        BY <1>1
      <3> QED
        BY <1>2, <1>7, <2>2, <3>1
    <2> QED
      BY <1>1, <2>1, <2>2, IterationStays
  <1>9. EdgeTurns(run, es) \in In[d]
    BY <1>1, <1>8
  <1> QED
    BY <1>9 DEF d

(***************************************************************************)
(* The same of the loop over the nodes of a batch.                         *)
(***************************************************************************)
LEMMA NodeTurnsLead ==
  ASSUME NEW ns, Len(ns) \in Nat, NEW In, NEW runs \in In[0],
         \A k \in 1..Len(ns) : \A X \in In[k - 1] : NodeTurn(X, ns[k]) \in In[k]
  PROVE  NodeTurns(runs, ns) \in In[Len(ns)]
  <1> DEFINE d     == Len(ns)
             After == CHOOSE f : f = [k \in 0..d |-> IF k = 0 THEN runs ELSE NodeTurn(f[k - 1], ns[k])]
             step  == [k \in 1..d |-> [X \in In[k - 1] |-> NodeTurn(X, ns[k])]]
  <1> HIDE DEF d, After, step
  <1>1. NodeTurns(runs, ns) = After[d] /\ d \in Nat
    BY Zenon DEF NodeTurns, After, d
  <1>2. \A k \in 1..d : \A X \in In[k - 1] : NodeTurn(X, ns[k]) \in In[k]
    BY DEF d
  <1>3. \A k \in 1..d : \A X \in In[k - 1] : step[k][X] = NodeTurn(X, ns[k]) /\ step[k][X] \in In[k]
    BY <1>2 DEF step
  <1>4. PICK f : Iterates(f, d, In, runs, step)
    BY <1>1, <1>3, IterationExists
  <1>5. f = [k \in 0..d |-> IF k = 0 THEN runs ELSE NodeTurn(f[k - 1], ns[k])]
    <2>1. ASSUME NEW k \in 0..d
          PROVE  f[k] = IF k = 0 THEN runs ELSE NodeTurn(f[k - 1], ns[k])
      <3>1. CASE k = 0
        BY <1>4, <3>1 DEF Iterates
      <3>2. CASE k # 0
        <4>1. k \in 1..d /\ k - 1 \in 0..d
          BY <1>1, <3>2
        <4>2. f[k] = step[k][f[k - 1]] /\ f[k - 1] \in In[k - 1]
          BY <1>4, <4>1 DEF Iterates
        <4>3. step[k][f[k - 1]] = NodeTurn(f[k - 1], ns[k])
          BY <1>3, <4>1, <4>2
        <4> QED
          BY <3>2, <4>2, <4>3
      <3> QED
        BY <3>1, <3>2
    <2> QED
      BY <1>4, <2>1 DEF Iterates
  <1>6. After = [k \in 0..d |-> IF k = 0 THEN runs ELSE NodeTurn(After[k - 1], ns[k])]
    BY <1>5, Zenon DEF After
  <1>7. \A k \in 0..d : After[k] = IF k = 0 THEN runs ELSE NodeTurn(After[k - 1], ns[k])
    BY <1>6
  <1>8. \A k \in 0..d : After[k] \in In[k]
    <2>1. After[0] \in In[0]
      BY <1>1, <1>7
    <2>2. ASSUME NEW k \in 1..d, After[k - 1] \in In[k - 1] PROVE After[k] \in In[k]
      <3>1. k \in 0..d /\ k # 0
        BY <1>1
      <3> QED
        BY <1>2, <1>7, <2>2, <3>1
    <2> QED
      BY <1>1, <2>1, <2>2, IterationStays
  <1>9. NodeTurns(runs, ns) \in In[d]
    BY <1>1, <1>8
  <1> QED
    BY <1>9 DEF d

(***************************************************************************)
(* The loops keep the tables in agreement.                                 *)
(***************************************************************************)
LEMMA EdgeTurnsGood ==
  ASSUME NEW run \in Runs, NEW es, Len(es) \in Nat
  PROVE  EdgeTurns(run, es) \in Runs
  <1> DEFINE In == [k \in 0..Len(es) |-> Runs]
  <1>1. \A k \in 0..Len(es) : In[k] = Runs
    OBVIOUS
  <1>2. run \in In[0]
    OBVIOUS
  <1>3. \A k \in 1..Len(es) : \A x \in In[k - 1] : EdgeTurn(x, es[k]) \in In[k]
    BY EdgeTurnGood
  <1> HIDE DEF In
  <1>4. EdgeTurns(run, es) \in In[Len(es)]
    BY <1>2, <1>3, EdgeTurnsLead
  <1> QED
    BY <1>1, <1>4

(***************************************************************************)
(* The same of the nodes.                                                  *)
(***************************************************************************)
LEMMA NodeTurnsGood ==
  ASSUME NEW runs \in SUBSET Runs, NEW ns, Len(ns) \in Nat
  PROVE  NodeTurns(runs, ns) \in SUBSET Runs
  <1> DEFINE In == [k \in 0..Len(ns) |-> SUBSET Runs]
  <1>1. \A k \in 0..Len(ns) : In[k] = SUBSET Runs
    OBVIOUS
  <1>2. runs \in In[0]
    OBVIOUS
  <1>3. \A k \in 1..Len(ns) : \A X \in In[k - 1] : NodeTurn(X, ns[k]) \in In[k]
    BY NodeTurnGood
  <1> HIDE DEF In
  <1>4. NodeTurns(runs, ns) \in In[Len(ns)]
    BY <1>2, <1>3, NodeTurnsLead
  <1> QED
    BY <1>1, <1>4

(***************************************************************************)
(* take_nodes_edges_unchecked keeps the tables in agreement, whatever is   *)
(* in the lists and in whatever order.                                     *)
(***************************************************************************)
LEMMA TakeNodesEdgesGood ==
  ASSUME NEW g \in Graphs, NEW ns, Len(ns) \in Nat, NEW es, Len(es) \in Nat,
         NEW run \in TakeNodesEdges(g, ns, es)
  PROVE  run.g \in Graphs
  <1> DEFINE start == [g |-> g, nodes |-> <<>>, edges |-> <<>>]
  <1>1. start \in Runs
    BY DEF Runs
  <1> HIDE DEF start
  <1>2. EdgeTurns(start, es) \in Runs
    BY <1>1, EdgeTurnsGood
  <1>3. NodeTurns({EdgeTurns(start, es)}, ns) \in SUBSET Runs
    BY <1>2, NodeTurnsGood
  <1>4. run \in Runs
    BY <1>3 DEF TakeNodesEdges, start
  <1> QED
    BY <1>4 DEF Runs

-----------------------------------------------------------------------------
(***************************************************************************)
(* The lists a batch may be given have a length.                           *)
(***************************************************************************)
LEMMA ListLength ==
  ASSUME NEW S, IsFiniteSet(S), NEW s \in Lists(S)
  PROVE  Len(s) \in Nat
  <1>1. PICK T \in SUBSET S : s \in SetToSeqs(T)
    BY DEF Lists
  <1>2. Cardinality(T) \in Nat
    BY FS_Subset, FS_CardinalityType
  <1>3. s \in [1..Cardinality(T) -> T]
    BY <1>1 DEF SetToSeqs
  <1> HIDE DEF Lists
  <1> QED
    BY <1>2, <1>3, Len(s) = Cardinality(T)

(***************************************************************************)
(* The tables agree in the beginning.                                      *)
(***************************************************************************)
LEMMA InitIInv == Init => IInv
  <1> SUFFICES ASSUME Init PROVE IInv
    OBVIOUS
  <1>1. /\ <<>> \in Vecs(NodeEntries) /\ <<>> \in Vecs(EdgeEntries)
        /\ graph = [nodes |-> <<>>, edges |-> <<>>]
    BY VecEmpty DEF Init
  <1>2. graph \in Tables
    BY <1>1 DEF Tables
  <1>3. NodeIxs(graph) = {} /\ EdgeIxs(graph) = {}
    BY <1>1, VecEmpty DEF NodeIxs, EdgeIxs
  <1> QED
    BY <1>2, <1>3 DEF IInv, Graphs, Mutual, Distinct

(***************************************************************************)
(* Every call keeps the tables in agreement.                               *)
(***************************************************************************)
LEMMA NextIInv == IInv /\ [Next]_vars => IInv'
  <1> SUFFICES ASSUME IInv, [Next]_vars PROVE IInv'
    OBVIOUS
  <1> USE DEF IInv
  <1>1. graph \in Graphs /\ graph \in Tables
    BY DEF Graphs
  <1>2. Nodes = NodeIxs(graph) /\ Edges = EdgeIxs(graph)
    BY DEF Nodes, Edges, NodeIxs, EdgeIxs
  <1>3. /\ IsFiniteSet(Nodes) /\ Size(graph.nodes) \in Nat
        /\ IsFiniteSet(Edges) /\ Size(graph.edges) \in Nat
    BY <1>1, <1>2, TableExcept, VecElim, ObservationTypes
  <1>4. ASSUME NEW v \in NodeVals, InsertNodeCall(v) PROVE graph' \in Graphs
    <2>1. \A n \in NodeIxs(graph) : NodePayload(graph, n) # v
      BY <1>2, <1>4 DEF InsertNodeCall, NodeVal, NodePayload
    <2> QED
      BY <1>1, <1>4, <2>1, InsertNodeFacts DEF InsertNodeCall
  <1>5. ASSUME NEW v \in EdgeVals, NEW ends \in SUBSET Nodes, InsertEdgeCall(v, ends)
        PROVE  graph' \in Graphs
    <2>1. \A e \in EdgeIxs(graph) : EdgePayload(graph, e) # v
      BY <1>2, <1>5 DEF InsertEdgeCall, EdgeVal, EdgePayload
    <2> QED
      BY <1>1, <1>2, <1>5, <2>1, InsertEdgeFacts DEF InsertEdgeCall
  <1>6. ASSUME NEW e \in Edges, TakeEdgeCall(e) PROVE graph' \in Graphs
    BY <1>1, <1>2, <1>6, TakeEdgeFacts DEF TakeEdgeCall
  <1>7. ASSUME NEW n \in Nodes, TakeNodeCall(n) PROVE graph' \in Graphs
    BY <1>1, <1>2, <1>7, TakeNodeFacts DEF TakeNodeCall
  <1>8. ASSUME NEW ns \in Lists(Nodes), NEW es \in Lists(Edges), TakeNodesEdgesCall(ns, es)
        PROVE  graph' \in Graphs
    <2>1. Len(ns) \in Nat /\ Len(es) \in Nat
      BY <1>3, ListLength
    <2> QED
      BY <1>1, <1>8, <2>1, TakeNodesEdgesGood DEF TakeNodesEdgesCall
  <1>9. ASSUME ClearCall PROVE graph' \in Graphs
    <2> DEFINE Up(size) == [k \in 1..size |-> k - 1]
    <2>1. Len(Up(Size(graph.nodes))) \in Nat /\ Len(Up(Size(graph.edges))) \in Nat
      BY <1>3
    <2>2. \E run \in TakeNodesEdges(graph, Up(Size(graph.nodes)), Up(Size(graph.edges))) :
            graph' = run.g
      BY <1>9 DEF ClearCall
    <2> HIDE DEF Up
    <2> QED
      BY <1>1, <2>1, <2>2, TakeNodesEdgesGood
  <1>10. ASSUME UNCHANGED vars PROVE graph' \in Graphs
    BY <1>1, <1>10 DEF vars
  <1> QED
    BY <1>4, <1>5, <1>6, <1>7, <1>8, <1>9, <1>10 DEF Next

(***************************************************************************)
(* What the invariant says of the two tables, in the words of the model.   *)
(***************************************************************************)
LEMMA IInvConsistent == IInv => Consistent
  <1> SUFFICES ASSUME IInv PROVE Consistent
    OBVIOUS
  <1>1. graph \in Tables /\ Mutual(graph)
    BY DEF IInv, Graphs
  <1>2. Nodes = NodeIxs(graph) /\ Edges = EdgeIxs(graph)
    BY DEF Nodes, Edges, NodeIxs, EdgeIxs
  <1>3. /\ Nodes = 0..Size(graph.nodes) - 1
        /\ \A n \in Nodes : graph.nodes[n] \in NodeEntries
    BY <1>1, TableExcept, VecElim DEF Nodes
  <1>4. /\ Edges = 0..Size(graph.edges) - 1
        /\ \A e \in Edges : graph.edges[e] \in EdgeEntries
    BY <1>1, TableExcept, VecElim DEF Edges
  <1>5. \A n \in Nodes : \A e : e \in graph.nodes[n].incident
                                 <=> e \in Edges /\ n \in graph.edges[e].ends
    BY <1>1, <1>2 DEF Mutual, IncidentTo, EndsOf
  <1>6. \A e \in Edges : \A n \in graph.edges[e].ends : n \in Nodes
    BY <1>1, <1>2 DEF Mutual, EndsOf
  <1>7. TypeOK
    <2>1. \A n \in Nodes : graph.nodes[n] \in [val : NodeVals, incident : SUBSET Edges]
      BY <1>3, <1>5 DEF NodeEntries
    <2>2. \A e \in Edges : graph.edges[e] \in [val : EdgeVals, ends : SUBSET Nodes]
      BY <1>4, <1>6 DEF EdgeEntries
    <2> QED
      BY <1>3, <1>4, <2>1, <2>2 DEF TypeOK
  <1>8. DualIndex
    BY <1>5, <1>6 DEF DualIndex
  <1> QED
    BY <1>7, <1>8 DEF Consistent

(***************************************************************************)
(* The dual index of hyper_edge.rs: after any sequence of calls, batches   *)
(* in any order included, a node lists an edge if and only if the edge     *)
(* lists the node, for all payloads and graphs of any size.                *)
(***************************************************************************)
THEOREM TablesAgree == Spec => []Consistent
  <1>1. Init => IInv
    BY InitIInv
  <1>2. IInv /\ [Next]_vars => IInv'
    BY NextIInv
  <1>3. IInv => Consistent
    BY IInvConsistent
  <1> QED
    BY <1>1, <1>2, <1>3, PTL DEF Spec

-----------------------------------------------------------------------------
(***************************************************************************)
(* A batch that goes from the highest index down.  What a run returns      *)
(* grows by one payload a turn.                                            *)
(***************************************************************************)
LEMMA AppendsNext ==
  ASSUME NEW k \in Nat, k > 0, NEW f
  PROVE  Append([i \in 1..(k - 1) |-> f[i]], f[k]) = [i \in 1..k |-> f[i]]
  <1> DEFINE s == [i \in 1..(k - 1) |-> f[i]]
  <1>1. Len(s) = k - 1 /\ DOMAIN s = 1..(k - 1)
    OBVIOUS
  <1>2. \A i \in 1..(k - 1) : s[i] = f[i]
    OBVIOUS
  <1> HIDE DEF s
  <1>3. Append(s, f[k]) = [i \in 1..k |-> IF i <= k - 1 THEN s[i] ELSE f[k]]
    BY <1>1
  <1> QED
    BY <1>2, <1>3 DEF s

(***************************************************************************)
(* The runs in which the first k edges of the list have been taken: each   *)
(* was where the list said, and what lies below all of them still is.      *)
(***************************************************************************)
EdgesTaken(g, es, k) ==
  {run \in Runs : /\ run.nodes = <<>>
                  /\ run.edges = [i \in 1..k |-> EdgePayload(g, es[i])]
                  /\ SameNodes(g, run.g)
                  /\ Loses(g, run.g, {}, {EdgePayload(g, es[i]) : i \in 1..k})
                  /\ \A e \in EdgeIxs(g) : (\A i \in 1..k : e < es[i])
                       => e \in EdgeIxs(run.g) /\ EdgePayload(run.g, e) = EdgePayload(g, e)}

(***************************************************************************)
(* One more edge: the next of the list is below all that were taken.       *)
(***************************************************************************)
LEMMA EdgeTakenNext ==
  ASSUME NEW g \in Graphs, NEW es, NEW k \in Nat, k > 0, NEW run \in EdgesTaken(g, es, k - 1),
         \A i \in 1..k : es[i] \in EdgeIxs(g), \A i \in 1..(k - 1) : es[k] < es[i]
  PROVE  EdgeTurn(run, es[k]) \in EdgesTaken(g, es, k)
  <1> DEFINE e    == es[k]
             h    == run.g
             j    == TakeEdge(h, e)
             next == EdgeTurn(run, e)
             vals == [i \in 1..k |-> EdgePayload(g, es[i])]
  <1>1. /\ run \in Runs /\ run.nodes = <<>>
        /\ run.edges = [i \in 1..(k - 1) |-> EdgePayload(g, es[i])]
        /\ SameNodes(g, h)
        /\ Loses(g, h, {}, {EdgePayload(g, es[i]) : i \in 1..(k - 1)})
        /\ \A f \in EdgeIxs(g) : (\A i \in 1..(k - 1) : f < es[i])
             => f \in EdgeIxs(h) /\ EdgePayload(h, f) = EdgePayload(g, f)
    BY DEF EdgesTaken
  <1>2. h \in Graphs
    BY <1>1 DEF Runs
  <1>3. e \in EdgeIxs(g) /\ \A i \in 1..(k - 1) : e < es[i]
    OBVIOUS
  <1> HIDE DEF e, h, j, vals
  <1>4. e \in EdgeIxs(h) /\ EdgePayload(h, e) = EdgePayload(g, e)
    BY <1>1, <1>3
  <1>5. /\ j \in Graphs
        /\ SameNodes(h, j)
        /\ EdgeIxs(j) = EdgeIxs(h) \ {LastEdge(h)}
        /\ \A f \in EdgeIxs(j) : f # e => EdgePayload(j, f) = EdgePayload(h, f)
    BY <1>2, <1>4, TakeEdgeFacts DEF j
  <1>6. Loses(h, j, {}, {EdgePayload(g, e)})
    BY <1>2, <1>4, TakeEdgeLoses DEF j
  <1>7. next = [run EXCEPT !.g = j, !.edges = Append(run.edges, EdgePayload(g, e))]
    <2>1. e \in DOMAIN run.g.edges /\ run.g.edges[e].val = EdgePayload(g, e)
      BY <1>4 DEF EdgeIxs, EdgePayload, h
    <2> QED
      BY <2>1 DEF EdgeTurn, j, h
  <1> HIDE DEF next
  <1>8. EdgePayload(g, e) \in EdgeVals
    BY <1>3, ObservationTypes DEF Graphs
  <1>9. Append(run.edges, EdgePayload(g, e)) = vals
    <2> DEFINE paid == [i \in 1..k |-> EdgePayload(g, es[i])]
    <2>1. /\ \A i \in 1..k : paid[i] = EdgePayload(g, es[i])
          /\ paid[k] = EdgePayload(g, e)
      BY DEF e
    <2> HIDE DEF paid
    <2>2. run.edges = [i \in 1..(k - 1) |-> paid[i]] /\ vals = [i \in 1..k |-> paid[i]]
      BY <1>1, <2>1 DEF vals
    <2> QED
      BY <2>1, <2>2, AppendsNext
  <1>10. Append(run.edges, EdgePayload(g, e)) \in Seq(EdgeVals)
    BY <1>1, <1>8, AppendType DEF Runs
  <1>11. /\ next \in Runs
         /\ next.g = j /\ next.nodes = <<>> /\ next.edges = vals
    BY <1>1, <1>5, <1>7, <1>9, <1>10, RunExcept DEF Runs
  <1>12. SameNodes(g, j)
    BY <1>1, <1>5 DEF SameNodes
  <1>13. Loses(g, j, {}, {EdgePayload(g, es[i]) : i \in 1..k})
    <2>1. Loses(g, j, {} \cup {}, {EdgePayload(g, es[i]) : i \in 1..(k - 1)} \cup {EdgePayload(g, e)})
      BY <1>1, <1>6, LosesMore
    <2>2. 1..k = 1..(k - 1) \cup {k}
      OBVIOUS
    <2>3. {EdgePayload(g, es[i]) : i \in 1..(k - 1)} \cup {EdgePayload(g, e)}
            = {EdgePayload(g, es[i]) : i \in 1..k}
      BY <2>2 DEF e
    <2>4. {} \cup {} = {}
      OBVIOUS
    <2> QED
      BY <2>1, <2>3, <2>4
  <1>14. ASSUME NEW f \in EdgeIxs(g), \A i \in 1..k : f < es[i]
         PROVE  f \in EdgeIxs(j) /\ EdgePayload(j, f) = EdgePayload(g, f)
    <2>1. f \in EdgeIxs(h) /\ EdgePayload(h, f) = EdgePayload(g, f)
      BY <1>1, <1>14
    <2>2. f < e
      BY <1>14 DEF e
    <2>3. e <= LastEdge(h) /\ LastEdge(h) \in Int /\ e \in Int /\ f \in Int
      BY <1>2, <1>4, <2>1, ObservationTypes DEF Graphs
    <2> QED
      BY <1>5, <2>1, <2>2, <2>3
  <1> QED
    BY <1>11, <1>12, <1>13, <1>14 DEF EdgesTaken, next, e, vals

(***************************************************************************)
(* The runs that go on from one over the edges, in which the first k nodes *)
(* of the list have been taken.                                            *)
(***************************************************************************)
NodesTaken(before, ns, k) ==
  {run \in Runs : /\ run.edges = before.edges
                  /\ run.nodes = [i \in 1..k |-> NodePayload(before.g, ns[i])]
                  /\ Loses(before.g, run.g, {NodePayload(before.g, ns[i]) : i \in 1..k}, {})
                  /\ \A n \in NodeIxs(before.g) : (\A i \in 1..k : n < ns[i])
                       => n \in NodeIxs(run.g) /\ NodePayload(run.g, n) = NodePayload(before.g, n)}

(***************************************************************************)
(* One more node, in one run.                                              *)
(***************************************************************************)
LEMMA NodeTakenOnce ==
  ASSUME NEW before \in Runs, NEW ns, NEW k \in Nat, k > 0,
         NEW run \in NodesTaken(before, ns, k - 1),
         \A i \in 1..k : ns[i] \in NodeIxs(before.g), \A i \in 1..(k - 1) : ns[k] < ns[i]
  PROVE  /\ ns[k] \in NodeIxs(run.g)
         /\ \A j \in TakeNode(run.g, ns[k]) :
              [run EXCEPT !.g = j, !.nodes = Append(run.nodes, NodePayload(run.g, ns[k]))]
                \in NodesTaken(before, ns, k)
  <1> DEFINE g    == before.g
             n    == ns[k]
             vals == [i \in 1..k |-> NodePayload(g, ns[i])]
  <1> HIDE DEF g, n, vals
  <1>1. g \in Graphs
    BY DEF Runs, g
  <1>2. n \in NodeIxs(g) /\ \A i \in 1..(k - 1) : n < ns[i]
    BY DEF n, g
  <1> DEFINE h == run.g
  <1>5. /\ run \in Runs /\ run.edges = before.edges
        /\ run.nodes = [i \in 1..(k - 1) |-> NodePayload(g, ns[i])]
        /\ Loses(g, h, {NodePayload(g, ns[i]) : i \in 1..(k - 1)}, {})
        /\ \A m \in NodeIxs(g) : (\A i \in 1..(k - 1) : m < ns[i])
             => m \in NodeIxs(h) /\ NodePayload(h, m) = NodePayload(g, m)
    BY DEF NodesTaken, g
  <1>6. h \in Graphs
    BY <1>5 DEF Runs
  <1> HIDE DEF h
  <1>7. n \in NodeIxs(h) /\ NodePayload(h, n) = NodePayload(g, n)
    BY <1>2, <1>5
  <1>8. SUFFICES ASSUME NEW j \in TakeNode(h, n)
                 PROVE  [run EXCEPT !.g = j, !.nodes = Append(run.nodes, NodePayload(g, n))]
                          \in NodesTaken(before, ns, k)
    BY <1>7 DEF n, h
  <1> DEFINE next == [run EXCEPT !.g = j, !.nodes = Append(run.nodes, NodePayload(g, n))]
  <1>9. /\ j \in Graphs
        /\ Loses(h, j, {NodePayload(g, n)}, {})
        /\ \A m \in NodeIxs(h) : m < n => m \in NodeIxs(j) /\ NodePayload(j, m) = NodePayload(h, m)
    BY <1>6, <1>7, TakeNodeFacts
  <1>10. NodePayload(g, n) \in NodeVals
    BY <1>1, <1>2, ObservationTypes DEF Graphs
  <1>11. Append(run.nodes, NodePayload(g, n)) = vals
    <2> DEFINE paid == [i \in 1..k |-> NodePayload(g, ns[i])]
    <2>1. /\ \A i \in 1..k : paid[i] = NodePayload(g, ns[i])
          /\ paid[k] = NodePayload(g, n)
      BY DEF n
    <2> HIDE DEF paid
    <2>2. run.nodes = [i \in 1..(k - 1) |-> paid[i]] /\ vals = [i \in 1..k |-> paid[i]]
      BY <1>5, <2>1 DEF vals
    <2> QED
      BY <2>1, <2>2, AppendsNext
  <1>12. Append(run.nodes, NodePayload(g, n)) \in Seq(NodeVals)
    BY <1>5, <1>10, AppendType DEF Runs
  <1>13. /\ next \in Runs
         /\ next.g = j /\ next.nodes = vals /\ next.edges = before.edges
    BY <1>5, <1>9, <1>11, <1>12, RunExcept DEF Runs
  <1> HIDE DEF next
  <1>14. Loses(g, j, {NodePayload(g, ns[i]) : i \in 1..k}, {})
    <2>1. Loses(g, j, {NodePayload(g, ns[i]) : i \in 1..(k - 1)} \cup {NodePayload(g, n)}, {} \cup {})
      BY <1>5, <1>9, LosesMore
    <2>2. 1..k = 1..(k - 1) \cup {k}
      OBVIOUS
    <2>3. {NodePayload(g, ns[i]) : i \in 1..(k - 1)} \cup {NodePayload(g, n)}
            = {NodePayload(g, ns[i]) : i \in 1..k}
      BY <2>2 DEF n
    <2>4. {} \cup {} = {}
      OBVIOUS
    <2> QED
      BY <2>1, <2>3, <2>4
  <1>15. ASSUME NEW m \in NodeIxs(g), \A i \in 1..k : m < ns[i]
         PROVE  m \in NodeIxs(j) /\ NodePayload(j, m) = NodePayload(g, m)
    <2>1. m \in NodeIxs(h) /\ NodePayload(h, m) = NodePayload(g, m)
      BY <1>5, <1>15
    <2>2. m < n
      BY <1>15 DEF n
    <2> QED
      BY <1>9, <2>1, <2>2
  <1> QED
    BY <1>13, <1>14, <1>15 DEF NodesTaken, g, vals, next

(***************************************************************************)
(* One more node, in all runs.                                             *)
(***************************************************************************)
LEMMA NodeTakenNext ==
  ASSUME NEW before \in Runs, NEW ns, NEW k \in Nat, k > 0,
         NEW runs \in SUBSET NodesTaken(before, ns, k - 1),
         \A i \in 1..k : ns[i] \in NodeIxs(before.g), \A i \in 1..(k - 1) : ns[k] < ns[i]
  PROVE  NodeTurn(runs, ns[k]) \in SUBSET NodesTaken(before, ns, k)
  <1>1. ASSUME NEW run \in runs
        PROVE  /\ ns[k] \in NodeIxs(run.g)
               /\ \A j \in TakeNode(run.g, ns[k]) :
                    [run EXCEPT !.g = j, !.nodes = Append(run.nodes, NodePayload(run.g, ns[k]))]
                      \in NodesTaken(before, ns, k)
    <2>1. run \in NodesTaken(before, ns, k - 1)
      OBVIOUS
    <2> QED
      BY <2>1, NodeTakenOnce
  <1> DEFINE n   == ns[k]
             All == NodesTaken(before, ns, k)
  <1> HIDE DEF n, All
  <1>2. SUFFICES ASSUME NEW next \in NodeTurn(runs, n) PROVE next \in All
    BY DEF n, All
  <1>3. PICK run \in runs :
               next \in IF n \in DOMAIN run.g.nodes
                          THEN {[run EXCEPT !.g = h, !.nodes = Append(@, run.g.nodes[n].val)] :
                                  h \in TakeNode(run.g, n)}
                          ELSE {run}
    BY <1>2, Zenon DEF NodeTurn
  <1>4. /\ n \in NodeIxs(run.g)
        /\ \A j \in TakeNode(run.g, n) :
             [run EXCEPT !.g = j, !.nodes = Append(run.nodes, NodePayload(run.g, n))] \in All
    BY <1>1 DEF n, All
  <1>5. PICK j \in TakeNode(run.g, n) :
               next = [run EXCEPT !.g = j, !.nodes = Append(run.nodes, NodePayload(run.g, n))]
    BY <1>3, <1>4 DEF NodeIxs, NodePayload
  <1> QED
    BY <1>4, <1>5

(***************************************************************************)
(* A list as long as p that goes down through S.                           *)
(***************************************************************************)
Descends(s, p, S) == /\ p \in Nat /\ s \in [1..p -> S]
                     /\ \A i, j \in 1..p : i < j => s[i] > s[j]

(***************************************************************************)
(* The payloads at the first p indices of a list, and those among them.    *)
(***************************************************************************)
NodesAt(g, s, p) == [i \in 1..p |-> NodePayload(g, s[i])]
EdgesAt(g, s, p) == [i \in 1..p |-> EdgePayload(g, s[i])]
Among(s, p) == {s[i] : i \in 1..p}

(***************************************************************************)
(* A run that took what it was asked for, and the edges of the nodes, and  *)
(* returns the payloads that were at the indices given.                    *)
(***************************************************************************)
Served(g, run, ns, p, es, q) ==
  /\ Loses(g, run.g, Among(NodesAt(g, ns, p), p), Among(EdgesAt(g, es, q), q))
  /\ run.nodes = NodesAt(g, ns, p)
  /\ run.edges = EdgesAt(g, es, q)

(***************************************************************************)
(* Every run of such a batch is one.                                       *)
(***************************************************************************)
LEMMA BatchTakes ==
  ASSUME NEW g \in Graphs, NEW p, NEW q, NEW ns, NEW es,
         Descends(ns, p, NodeIxs(g)), Descends(es, q, EdgeIxs(g)),
         NEW run \in TakeNodesEdges(g, ns, es)
  PROVE  Served(g, run, ns, p, es, q)
  <1> DEFINE start == [g |-> g, nodes |-> <<>>, edges |-> <<>>]
             mid   == EdgeTurns(start, es)
             W     == {NodePayload(g, ns[i]) : i \in 1..p}
             Y     == {EdgePayload(g, es[i]) : i \in 1..q}
  <1>1. /\ p \in Nat /\ Len(ns) = p /\ \A i \in 1..p : ns[i] \in NodeIxs(g)
        /\ q \in Nat /\ Len(es) = q /\ \A i \in 1..q : es[i] \in EdgeIxs(g)
        /\ \A i, j \in 1..p : i < j => ns[i] > ns[j]
        /\ \A i, j \in 1..q : i < j => es[i] > es[j]
    BY DEF Descends
  <1>2. \A n \in NodeIxs(g) : n \in Int
    BY ObservationTypes DEF Graphs
  <1>3. \A e \in EdgeIxs(g) : e \in Int
    BY ObservationTypes DEF Graphs
  <1>4. start \in EdgesTaken(g, es, 0)
    <2>1. start \in Runs /\ start.g = g /\ start.nodes = <<>> /\ start.edges = <<>>
      BY DEF Runs
    <2> HIDE DEF start
    <2>2. <<>> = [i \in 1..0 |-> EdgePayload(g, es[i])] /\ {EdgePayload(g, es[i]) : i \in 1..0} = {}
      OBVIOUS
    <2>3. SameNodes(g, g) /\ Loses(g, g, {}, {})
      BY LosesNothing DEF SameNodes
    <2> QED
      BY <2>1, <2>2, <2>3 DEF EdgesTaken
  <1>5. mid \in EdgesTaken(g, es, q)
    <2> DEFINE In == [k \in 0..q |-> EdgesTaken(g, es, k)]
    <2>1. \A k \in 0..q : In[k] = EdgesTaken(g, es, k)
      OBVIOUS
    <2> HIDE DEF In, start
    <2>2. ASSUME NEW k \in 1..q, NEW x \in In[k - 1]
          PROVE  EdgeTurn(x, es[k]) \in In[k]
      <3>1. k \in Nat /\ k > 0 /\ k - 1 \in 0..q /\ k \in 0..q
        BY <1>1
      <3>2. x \in EdgesTaken(g, es, k - 1)
        BY <2>1, <3>1
      <3>3. \A i \in 1..k : es[i] \in EdgeIxs(g)
        BY <1>1
      <3>4. \A i \in 1..(k - 1) : es[k] < es[i]
        BY <1>1, <1>3
      <3>5. EdgeTurn(x, es[k]) \in EdgesTaken(g, es, k)
        BY <3>1, <3>2, <3>3, <3>4, EdgeTakenNext
      <3> QED
        BY <2>1, <3>1, <3>5
    <2>3. start \in In[0]
      BY <1>1, <1>4, <2>1
    <2>4. EdgeTurns(start, es) \in In[Len(es)]
      BY <1>1, <2>2, <2>3, EdgeTurnsLead
    <2> QED
      BY <1>1, <2>1, <2>4
  <1>6. /\ mid \in Runs /\ mid.nodes = <<>>
        /\ mid.edges = [i \in 1..q |-> EdgePayload(g, es[i])]
        /\ SameNodes(g, mid.g) /\ Loses(g, mid.g, {}, Y)
    BY <1>5 DEF EdgesTaken
  <1>7. run \in NodeTurns({mid}, ns)
    BY DEF TakeNodesEdges
  <1> HIDE DEF start, mid, Y
  <1>8. mid.g \in Graphs
    BY <1>6 DEF Runs
  <1>9. /\ NodeIxs(mid.g) = NodeIxs(g)
        /\ \A n \in NodeIxs(g) : NodePayload(mid.g, n) = NodePayload(g, n)
    BY <1>6 DEF SameNodes
  <1>10. mid \in NodesTaken(mid, ns, 0)
    <2>1. <<>> = [i \in 1..0 |-> NodePayload(mid.g, ns[i])] /\ {NodePayload(mid.g, ns[i]) : i \in 1..0} = {}
      OBVIOUS
    <2> QED
      BY <1>6, <1>8, <2>1, LosesNothing DEF NodesTaken
  <1>11. run \in NodesTaken(mid, ns, p)
    <2> DEFINE In == [k \in 0..p |-> SUBSET NodesTaken(mid, ns, k)]
    <2>1. \A k \in 0..p : In[k] = SUBSET NodesTaken(mid, ns, k)
      OBVIOUS
    <2> HIDE DEF In
    <2>2. ASSUME NEW k \in 1..p, NEW X \in In[k - 1]
          PROVE  NodeTurn(X, ns[k]) \in In[k]
      <3>1. k \in Nat /\ k > 0 /\ k - 1 \in 0..p /\ k \in 0..p
        BY <1>1
      <3>2. X \in SUBSET NodesTaken(mid, ns, k - 1)
        BY <2>1, <3>1
      <3>3. \A i \in 1..k : ns[i] \in NodeIxs(mid.g)
        BY <1>1, <1>9
      <3>4. \A i \in 1..(k - 1) : ns[k] < ns[i]
        BY <1>1, <1>2
      <3>5. NodeTurn(X, ns[k]) \in SUBSET NodesTaken(mid, ns, k)
        BY <1>6, <3>1, <3>2, <3>3, <3>4, NodeTakenNext
      <3> QED
        BY <2>1, <3>1, <3>5
    <2>3. {mid} \in In[0]
      BY <1>1, <1>10, <2>1
    <2>4. NodeTurns({mid}, ns) \in In[Len(ns)]
      BY <1>1, <2>2, <2>3, NodeTurnsLead
    <2> QED
      BY <1>1, <1>7, <2>1, <2>4
  <1>12. /\ run.edges = mid.edges
         /\ run.nodes = [i \in 1..p |-> NodePayload(mid.g, ns[i])]
         /\ Loses(mid.g, run.g, {NodePayload(mid.g, ns[i]) : i \in 1..p}, {})
    BY <1>11 DEF NodesTaken
  <1>13. \A i \in 1..p : NodePayload(mid.g, ns[i]) = NodePayload(g, ns[i])
    BY <1>1, <1>9
  <1>14. {NodePayload(mid.g, ns[i]) : i \in 1..p} = W
    BY <1>13
  <1>15. [i \in 1..p |-> NodePayload(mid.g, ns[i])] = [i \in 1..p |-> NodePayload(g, ns[i])]
    BY <1>13
  <1> HIDE DEF W
  <1>16. Loses(g, run.g, W, Y)
    <2>1. Loses(g, run.g, {} \cup W, Y \cup {})
      BY <1>6, <1>12, <1>14, LosesMore
    <2>2. {} \cup W = W /\ Y \cup {} = Y
      OBVIOUS
    <2> QED
      BY <2>1, <2>2
  <1>17. run.nodes = NodesAt(g, ns, p) /\ run.edges = EdgesAt(g, es, q)
    BY <1>6, <1>12, <1>15 DEF NodesAt, EdgesAt
  <1>18. Among(NodesAt(g, ns, p), p) = W
    BY DEF Among, NodesAt, W
  <1>19. Among(EdgesAt(g, es, q), q) = Y
    BY DEF Among, EdgesAt, Y
  <1> QED
    BY <1>16, <1>17, <1>18, <1>19 DEF Served

-----------------------------------------------------------------------------
(***************************************************************************)
(* The refinement.  A function that relates the edges to what they join    *)
(* is the one the mapping gives.                                           *)
(***************************************************************************)
LEMMA JoinsAre ==
  ASSUME NEW h \in Graphs, NEW D, NEW F, F = [x \in D |-> F[x]],
         \A x : EdgeNamed(h, x) <=> x \in D,
         \A x \in D : \A v : v \in F[x] <=> Joined(h, x, v)
  PROVE  JoinsOf(h) = F
  <1> DEFINE J == JoinsOf(h)
  <1> HIDE DEF J
  <1>1. /\ \A x : x \in DOMAIN J <=> EdgeNamed(h, x)
        /\ \A x \in DOMAIN J : \A v : v \in J[x] <=> Joined(h, x, v)
        /\ J = [x \in DOMAIN J |-> J[x]]
    BY StandsFor DEF J
  <1>2. DOMAIN J = D
    BY <1>1
  <1>3. \A x \in D : J[x] = F[x]
    <2>1. SUFFICES ASSUME NEW x \in D PROVE J[x] = F[x]
      OBVIOUS
    <2>2. \A v : v \in J[x] <=> v \in F[x]
      BY <1>1, <1>2
    <2> QED
      BY <2>2
  <1>4. J = F
    BY <1>1, <1>2, <1>3
  <1> QED
    BY <1>4 DEF J

(***************************************************************************)
(* What is the same of two graphs if their edges are.                      *)
(***************************************************************************)
LEMMA SameJoins ==
  ASSUME NEW g \in Graphs, NEW h \in Graphs,
         \A x : EdgeNamed(h, x) <=> EdgeNamed(g, x),
         \A x, v : Joined(h, x, v) <=> Joined(g, x, v)
  PROVE  JoinsOf(h) = JoinsOf(g)
  <1> DEFINE D == DOMAIN JoinsOf(g)
             F == JoinsOf(g)
  <1>1. /\ \A x : x \in D <=> EdgeNamed(g, x)
        /\ \A x \in D : \A v : v \in F[x] <=> Joined(g, x, v)
        /\ F = [x \in D |-> F[x]]
    BY StandsFor
  <1> HIDE DEF D, F
  <1>2. JoinsOf(h) = F
    BY <1>1, JoinsAre
  <1> QED
    BY <1>2 DEF F

(***************************************************************************)
(* An insertion of a node.                                                 *)
(***************************************************************************)
LEMMA InsertNodeGains ==
  ASSUME NEW g \in Graphs, NEW v \in NodeVals, \A n \in NodeIxs(g) : NodePayload(g, n) # v
  PROVE  LET h == InsertNode(g, v) IN
         /\ v \notin VertsOf(g)
         /\ VertsOf(h) = VertsOf(g) \cup {v}
         /\ JoinsOf(h) = JoinsOf(g)
         /\ h.nodes[Size(g.nodes)].val = v
  <1> DEFINE h  == InsertNode(g, v)
             ix == LastNode(g) + 1
  <1>1. /\ h \in Graphs
        /\ SameEdges(g, h)
        /\ NodeIxs(h) = NodeIxs(g) \cup {ix} /\ ix \notin NodeIxs(g)
        /\ NodePayload(h, ix) = v
        /\ \A n \in NodeIxs(g) : NodePayload(h, n) = NodePayload(g, n)
    BY InsertNodeFacts
  <1> HIDE DEF h
  <1>2. Size(g.nodes) = ix
    BY TableExcept, VecElim DEF Graphs, LastNode
  <1>3. NodePayload(h, Size(g.nodes)) = v
    BY <1>1, <1>2
  <1> HIDE DEF ix
  <1>4. v \notin VertsOf(g)
    BY StandsFor DEF NodeNamed
  <1>5. VertsOf(h) = VertsOf(g) \cup {v}
    <2>1. \A w : NodeNamed(h, w) <=> NodeNamed(g, w) \/ w = v
      BY <1>1 DEF NodeNamed
    <2>2. \A w : w \in VertsOf(h) <=> w \in VertsOf(g) \/ w = v
      BY <1>1, <2>1, StandsFor
    <2> QED
      BY <2>2
  <1>6. \A e \in EdgeIxs(g) : \A n \in EndsOf(g, e) : NodePayload(h, n) = NodePayload(g, n)
    BY <1>1 DEF Graphs, Mutual
  <1>7. \A x : EdgeNamed(h, x) <=> EdgeNamed(g, x)
    BY <1>1 DEF EdgeNamed, SameEdges
  <1>8. \A x, w : Joined(h, x, w) <=> Joined(g, x, w)
    BY <1>1, <1>6 DEF Joined, SameEdges
  <1>9. JoinsOf(h) = JoinsOf(g)
    BY <1>1, <1>7, <1>8, SameJoins
  <1> QED
    BY <1>3, <1>4, <1>5, <1>9 DEF h, NodePayload

(***************************************************************************)
(* An insertion of an edge.                                                *)
(***************************************************************************)
LEMMA InsertEdgeGains ==
  ASSUME NEW g \in Graphs, NEW v \in EdgeVals, NEW ends \in SUBSET NodeIxs(g),
         \A e \in EdgeIxs(g) : EdgePayload(g, e) # v
  PROVE  LET h == InsertEdge(g, v, ends)
             e == IndexOfNew(TRUE, g.edges, v)
             J == JoinsOf(g)
             W == {NodePayload(g, n) : n \in ends}
         IN /\ v \notin DOMAIN J
            /\ W \in SUBSET VertsOf(g)
            /\ VertsOf(h) = VertsOf(g)
            /\ JoinsOf(h) = [x \in DOMAIN J \cup {v} |-> IF x = v THEN W ELSE J[x]]
            /\ h.edges[e].val = v
            /\ Ends(h, e) = W
  <1> DEFINE h == InsertEdge(g, v, ends)
             e == IndexOfNew(TRUE, g.edges, v)
             J == JoinsOf(g)
             W == {NodePayload(g, n) : n \in ends}
             D == DOMAIN J \cup {v}
             F == [x \in D |-> IF x = v THEN W ELSE J[x]]
  <1>1. /\ h \in Graphs
        /\ SameNodes(g, h)
        /\ EdgeIxs(h) = EdgeIxs(g) \cup {e} /\ e \notin EdgeIxs(g)
        /\ EdgePayload(h, e) = v /\ EndsOf(h, e) = ends
        /\ \A f \in EdgeIxs(g) : EdgePayload(h, f) = EdgePayload(g, f) /\ EndsOf(h, f) = EndsOf(g, f)
    <2>1. h \in Graphs /\ GainsEdge(g, h, e, v, ends)
      BY InsertEdgeFacts
    <2> HIDE DEF h, e
    <2> QED
      BY <2>1 DEF GainsEdge
  <1> HIDE DEF h, e, J
  <1>2. \A w : w \in W <=> \E n \in ends : NodePayload(g, n) = w
    OBVIOUS
  <1>3. /\ \A x : x \in D <=> x \in DOMAIN J \/ x = v
        /\ F = [x \in D |-> F[x]]
        /\ F[v] = W
        /\ \A x \in DOMAIN J : x # v => F[x] = J[x]
    OBVIOUS
  <1> HIDE DEF W, D, F
  <1>4. /\ \A x : x \in DOMAIN J <=> EdgeNamed(g, x)
        /\ \A x \in DOMAIN J : \A w : w \in J[x] <=> Joined(g, x, w)
        /\ \A w : w \in VertsOf(g) <=> NodeNamed(g, w)
    BY StandsFor DEF J
  <1>5. v \notin DOMAIN J
    BY <1>4 DEF EdgeNamed
  <1>6. W \in SUBSET VertsOf(g)
    <2>1. \A w \in W : NodeNamed(g, w)
      BY <1>2 DEF NodeNamed
    <2> QED
      BY <1>4, <2>1
  <1>7. VertsOf(h) = VertsOf(g)
    <2>1. \A w : NodeNamed(h, w) <=> NodeNamed(g, w)
      BY <1>1 DEF NodeNamed, SameNodes
    <2>2. \A w : w \in VertsOf(h) <=> w \in VertsOf(g)
      BY <1>1, <1>4, <2>1, StandsFor
    <2> QED
      BY <2>2 DEF VertsOf
  <1>8. \A n \in ends : NodePayload(h, n) = NodePayload(g, n)
    BY <1>1 DEF SameNodes
  <1>9. \A f \in EdgeIxs(g) : \A n \in EndsOf(g, f) : NodePayload(h, n) = NodePayload(g, n)
    BY <1>1 DEF Graphs, Mutual, SameNodes
  <1>10. \A x : EdgeNamed(h, x) <=> x \in D
    BY <1>1, <1>3, <1>4 DEF EdgeNamed
  <1>11. ASSUME NEW x \in D, NEW w PROVE w \in F[x] <=> Joined(h, x, w)
    <2>1. CASE x = v
      <3>1. Joined(h, v, w) <=> \E n \in EndsOf(h, e) : NodePayload(h, n) = w
        BY <1>1 DEF Joined
      <3> QED
        BY <1>1, <1>2, <1>3, <1>8, <2>1, <3>1
    <2>2. CASE x # v
      <3>1. x \in DOMAIN J
        BY <1>3, <1>11, <2>2
      <3>2. Joined(h, x, w) <=> Joined(g, x, w)
        BY <1>1, <1>9, <2>2 DEF Joined
      <3> QED
        BY <1>3, <1>4, <2>2, <3>1, <3>2
    <2> QED
      BY <2>1, <2>2
  <1>12. JoinsOf(h) = F
    BY <1>1, <1>3, <1>10, <1>11, JoinsAre
  <1>13. h.edges[e].val = v
    BY <1>1 DEF EdgePayload
  <1>14. Ends(h, e) = W
    <2>1. \A w : w \in Ends(h, e) <=> \E n \in EndsOf(h, e) : NodePayload(h, n) = w
      BY <1>1, EndsByPayload
    <2>2. \A w : w \in Ends(h, e) <=> w \in W
      BY <1>1, <1>2, <1>8, <2>1
    <2> QED
      BY <2>2
  <1> QED
    BY <1>5, <1>6, <1>7, <1>12, <1>13, <1>14 DEF h, e, J, W, D, F

(***************************************************************************)
(* What the edges of g join, without those of X and those at V.            *)
(***************************************************************************)
JoinsWithout(g, V, X) ==
  [x \in {y \in DOMAIN JoinsOf(g) \ X : JoinsOf(g)[y] \cap V = {}} |-> JoinsOf(g)[x]]

(***************************************************************************)
(* A removal.                                                              *)
(***************************************************************************)
LEMMA LosesRefines ==
  ASSUME NEW g \in Graphs, NEW h, NEW V, NEW X, Loses(g, h, V, X)
  PROVE  VertsOf(h) = VertsOf(g) \ V /\ JoinsOf(h) = JoinsWithout(g, V, X)
  <1> DEFINE J    == JoinsOf(g)
             kept == {y \in DOMAIN J \ X : J[y] \cap V = {}}
             F    == [x \in kept |-> J[x]]
  <1>1. h \in Graphs
    BY DEF Loses
  <1> HIDE DEF J
  <1>2. /\ \A x : x \in kept <=> x \in DOMAIN J /\ x \notin X /\ \A v \in V : v \notin J[x]
        /\ F = [x \in kept |-> F[x]]
        /\ \A x \in kept : F[x] = J[x]
    OBVIOUS
  <1> HIDE DEF kept, F
  <1>3. /\ \A x : x \in DOMAIN J <=> EdgeNamed(g, x)
        /\ \A x \in DOMAIN J : \A w : w \in J[x] <=> Joined(g, x, w)
    BY StandsFor DEF J
  <1>4. VertsOf(h) = VertsOf(g) \ V
    <2>1. \A w : w \in VertsOf(h) <=> w \in VertsOf(g) /\ w \notin V
      BY <1>1, StandsFor DEF Loses
    <2> QED
      BY <2>1
  <1>5. \A x : EdgeNamed(h, x) <=> x \in kept
    BY <1>2, <1>3 DEF Loses
  <1>6. \A x \in kept : \A v : v \in F[x] <=> Joined(h, x, v)
    BY <1>2, <1>3, <1>5 DEF Loses
  <1>7. JoinsOf(h) = F
    BY <1>1, <1>2, <1>5, <1>6, JoinsAre
  <1> QED
    BY <1>4, <1>7, Zenon DEF JoinsWithout, J, kept, F

(***************************************************************************)
(* Lists are the sequences without repetition, also of the abstract graph. *)
(***************************************************************************)
LEMMA ListIs ==
  ASSUME NEW S, NEW p \in Nat, NEW s \in [1..p -> S],
         \A i, j \in 1..p : s[i] = s[j] => i = j
  PROVE  s \in Lists(S)
  <1> DEFINE T == {s[i] : i \in 1..p}
  <1>1. IsFiniteSet(1..p) /\ Cardinality(1..p) = p
    BY FS_Interval
  <1>2. s \in Bijection(1..p, T)
    <2>1. s \in [1..p -> T]
      OBVIOUS
    <2>2. \A t \in T : \E i \in 1..p : s[i] = t
      OBVIOUS
    <2> HIDE DEF T
    <2> QED
      BY <2>1, <2>2 DEF Bijection, Injection, Surjection, IsInjective
  <1>3. T \in SUBSET S /\ s \in [1..p -> T]
    OBVIOUS
  <1> HIDE DEF T
  <1>4. ExistsBijection(1..p, T)
    BY <1>2 DEF ExistsBijection
  <1>5. Cardinality(T) = p
    BY <1>1, <1>4, FS_Bijection
  <1>6. s \in SetToSeqs(T)
    BY <1>3, <1>5 DEF SetToSeqs
  <1> QED
    BY <1>3, <1>6 DEF Lists

(***************************************************************************)
(* And back.                                                               *)
(***************************************************************************)
LEMMA ListElim ==
  ASSUME NEW S, IsFiniteSet(S), NEW s \in Lists(S)
  PROVE  \E p \in Nat : s \in [1..p -> S] /\ \A i, j \in 1..p : s[i] = s[j] => i = j
  <1>1. PICK T \in SUBSET S : s \in SetToSeqs(T)
    BY DEF Lists
  <1>2. Cardinality(T) \in Nat
    BY FS_Subset, FS_CardinalityType
  <1> DEFINE p == Cardinality(T)
  <1>3. s \in [1..p -> T] /\ \A i, j \in 1..p : s[i] = s[j] => i = j
    BY <1>1 DEF SetToSeqs
  <1> HIDE DEF p
  <1>4. s \in [1..p -> S] /\ \A i, j \in 1..p : s[i] = s[j] => i = j
    BY <1>3
  <1>5. p \in Nat
    BY <1>2 DEF p
  <1> QED
    BY <1>4, <1>5

(***************************************************************************)
(* A list of p payloads, none of them twice.                               *)
(***************************************************************************)
NoneTwice(s, p) == /\ s = [i \in 1..p |-> s[i]]
                   /\ \A i, j \in 1..p : s[i] = s[j] => i = j

(***************************************************************************)
(* A call of a removal: the graph loses what it was asked for and the call *)
(* returns it.                                                             *)
(***************************************************************************)
LEMMA TakeRefines ==
  ASSUME graph \in Graphs, NEW p \in Nat, NEW q \in Nat, NEW V, NEW X,
         NoneTwice(V, p), \A i \in 1..p : NodeNamed(graph, V[i]),
         NoneTwice(X, q), \A i \in 1..q : EdgeNamed(graph, X[i]),
         Loses(graph, graph', Among(V, p), Among(X, q)),
         answer' = Answer("take", <<V, X>>, <<V, X>>)
  PROVE  Abstract!Next
  <1> DEFINE verts == VertsOf(graph)
             joins == JoinsOf(graph)
  <1>1. /\ \A v : v \in verts <=> NodeNamed(graph, v)
        /\ \A x : x \in DOMAIN joins <=> EdgeNamed(graph, x)
    BY StandsFor
  <1> HIDE DEF verts, joins
  <1>2. V \in [1..p -> verts] /\ X \in [1..q -> DOMAIN joins]
    BY <1>1 DEF NoneTwice
  <1>3. V \in Lists(verts) /\ X \in Lists(DOMAIN joins)
    BY <1>2, ListIs DEF NoneTwice
  <1>4. ToSet(V) = Among(V, p) /\ ToSet(X) = Among(X, q)
    BY DEF ToSet, Among, NoneTwice
  <1>5. Loses(graph, graph', ToSet(V), ToSet(X))
    BY <1>4
  <1>6. ToSet(V) \subseteq verts /\ ToSet(X) \subseteq DOMAIN joins
    BY <1>2, <1>4 DEF Among
  <1>9. VertsOf(graph') = verts \ ToSet(V) /\ JoinsOf(graph') = JoinsWithout(graph, ToSet(V), ToSet(X))
    <2>1. \A h, W, Y : Loses(graph, h, W, Y)
            => VertsOf(h) = VertsOf(graph) \ W /\ JoinsOf(h) = JoinsWithout(graph, W, Y)
      BY LosesRefines
    <2> DEFINE W == ToSet(V)
               Y == ToSet(X)
    <2>2. Loses(graph, graph', W, Y)
      BY <1>5
    <2> HIDE DEF W, Y
    <2>3. VertsOf(graph') = VertsOf(graph) \ W /\ JoinsOf(graph') = JoinsWithout(graph, W, Y)
      BY <2>1, <2>2, Zenon
    <2> QED
      BY <2>3 DEF W, Y, verts
  <1>10. \A s : Abstract!ToSet(s) = ToSet(s)
    BY DEF Abstract!ToSet, ToSet
  <1>11. Abstract!TakeNodesEdges(V, X)
    BY <1>6, <1>9, <1>10, Zenon
       DEF Abstract!TakeNodesEdges, JoinsWithout, verts, joins, Abstract!Answer, Answer
  <1>12. \A S : Abstract!Listings(S) = Lists(S)
    <2>1. \A T : Abstract!SetToSeqs(T) = SetToSeqs(T)
      BY Zenon DEF Abstract!SetToSeqs, SetToSeqs, Abstract!Cardinality, Cardinality
    <2> QED
      BY <2>1, Zenon DEF Abstract!Listings, Lists
  <1>13. V \in Abstract!Listings(verts) /\ X \in Abstract!Listings(DOMAIN joins)
    BY <1>3, <1>12
  <1> QED
    BY <1>11, <1>13 DEF Abstract!Next, verts, joins

(***************************************************************************)
(* insert_node.                                                            *)
(***************************************************************************)
LEMMA InsertNodeCallRefines ==
  ASSUME graph \in Graphs, NEW v \in NodeVals, InsertNodeCall(v)
  PROVE  Abstract!Next
  <1>1. /\ graph' = InsertNode(graph, v)
        /\ answer' = Answer("insert_node", <<v>>, <<graph'.nodes[Size(graph.nodes)].val>>)
    BY DEF InsertNodeCall
  <1>2. \A n \in NodeIxs(graph) : NodePayload(graph, n) # v
    BY DEF InsertNodeCall, Nodes, NodeVal, NodeIxs, NodePayload
  <1> DEFINE h == InsertNode(graph, v)
  <1>3. /\ v \notin VertsOf(graph)
        /\ VertsOf(h) = VertsOf(graph) \cup {v}
        /\ JoinsOf(h) = JoinsOf(graph)
        /\ h.nodes[Size(graph.nodes)].val = v
    BY <1>2, InsertNodeGains
  <1> HIDE DEF h
  <1>4. graph' = h
    BY <1>1 DEF h
  <1>5. answer' = Answer("insert_node", <<v>>, <<v>>)
    BY <1>1, <1>3, <1>4
  <1>6. VertsOf(graph') = VertsOf(graph) \cup {v} /\ JoinsOf(graph') = JoinsOf(graph)
    BY <1>3, <1>4
  <1>7. Abstract!InsertNode(v)
    BY <1>3, <1>5, <1>6 DEF Abstract!InsertNode, Abstract!Answer, Answer
  <1> QED
    BY <1>7 DEF Abstract!Next

(***************************************************************************)
(* insert_edge.                                                            *)
(***************************************************************************)
LEMMA InsertEdgeCallRefines ==
  ASSUME graph \in Graphs, NEW v \in EdgeVals, NEW ends \in SUBSET Nodes, InsertEdgeCall(v, ends)
  PROVE  Abstract!Next
  <1> DEFINE h == InsertEdge(graph, v, ends)
             e == IndexOfNew(TRUE, graph.edges, v)
             J == JoinsOf(graph)
             W == {NodePayload(graph, n) : n \in ends}
  <1>1. /\ graph' = h
        /\ answer' = Answer("insert_edge", <<v, {NodeVal(n) : n \in ends}>>,
                            <<graph'.edges[e].val, Ends(graph', e)>>)
    BY DEF InsertEdgeCall
  <1>2. \A f \in EdgeIxs(graph) : EdgePayload(graph, f) # v
    BY DEF InsertEdgeCall, Edges, EdgeVal, EdgeIxs, EdgePayload
  <1>3. ends \in SUBSET NodeIxs(graph)
    BY DEF Nodes, NodeIxs
  <1>4. W = {NodeVal(n) : n \in ends}
    BY DEF NodeVal, NodePayload
  <1>5. /\ v \notin DOMAIN J
        /\ W \in SUBSET VertsOf(graph)
        /\ VertsOf(h) = VertsOf(graph)
        /\ JoinsOf(h) = [x \in DOMAIN J \cup {v} |-> IF x = v THEN W ELSE J[x]]
        /\ h.edges[e].val = v
        /\ Ends(h, e) = W
    BY <1>2, <1>3, InsertEdgeGains
  <1> HIDE DEF h, e, W
  <1>6. answer' = Answer("insert_edge", <<v, W>>, <<v, W>>)
    BY <1>1, <1>4, <1>5
  <1>7. /\ VertsOf(graph') = VertsOf(graph)
        /\ JoinsOf(graph') = [x \in DOMAIN J \cup {v} |-> IF x = v THEN W ELSE J[x]]
    BY <1>1, <1>5
  <1>8. Abstract!InsertEdge(v, W)
    BY <1>5, <1>6, <1>7 DEF Abstract!InsertEdge, Abstract!Answer, Answer
  <1> QED
    BY <1>5, <1>8 DEF Abstract!Next

(***************************************************************************)
(* A batch from the highest index down; what Vals lists.                   *)
(***************************************************************************)
LEMMA DescendingRefines ==
  ASSUME graph \in Graphs, NEW p, NEW q, NEW ns, NEW es,
         Descends(ns, p, NodeIxs(graph)), Descends(es, q, EdgeIxs(graph)),
         Loses(graph, graph', Among(NodesAt(graph, ns, p), p), Among(EdgesAt(graph, es, q), q)),
         answer' = Answer("take", Vals(ns, es), <<NodesAt(graph, ns, p), EdgesAt(graph, es, q)>>)
  PROVE  Abstract!Next
  <1> DEFINE V == NodesAt(graph, ns, p)
             X == EdgesAt(graph, es, q)
  <1>1. /\ p \in Nat /\ DOMAIN ns = 1..p /\ \A i \in 1..p : ns[i] \in NodeIxs(graph)
        /\ q \in Nat /\ DOMAIN es = 1..q /\ \A i \in 1..q : es[i] \in EdgeIxs(graph)
        /\ \A i, j \in 1..p : i < j => ns[i] > ns[j]
        /\ \A i, j \in 1..q : i < j => es[i] > es[j]
    BY DEF Descends
  <1>2. /\ \A n \in NodeIxs(graph) : n \in Int
        /\ \A e \in EdgeIxs(graph) : e \in Int
    BY ObservationTypes DEF Graphs
  <1>3. Vals(ns, es) = <<V, X>>
    BY <1>1 DEF Vals, NodeVal, EdgeVal, NodePayload, EdgePayload, NodesAt, EdgesAt
  <1>4. /\ \A i \in 1..p : V[i] = NodePayload(graph, ns[i])
        /\ \A i \in 1..q : X[i] = EdgePayload(graph, es[i])
        /\ V = [i \in 1..p |-> V[i]] /\ X = [i \in 1..q |-> X[i]]
    BY DEF NodesAt, EdgesAt
  <1>5. Loses(graph, graph', Among(V, p), Among(X, q))
    OBVIOUS
  <1>6. answer' = Answer("take", <<V, X>>, <<V, X>>)
    BY <1>3
  <1> HIDE DEF V, X
  <1>7. ASSUME NEW i \in 1..p, NEW j \in 1..p, V[i] = V[j] PROVE i = j
    <2>1. ns[i] = ns[j]
      BY <1>1, <1>4, <1>7 DEF Graphs, Distinct
    <2> QED
      BY <1>1, <1>2, <2>1
  <1>8. ASSUME NEW i \in 1..q, NEW j \in 1..q, X[i] = X[j] PROVE i = j
    <2>1. es[i] = es[j]
      BY <1>1, <1>4, <1>8 DEF Graphs, Distinct
    <2> QED
      BY <1>1, <1>2, <2>1
  <1>9. NoneTwice(V, p) /\ NoneTwice(X, q)
    BY <1>4, <1>7, <1>8 DEF NoneTwice
  <1>10. \A i \in 1..p : NodeNamed(graph, V[i])
    BY <1>1, <1>4 DEF NodeNamed
  <1>11. \A i \in 1..q : EdgeNamed(graph, X[i])
    BY <1>1, <1>4 DEF EdgeNamed
  <1> QED
    BY <1>1, <1>5, <1>6, <1>9, <1>10, <1>11, TakeRefines

(***************************************************************************)
(* remove_edge.                                                            *)
(***************************************************************************)
LEMMA TakeEdgeCallRefines ==
  ASSUME graph \in Graphs, NEW e \in Edges, TakeEdgeCall(e)
  PROVE  Abstract!Next
  <1> DEFINE es == <<e>>
             ns == <<>>
  <1>1. e \in EdgeIxs(graph)
    BY DEF Edges, EdgeIxs
  <1>2. Descends(ns, 0, NodeIxs(graph)) /\ Descends(es, 1, EdgeIxs(graph))
    BY <1>1 DEF Descends
  <1>3. Loses(graph, graph', {}, {EdgePayload(graph, e)})
    BY <1>1, TakeEdgeLoses DEF TakeEdgeCall
  <1>4. /\ NodesAt(graph, ns, 0) = <<>> /\ EdgesAt(graph, es, 1) = <<EdgePayload(graph, e)>>
        /\ Among(<<>>, 0) = {} /\ Among(<<EdgePayload(graph, e)>>, 1) = {EdgePayload(graph, e)}
    BY DEF NodesAt, EdgesAt, Among
  <1>5. answer' = Answer("take", Vals(ns, es), <<<<>>, <<EdgePayload(graph, e)>>>>)
    BY DEF TakeEdgeCall, EdgeVal, EdgePayload
  <1> HIDE DEF ns, es
  <1> QED
    BY <1>2, <1>3, <1>4, <1>5, DescendingRefines

(***************************************************************************)
(* remove_node.                                                            *)
(***************************************************************************)
LEMMA TakeNodeCallRefines ==
  ASSUME graph \in Graphs, NEW n \in Nodes, TakeNodeCall(n)
  PROVE  Abstract!Next
  <1> DEFINE es == <<>>
             ns == <<n>>
  <1>1. n \in NodeIxs(graph)
    BY DEF Nodes, NodeIxs
  <1>2. Descends(ns, 1, NodeIxs(graph)) /\ Descends(es, 0, EdgeIxs(graph))
    BY <1>1 DEF Descends
  <1>3. Loses(graph, graph', {NodePayload(graph, n)}, {})
    BY <1>1, TakeNodeFacts DEF TakeNodeCall
  <1>4. /\ NodesAt(graph, ns, 1) = <<NodePayload(graph, n)>> /\ EdgesAt(graph, es, 0) = <<>>
        /\ Among(<<NodePayload(graph, n)>>, 1) = {NodePayload(graph, n)} /\ Among(<<>>, 0) = {}
    BY DEF NodesAt, EdgesAt, Among
  <1>5. answer' = Answer("take", Vals(ns, es), <<<<NodePayload(graph, n)>>, <<>>>>)
    BY DEF TakeNodeCall, NodeVal, NodePayload
  <1> HIDE DEF ns, es
  <1> QED
    BY <1>2, <1>3, <1>4, <1>5, DescendingRefines

(***************************************************************************)
(* take_nodes_edges, for a list from the highest index down.               *)
(***************************************************************************)
LEMMA TakeNodesEdgesCallRefines ==
  ASSUME graph \in Graphs, NEW ns \in Lists(Nodes), NEW es \in Lists(Edges),
         TakeNodesEdgesCall(ns, es), answer'.call # "take in another order"
  PROVE  Abstract!Next
  <1>1. /\ Nodes = NodeIxs(graph) /\ Edges = EdgeIxs(graph)
        /\ IsFiniteSet(Nodes) /\ IsFiniteSet(Edges)
    BY ObservationTypes DEF Graphs, Nodes, Edges, NodeIxs, EdgeIxs
  <1>2. PICK p \in Nat : ns \in [1..p -> Nodes]
    BY <1>1, ListElim
  <1>3. PICK q \in Nat : es \in [1..q -> Edges]
    BY <1>1, ListElim
  <1>4. PICK run \in TakeNodesEdges(graph, ns, es) :
               /\ graph' = run.g
               /\ answer' = Answer(IF Falls(ns) /\ Falls(es) THEN "take" ELSE "take in another order",
                                   Vals(ns, es), <<run.nodes, run.edges>>)
    BY DEF TakeNodesEdgesCall
  <1>5. Falls(ns) /\ Falls(es)
    BY <1>4 DEF Answer
  <1>6. Descends(ns, p, NodeIxs(graph)) /\ Descends(es, q, EdgeIxs(graph))
    BY <1>1, <1>2, <1>3, <1>5 DEF Falls, Descends
  <1>7. /\ Loses(graph, run.g, Among(NodesAt(graph, ns, p), p), Among(EdgesAt(graph, es, q), q))
        /\ run.nodes = NodesAt(graph, ns, p)
        /\ run.edges = EdgesAt(graph, es, q)
    <2>1. Served(graph, run, ns, p, es, q)
      BY <1>4, <1>6, BatchTakes
    <2> QED
      BY <2>1 DEF Served
  <1>8. Loses(graph, graph', Among(NodesAt(graph, ns, p), p), Among(EdgesAt(graph, es, q), q))
    BY <1>4, <1>7
  <1>9. answer' = Answer("take", Vals(ns, es), <<NodesAt(graph, ns, p), EdgesAt(graph, es, q)>>)
    BY <1>4, <1>5, <1>7
  <1> QED
    BY <1>6, <1>8, <1>9, DescendingRefines

(***************************************************************************)
(* Calls given one thing at a time, and batches listed from the highest    *)
(* index down, do to a hypergraph of any size what the interface promises  *)
(* and return what they were asked for, although every removal moves       *)
(* entries.                                                                *)
(***************************************************************************)
THEOREM ExactCallsImplement == Spec => ExactCallsRefine
  <1> DEFINE Does == answer'.call \notin {"take in another order", "clear"} => Abstract!Next
  <1>1. ASSUME IInv, [Next]_vars PROVE [Does]_vars
    <2>1. graph \in Graphs
      BY <1>1 DEF IInv
    <2>2. ASSUME NEW v \in NodeVals, InsertNodeCall(v) PROVE Abstract!Next
      BY <2>1, <2>2, InsertNodeCallRefines
    <2>3. ASSUME NEW v \in EdgeVals, NEW ends \in SUBSET Nodes, InsertEdgeCall(v, ends)
          PROVE  Abstract!Next
      BY <2>1, <2>3, InsertEdgeCallRefines
    <2>4. ASSUME NEW e \in Edges, TakeEdgeCall(e) PROVE Abstract!Next
      BY <2>1, <2>4, TakeEdgeCallRefines
    <2>5. ASSUME NEW n \in Nodes, TakeNodeCall(n) PROVE Abstract!Next
      BY <2>1, <2>5, TakeNodeCallRefines
    <2>6. ASSUME NEW ns \in Lists(Nodes), NEW es \in Lists(Edges), TakeNodesEdgesCall(ns, es)
          PROVE  Does
      BY <2>1, <2>6, TakeNodesEdgesCallRefines
    <2>7. ASSUME ClearCall PROVE Does
      BY <2>7 DEF ClearCall, Answer
    <2> QED
      BY <1>1, <2>2, <2>3, <2>4, <2>5, <2>6, <2>7 DEF Next
  <1>2. IInv /\ [Next]_vars => [Does]_vars
    BY <1>1
  <1>3. [][Does]_vars => ExactCallsRefine
    BY DEF ExactCallsRefine
  <1> HIDE DEF Does
  <1> QED
    BY <1>2, <1>3, InitIInv, NextIInv, PTL DEF Spec
=============================================================================
