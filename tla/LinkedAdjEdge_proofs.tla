------------------------ MODULE LinkedAdjEdge_proofs ------------------------
(***************************************************************************)
(* Theorems about LinkedAdjEdge and their proofs.                          *)
(***************************************************************************)
EXTENDS LinkedAdjEdge, Groundwork

(***************************************************************************)
(* The shape of the two collections, also while a call is under way: a     *)
(* link may then be to an edge that is no longer there.                    *)
(***************************************************************************)
NodeIndices == IF DenseNodes THEN Nat ELSE NodeVals
Slots == EdgeIndices \cup {Sentinel}

NodeEntries == [val : NodeVals, next : [Dirs -> Slots]]
EdgeEntries == [val : EdgeVals, next : [Dirs -> Slots], node : [Dirs -> NodeIndices]]

Tables == [nodes : Colls(DenseNodes, NodeIndices, NodeEntries),
           edges : Colls(DenseEdges, EdgeIndices, EdgeEntries)]

(***************************************************************************)
(* What the proofs look at in a graph.                                     *)
(***************************************************************************)
NIx(g) == DOMAIN g.nodes
EIx(g) == DOMAIN g.edges
First(g, n, d) == g.nodes[n].next[d]
Succ(g, e, d) == g.edges[e].next[d]
End(g, e, d) == g.edges[e].node[d]

(***************************************************************************)
(* There are two directions.                                               *)
(***************************************************************************)
LEMMA TwoDirs ==
  /\ OUTGOING \in Dirs /\ INCOMING \in Dirs /\ OUTGOING # INCOMING
  /\ \A d : d \in Dirs <=> d = OUTGOING \/ d = INCOMING
  /\ \A d \in Dirs : Other(d) \in Dirs /\ Other(d) # d /\ Other(Other(d)) = d
  /\ \A d, c \in Dirs : c = d \/ c = Other(d)
  BY DEF OUTGOING, INCOMING, Dirs, Other

(***************************************************************************)
(* The parts of a graph have their types.                                  *)
(***************************************************************************)
LEMMA PartTypes ==
  ASSUME NEW g \in Tables
  PROVE  /\ \A n \in NIx(g) : g.nodes[n] \in NodeEntries /\ n \in NodeIndices
         /\ \A e \in EIx(g) : g.edges[e] \in EdgeEntries /\ e \in EdgeIndices
         /\ \A n \in NIx(g), d \in Dirs : First(g, n, d) \in Slots
         /\ \A e \in EIx(g), d \in Dirs : Succ(g, e, d) \in Slots /\ End(g, e, d) \in NodeIndices
         /\ IsFiniteSet(EIx(g)) /\ Cardinality(EIx(g)) = Size(g.edges) /\ Size(g.edges) \in Nat
         /\ IsFiniteSet(NIx(g))
         /\ Sentinel \notin EIx(g)
  <1>1. /\ g.nodes \in Colls(DenseNodes, NodeIndices, NodeEntries)
        /\ g.edges \in Colls(DenseEdges, EdgeIndices, EdgeEntries)
    BY DEF Tables
  <1>2. /\ \A n \in DOMAIN g.nodes : n \in NodeIndices /\ g.nodes[n] \in NodeEntries
        /\ IsFiniteSet(DOMAIN g.nodes)
    BY <1>1, CollElim
  <1>3. /\ \A e \in DOMAIN g.edges : e \in EdgeIndices /\ g.edges[e] \in EdgeEntries
        /\ IsFiniteSet(DOMAIN g.edges) /\ Size(g.edges) \in Nat
    BY <1>1, CollElim
  <1>4. \A n \in NIx(g), d \in Dirs : First(g, n, d) \in Slots
    BY <1>2 DEF NIx, First, NodeEntries
  <1>5. \A e \in EIx(g), d \in Dirs : Succ(g, e, d) \in Slots /\ End(g, e, d) \in NodeIndices
    BY <1>3 DEF EIx, Succ, End, EdgeEntries
  <1>6. Sentinel \notin EIx(g)
    BY <1>3, SentinelAssumption DEF EIx
  <1> QED
    BY <1>2, <1>3, <1>4, <1>5, <1>6 DEF NIx, EIx, Size

(***************************************************************************)
(* A graph put together from two collections.                              *)
(***************************************************************************)
LEMMA TablesIntro ==
  ASSUME NEW N \in Colls(DenseNodes, NodeIndices, NodeEntries),
         NEW E \in Colls(DenseEdges, EdgeIndices, EdgeEntries),
         NEW g, g = [nodes |-> N, edges |-> E]
  PROVE  g \in Tables /\ g.nodes = N /\ g.edges = E
  BY DEF Tables

(***************************************************************************)
(* A graph is its two collections.                                         *)
(***************************************************************************)
LEMMA TablesElim ==
  ASSUME NEW g \in Tables
  PROVE  /\ g.nodes \in Colls(DenseNodes, NodeIndices, NodeEntries)
         /\ g.edges \in Colls(DenseEdges, EdgeIndices, EdgeEntries)
         /\ g = [nodes |-> g.nodes, edges |-> g.edges]
         /\ \A N : [g EXCEPT !.nodes = N] = [nodes |-> N, edges |-> g.edges]
         /\ \A E : [g EXCEPT !.edges = E] = [nodes |-> g.nodes, edges |-> E]
  BY DEF Tables

(***************************************************************************)
(* A link of an entry set anew.                                            *)
(***************************************************************************)
LEMMA NodeEntryLink ==
  ASSUME NEW x \in NodeEntries, NEW d \in Dirs, NEW s \in Slots
  PROVE  LET y == [x EXCEPT !.next[d] = s] IN
         /\ y \in NodeEntries
         /\ y.val = x.val
         /\ y.next[d] = s
         /\ \A c \in Dirs : c # d => y.next[c] = x.next[c]
  BY DEF NodeEntries

(***************************************************************************)
(* So with an edge.                                                        *)
(***************************************************************************)
LEMMA EdgeEntryLink ==
  ASSUME NEW x \in EdgeEntries, NEW d \in Dirs, NEW s \in Slots
  PROVE  LET y == [x EXCEPT !.next[d] = s] IN
         /\ y \in EdgeEntries
         /\ y.val = x.val
         /\ y.next[d] = s
         /\ \A c \in Dirs : c # d => y.next[c] = x.next[c]
         /\ y.node = x.node
  BY DEF EdgeEntries

-----------------------------------------------------------------------------
(***************************************************************************)
(* Setting a head pointer.                                                 *)
(***************************************************************************)
LEMMA SetFirst ==
  ASSUME NEW g \in Tables, NEW n \in NIx(g), NEW d \in Dirs, NEW s \in Slots,
         NEW h, h = [g EXCEPT !.nodes[n].next[d] = s]
  PROVE  /\ h \in Tables /\ NIx(h) = NIx(g) /\ EIx(h) = EIx(g)
         /\ h.edges = g.edges
         /\ \A m \in NIx(g) : h.nodes[m].val = g.nodes[m].val
         /\ \A m \in NIx(g), c \in Dirs :
              First(h, m, c) = IF m = n /\ c = d THEN s ELSE First(g, m, c)
         /\ \A e \in EIx(g), c \in Dirs :
              Succ(h, e, c) = Succ(g, e, c) /\ End(h, e, c) = End(g, e, c)
  <1> DEFINE y == [g.nodes[n] EXCEPT !.next[d] = s]
             N == [g.nodes EXCEPT ![n] = y]
  <1>1. h = [g EXCEPT !.nodes = N]
    BY Zenon
  <1>2. g.nodes[n] \in NodeEntries
    BY PartTypes
  <1>3. /\ y \in NodeEntries /\ y.val = g.nodes[n].val /\ y.next[d] = s
        /\ \A c \in Dirs : c # d => y.next[c] = g.nodes[n].next[c]
    BY <1>2, NodeEntryLink
  <1>4. /\ g.nodes \in Colls(DenseNodes, NodeIndices, NodeEntries)
        /\ g.edges \in Colls(DenseEdges, EdgeIndices, EdgeEntries)
        /\ h = [nodes |-> N, edges |-> g.edges]
    BY <1>1, TablesElim
  <1>5. g.nodes = [m \in DOMAIN g.nodes |-> g.nodes[m]] /\ n \in DOMAIN g.nodes
    BY <1>4, CollElim DEF NIx
  <1> HIDE DEF y
  <1>6. /\ N = [m \in DOMAIN g.nodes |-> N[m]]
        /\ \A m \in DOMAIN g.nodes : N[m] = IF m = n THEN y ELSE g.nodes[m]
    BY <1>5
  <1> HIDE DEF N
  <1>7. \A m \in DOMAIN g.nodes : N[m] \in NodeEntries
    BY <1>3, <1>6, PartTypes DEF NIx
  <1>8. N \in Colls(DenseNodes, NodeIndices, NodeEntries) /\ DOMAIN N = DOMAIN g.nodes
    BY <1>4, <1>6, <1>7, CollUpdate
  <1>9. h \in Tables /\ h.nodes = N /\ h.edges = g.edges
    BY <1>4, <1>8, TablesIntro
  <1>10. NIx(h) = NIx(g) /\ EIx(h) = EIx(g)
    BY <1>8, <1>9 DEF NIx, EIx
  <1>11. ASSUME NEW m \in NIx(g)
         PROVE  /\ h.nodes[m].val = g.nodes[m].val
                /\ \A c \in Dirs : First(h, m, c) = IF m = n /\ c = d THEN s ELSE First(g, m, c)
    <2>1. h.nodes[m] = IF m = n THEN y ELSE g.nodes[m]
      BY <1>6, <1>9 DEF NIx
    <2>2. CASE m = n
      <3>1. h.nodes[m] = y
        BY <2>1, <2>2
      <3>2. ASSUME NEW c \in Dirs
            PROVE  First(h, m, c) = IF m = n /\ c = d THEN s ELSE First(g, m, c)
        <4>1. First(h, m, c) = y.next[c]
          BY <3>1, Zenon DEF First
        <4>2. c # d => y.next[c] = First(g, m, c)
          BY <1>3, <2>2, Zenon DEF First
        <4>3. y.next[d] = s
          BY <1>3
        <4> QED
          BY <2>2, <4>1, <4>2, <4>3
      <3> QED
        BY <1>3, <2>2, <3>1, <3>2
    <2>3. CASE m # n
      <3>1. h.nodes[m] = g.nodes[m]
        BY <2>1, <2>3
      <3> QED
        BY <2>3, <3>1 DEF First
    <2> QED
      BY <2>2, <2>3
  <1>12. \A e \in EIx(g), c \in Dirs : Succ(h, e, c) = Succ(g, e, c) /\ End(h, e, c) = End(g, e, c)
    BY <1>9, Zenon DEF Succ, End
  <1> QED
    BY <1>9, <1>10, <1>11, <1>12

(***************************************************************************)
(* E is the edges of g with the link d of those in P set to s.             *)
(***************************************************************************)
Linking(g, P, d, s, E) ==
  /\ E = [p \in DOMAIN g.edges |-> E[p]]
  /\ \A p \in EIx(g) :
       /\ E[p] \in EdgeEntries /\ E[p].val = g.edges[p].val /\ E[p].node = g.edges[p].node
       /\ \A c \in Dirs : E[p].next[c] = IF p \in P /\ c = d THEN s ELSE g.edges[p].next[c]

(***************************************************************************)
(* Setting the link of some edges changes no other part of the graph ...   *)
(***************************************************************************)
LEMMA SetSuccsFrame ==
  ASSUME NEW g \in Tables, NEW P, NEW d \in Dirs, NEW s \in Slots,
         NEW E, Linking(g, P, d, s, E),
         NEW h, h = [nodes |-> g.nodes, edges |-> E]
  PROVE  /\ h \in Tables /\ NIx(h) = NIx(g) /\ EIx(h) = EIx(g)
         /\ Size(h.edges) = Size(g.edges)
         /\ h.nodes = g.nodes /\ h.edges = E
         /\ \A e \in EIx(g) : h.edges[e].val = g.edges[e].val
         /\ \A n \in NIx(g), c \in Dirs : First(h, n, c) = First(g, n, c)
  <1>1. /\ g.nodes \in Colls(DenseNodes, NodeIndices, NodeEntries)
        /\ g.edges \in Colls(DenseEdges, EdgeIndices, EdgeEntries)
    BY TablesElim
  <1>2. E = [p \in DOMAIN g.edges |-> E[p]] /\ \A p \in DOMAIN g.edges : E[p] \in EdgeEntries
    BY DEF EIx, Linking
  <1>3. /\ E \in Colls(DenseEdges, EdgeIndices, EdgeEntries) /\ DOMAIN E = DOMAIN g.edges
        /\ Size(E) = Size(g.edges)
    BY <1>1, <1>2, CollUpdate
  <1>4. h \in Tables /\ h.nodes = g.nodes /\ h.edges = E
    BY <1>1, <1>3, TablesIntro
  <1>5. NIx(h) = NIx(g) /\ EIx(h) = EIx(g) /\ Size(h.edges) = Size(g.edges)
    BY <1>3, <1>4 DEF NIx, EIx
  <1>6. \A e \in EIx(g) : h.edges[e].val = g.edges[e].val
    BY <1>4, Zenon DEF Linking
  <1>7. \A n \in NIx(g), c \in Dirs : First(h, n, c) = First(g, n, c)
    BY <1>4, Zenon DEF First
  <1> QED
    BY <1>4, <1>5, <1>6, <1>7

(***************************************************************************)
(* ... than these links.                                                   *)
(***************************************************************************)
LEMMA SetSuccs ==
  ASSUME NEW g \in Tables, NEW P, NEW d \in Dirs, NEW s \in Slots,
         NEW E, Linking(g, P, d, s, E),
         NEW h, h = [nodes |-> g.nodes, edges |-> E]
  PROVE  \A e \in EIx(g), c \in Dirs :
              /\ Succ(h, e, c) = IF e \in P /\ c = d THEN s ELSE Succ(g, e, c)
              /\ End(h, e, c) = End(g, e, c)
  <1>1. h.edges = E
    BY SetSuccsFrame
  <1>2. ASSUME NEW e \in EIx(g), NEW c \in Dirs
        PROVE  /\ Succ(h, e, c) = IF e \in P /\ c = d THEN s ELSE Succ(g, e, c)
               /\ End(h, e, c) = End(g, e, c)
    BY <1>1, Zenon DEF Succ, End, Linking
  <1> QED
    BY <1>2

(***************************************************************************)
(* What h is to g when the entry of edge e is taken and that of gone, if   *)
(* it is another, moves to its index.                                      *)
(***************************************************************************)
EdgeEntryLess(g, e, h, gone) ==
  /\ h \in Tables /\ NIx(h) = NIx(g) /\ h.nodes = g.nodes
  /\ gone \in EIx(g)
  /\ \A x : x \in EIx(h) <=> x \in EIx(g) /\ x # gone
  /\ \A x \in EIx(h) : h.edges[x] = IF x = e THEN g.edges[gone] ELSE g.edges[x]
  /\ \A n \in NIx(g), d \in Dirs : First(h, n, d) = First(g, n, d)
  /\ \A x \in EIx(h), d \in Dirs :
       /\ Succ(h, x, d) = Succ(g, IF x = e THEN gone ELSE x, d)
       /\ End(h, x, d) = End(g, IF x = e THEN gone ELSE x, d)
  /\ Size(h.edges) = Size(g.edges) - 1
  /\ Relocates(DenseEdges, g.edges, e) => gone = LastIndex(g.edges) /\ gone # e
  /\ ~Relocates(DenseEdges, g.edges, e) => gone = e

(***************************************************************************)
(* Taking the entry of an edge: the index that goes is the last one, if an *)
(* edge moves.                                                             *)
(***************************************************************************)
LEMMA EdgeEntryTaken ==
  ASSUME NEW g \in Tables, NEW e \in EIx(g),
         NEW h, h = TakeEdgeEntry(g, e), NEW gone, gone = Gone(DenseEdges, g.edges, e)
  PROVE  EdgeEntryLess(g, e, h, gone)
  <1> DEFINE E == Take(DenseEdges, g.edges, e)
  <1>1. h = [g EXCEPT !.edges = E]
    BY Zenon DEF TakeEdgeEntry
  <1>2. /\ g.nodes \in Colls(DenseNodes, NodeIndices, NodeEntries)
        /\ g.edges \in Colls(DenseEdges, EdgeIndices, EdgeEntries)
        /\ h = [nodes |-> g.nodes, edges |-> E]
    BY <1>1, TablesElim
  <1>3. e \in DOMAIN g.edges /\ DenseEdges \in BOOLEAN
    BY FamiliesAssumption DEF EIx
  <1> HIDE DEF E
  <1>4. /\ E \in Colls(DenseEdges, EdgeIndices, EdgeEntries)
        /\ gone \in DOMAIN g.edges
        /\ \A i : i \in DOMAIN E <=> i \in DOMAIN g.edges /\ i # gone
        /\ \A i \in DOMAIN E : E[i] = IF i = e THEN g.edges[gone] ELSE g.edges[i]
        /\ Size(E) = Size(g.edges) - 1
        /\ Relocates(DenseEdges, g.edges, e) => gone = LastIndex(g.edges) /\ gone # e
        /\ ~Relocates(DenseEdges, g.edges, e) => gone = e
    BY <1>2, <1>3, CollTake DEF E
  <1>5. h \in Tables /\ h.nodes = g.nodes /\ h.edges = E
    BY <1>2, <1>4, TablesIntro
  <1>6. NIx(h) = NIx(g) /\ EIx(h) = DOMAIN E /\ EIx(g) = DOMAIN g.edges
    BY <1>5 DEF NIx, EIx
  <1>7. \A x \in EIx(h) : h.edges[x] = IF x = e THEN g.edges[gone] ELSE g.edges[x]
    BY <1>4, <1>5, <1>6
  <1>8. ASSUME NEW x \in EIx(h), NEW d \in Dirs
        PROVE /\ Succ(h, x, d) = Succ(g, IF x = e THEN gone ELSE x, d)
              /\ End(h, x, d) = End(g, IF x = e THEN gone ELSE x, d)
    <2>1. h.edges[x] = g.edges[IF x = e THEN gone ELSE x]
      BY <1>7
    <2> QED
      BY <2>1, Zenon DEF Succ, End
  <1>9. \A n \in NIx(g), d \in Dirs : First(h, n, d) = First(g, n, d)
    BY <1>5, Zenon DEF First
  <1> QED
    BY <1>4, <1>5, <1>6, <1>7, <1>8, <1>9 DEF EdgeEntryLess

(***************************************************************************)
(* The same for the entry of a node.                                       *)
(***************************************************************************)
NodeEntryLess(g, n, h, gone) ==
  /\ h \in Tables /\ EIx(h) = EIx(g)
  /\ \A e \in EIx(g) : h.edges[e].val = g.edges[e].val
  /\ gone \in NIx(g)
  /\ \A x : x \in NIx(h) <=> x \in NIx(g) /\ x # gone
  /\ \A x \in NIx(h) : h.nodes[x] = IF x = n THEN g.nodes[gone] ELSE g.nodes[x]
  /\ \A x \in NIx(h), d \in Dirs : First(h, x, d) = First(g, IF x = n THEN gone ELSE x, d)
  /\ \A e \in EIx(g), d \in Dirs :
       Succ(h, e, d) = Succ(g, e, d) /\ End(h, e, d) = End(g, e, d)
  /\ Relocates(DenseNodes, g.nodes, n) => gone # n
  /\ ~Relocates(DenseNodes, g.nodes, n) => gone = n

(***************************************************************************)
(* Taking the entry of a node.                                             *)
(***************************************************************************)
LEMMA NodeEntryTaken ==
  ASSUME NEW g \in Tables, NEW n \in NIx(g),
         NEW h, h = TakeNodeEntry(g, n), NEW gone, gone = Gone(DenseNodes, g.nodes, n)
  PROVE  NodeEntryLess(g, n, h, gone)
  <1> DEFINE N == Take(DenseNodes, g.nodes, n)
  <1>1. h = [g EXCEPT !.nodes = N]
    BY Zenon DEF TakeNodeEntry
  <1>2. /\ g.nodes \in Colls(DenseNodes, NodeIndices, NodeEntries)
        /\ g.edges \in Colls(DenseEdges, EdgeIndices, EdgeEntries)
        /\ h = [nodes |-> N, edges |-> g.edges]
    BY <1>1, TablesElim
  <1>3. n \in DOMAIN g.nodes /\ DenseNodes \in BOOLEAN
    BY FamiliesAssumption DEF NIx
  <1> HIDE DEF N
  <1>4. /\ N \in Colls(DenseNodes, NodeIndices, NodeEntries)
        /\ gone \in DOMAIN g.nodes
        /\ \A i : i \in DOMAIN N <=> i \in DOMAIN g.nodes /\ i # gone
        /\ \A i \in DOMAIN N : N[i] = IF i = n THEN g.nodes[gone] ELSE g.nodes[i]
        /\ Relocates(DenseNodes, g.nodes, n) => gone # n
        /\ ~Relocates(DenseNodes, g.nodes, n) => gone = n
    BY <1>2, <1>3, CollTake DEF N
  <1>5. h \in Tables /\ h.nodes = N /\ h.edges = g.edges
    BY <1>2, <1>4, TablesIntro
  <1>6. EIx(h) = EIx(g) /\ NIx(h) = DOMAIN N /\ NIx(g) = DOMAIN g.nodes
    BY <1>5 DEF NIx, EIx
  <1>7. \A x \in NIx(h) : h.nodes[x] = IF x = n THEN g.nodes[gone] ELSE g.nodes[x]
    BY <1>4, <1>5, <1>6
  <1>8. ASSUME NEW x \in NIx(h), NEW d \in Dirs
        PROVE First(h, x, d) = First(g, IF x = n THEN gone ELSE x, d)
    <2>1. h.nodes[x] = g.nodes[IF x = n THEN gone ELSE x]
      BY <1>7
    <2> QED
      BY <2>1, Zenon DEF First
  <1>9. \A e \in EIx(g), d \in Dirs : Succ(h, e, d) = Succ(g, e, d) /\ End(h, e, d) = End(g, e, d)
    BY <1>5, Zenon DEF Succ, End
  <1>10. \A e \in EIx(g) : h.edges[e].val = g.edges[e].val
    BY <1>5, Zenon
  <1> QED
    BY <1>4, <1>5, <1>6, <1>7, <1>8, <1>9, <1>10 DEF NodeEntryLess

(***************************************************************************)
(* A new node has no edges.                                                *)
(***************************************************************************)
LEMMA NodeInserted ==
  ASSUME NEW g \in Tables, NEW v \in NodeVals, CanInsert(DenseNodes, g.nodes, v),
         NEW n, n = IndexOfNew(DenseNodes, g.nodes, v),
         NEW h, h = InsertNode(g, v)
  PROVE  /\ h \in Tables /\ EIx(h) = EIx(g) /\ h.edges = g.edges
         /\ n \notin NIx(g)
         /\ \A x : x \in NIx(h) <=> x \in NIx(g) \/ x = n
         /\ h.nodes[n].val = v
         /\ \A x \in NIx(g) : h.nodes[x] = g.nodes[x]
         /\ \A d \in Dirs : First(h, n, d) = Sentinel
         /\ \A x \in NIx(g), d \in Dirs : First(h, x, d) = First(g, x, d)
         /\ \A e \in EIx(g), d \in Dirs :
              Succ(h, e, d) = Succ(g, e, d) /\ End(h, e, d) = End(g, e, d)
  <1> DEFINE x == [val |-> v, next |-> [d \in Dirs |-> Sentinel]]
             N == Insert(DenseNodes, g.nodes, x)
  <1>1. h = [g EXCEPT !.nodes = N]
    BY Zenon DEF InsertNode
  <1>2. /\ g.nodes \in Colls(DenseNodes, NodeIndices, NodeEntries)
        /\ g.edges \in Colls(DenseEdges, EdgeIndices, EdgeEntries)
        /\ h = [nodes |-> N, edges |-> g.edges]
    BY <1>1, TablesElim
  <1>3. x.val = v /\ x \in NodeEntries /\ \A d \in Dirs : x.next[d] = Sentinel
    BY DEF NodeEntries, Slots
  <1>4. DenseNodes \in BOOLEAN
    BY FamiliesAssumption
  <1>5. n \in NodeIndices
    <2>1. Size(g.nodes) \in Nat
      BY <1>2, CollElim
    <2> QED
      BY <2>1 DEF IndexOfNew, NodeIndices
  <1> HIDE DEF N, x
  <1>6. /\ N \in Colls(DenseNodes, NodeIndices, NodeEntries)
        /\ n \notin DOMAIN g.nodes
        /\ \A i : i \in DOMAIN N <=> i \in DOMAIN g.nodes \/ i = n
        /\ N[n] = x
        /\ \A i \in DOMAIN g.nodes : N[i] = g.nodes[i]
    BY <1>2, <1>3, <1>4, <1>5, CollInsert DEF N
  <1>7. h \in Tables /\ h.nodes = N /\ h.edges = g.edges
    BY <1>2, <1>6, TablesIntro
  <1>8. EIx(h) = EIx(g) /\ NIx(h) = DOMAIN N /\ NIx(g) = DOMAIN g.nodes
    BY <1>7 DEF NIx, EIx
  <1>9. \A d \in Dirs : First(h, n, d) = Sentinel
    BY <1>3, <1>6, <1>7 DEF First
  <1>10. \A i \in NIx(g) : h.nodes[i] = g.nodes[i]
    BY <1>6, <1>7, <1>8
  <1>11. \A i \in NIx(g), d \in Dirs : First(h, i, d) = First(g, i, d)
    BY <1>10, Zenon DEF First
  <1>12. \A e \in EIx(g), d \in Dirs : Succ(h, e, d) = Succ(g, e, d) /\ End(h, e, d) = End(g, e, d)
    BY <1>7, Zenon DEF Succ, End
  <1>13. h.nodes[n].val = v
    BY <1>3, <1>6, <1>7
  <1> QED
    BY <1>6, <1>7, <1>8, <1>9, <1>10, <1>11, <1>12, <1>13

(***************************************************************************)
(* The end in direction d of an edge inserted between from and to.         *)
(***************************************************************************)
EndOfNew(from, to, d) == IF d = OUTGOING THEN from ELSE to

(***************************************************************************)
(* A new edge is the head of both its chains and goes before what was.     *)
(***************************************************************************)
LEMMA EdgeInserted ==
  ASSUME NEW g \in Tables, NEW v \in EdgeVals, NEW from \in NIx(g), NEW to \in NIx(g),
         CanInsert(DenseEdges, g.edges, v), Size(g.edges) < MaxEdges,
         NEW e, e = IndexOfNew(DenseEdges, g.edges, v),
         NEW h, h = InsertEdge(g, v, from, to)
  PROVE  /\ h \in Tables /\ NIx(h) = NIx(g)
         /\ e \notin EIx(g)
         /\ \A x : x \in EIx(h) <=> x \in EIx(g) \/ x = e
         /\ h.edges[e].val = v
         /\ \A x \in EIx(g) : h.edges[x] = g.edges[x]
         /\ \A n \in NIx(g) : h.nodes[n].val = g.nodes[n].val
         /\ \A d \in Dirs : /\ End(h, e, d) = EndOfNew(from, to, d)
                            /\ Succ(h, e, d) = First(g, EndOfNew(from, to, d), d)
         /\ \A n \in NIx(g), d \in Dirs :
              First(h, n, d) = IF n = EndOfNew(from, to, d) THEN e ELSE First(g, n, d)
         /\ \A x \in EIx(g), d \in Dirs :
              Succ(h, x, d) = Succ(g, x, d) /\ End(h, x, d) = End(g, x, d)
  <1> DEFINE node == [d \in Dirs |-> IF d = OUTGOING THEN from ELSE to]
             x    == [val  |-> v, node |-> node,
                      next |-> [d \in Dirs |-> g.nodes[node[d]].next[d]]]
             E    == Insert(DenseEdges, g.edges, x)
             h0   == [g EXCEPT !.edges = E]
             h1   == [h0 EXCEPT !.nodes[from].next[OUTGOING] = e]
             h2   == [h1 EXCEPT !.nodes[to].next[INCOMING] = e]
  <1>1. h = h2
    <2>1. h = [g EXCEPT !.edges = E, !.nodes[from].next[OUTGOING] = e,
                        !.nodes[to].next[INCOMING] = e]
      BY Zenon DEF InsertEdge
    <2> QED
      BY <2>1, Zenon
  <1>2. /\ g.nodes \in Colls(DenseNodes, NodeIndices, NodeEntries)
        /\ g.edges \in Colls(DenseEdges, EdgeIndices, EdgeEntries)
        /\ h0 = [nodes |-> g.nodes, edges |-> E]
    BY TablesElim
  <1>3. \A d \in Dirs : node[d] = EndOfNew(from, to, d) /\ node[d] \in NIx(g)
    BY DEF EndOfNew
  <1>4. /\ x.val = v /\ x \in EdgeEntries
        /\ \A d \in Dirs : x.node[d] = EndOfNew(from, to, d)
        /\ \A d \in Dirs : x.next[d] = First(g, EndOfNew(from, to, d), d)
    <2>1. node \in [Dirs -> NodeIndices]
      BY <1>3, PartTypes
    <2>2. \A d \in Dirs : g.nodes[node[d]].next[d] = First(g, EndOfNew(from, to, d), d)
      BY <1>3, Zenon DEF First
    <2>3. \A d \in Dirs : First(g, EndOfNew(from, to, d), d) \in Slots
      BY <1>3, PartTypes
    <2> HIDE DEF node
    <2>4. x.next \in [Dirs -> Slots] /\ x.node = node /\ x.val = v
      BY <2>2, <2>3
    <2>5. x \in EdgeEntries
      BY <2>1, <2>4 DEF EdgeEntries
    <2> QED
      BY <1>3, <2>2, <2>4, <2>5
  <1>5. e \in EdgeIndices
    <2>1. Size(g.edges) \in Nat
      BY <1>2, CollElim
    <2> QED
      BY <2>1, SizesAssumption DEF IndexOfNew, EdgeIndices
  <1> HIDE DEF x, node
  <1>6. /\ E \in Colls(DenseEdges, EdgeIndices, EdgeEntries)
        /\ e \notin DOMAIN g.edges
        /\ \A i : i \in DOMAIN E <=> i \in DOMAIN g.edges \/ i = e
        /\ E[e] = x
        /\ \A i \in DOMAIN g.edges : E[i] = g.edges[i]
    <2>1. DenseEdges \in BOOLEAN
      BY FamiliesAssumption
    <2> HIDE DEF E
    <2> QED
      BY <1>2, <1>4, <1>5, <2>1, CollInsert DEF E
  <1> HIDE DEF E
  <1>7. h0 \in Tables /\ h0.nodes = g.nodes /\ h0.edges = E
    BY <1>2, <1>6, TablesIntro
  <1> HIDE DEF h0
  <1>8. NIx(h0) = NIx(g) /\ EIx(h0) = DOMAIN E /\ EIx(g) = DOMAIN g.edges
    BY <1>7 DEF NIx, EIx
  <1>9. from \in NIx(h0) /\ to \in NIx(h0) /\ e \in Slots
    BY <1>5, <1>8 DEF Slots
  <1>10. \A n \in NIx(g), d \in Dirs : First(h0, n, d) = First(g, n, d)
    BY <1>7, Zenon DEF First
  <1>11. /\ h1 \in Tables /\ NIx(h1) = NIx(h0) /\ h1.edges = h0.edges
         /\ \A m \in NIx(h0) : h1.nodes[m].val = h0.nodes[m].val
         /\ \A m \in NIx(h0), c \in Dirs :
              First(h1, m, c) = IF m = from /\ c = OUTGOING THEN e ELSE First(h0, m, c)
    <2>1. h1 = [h0 EXCEPT !.nodes[from].next[OUTGOING] = e]
      OBVIOUS
    <2> HIDE DEF h1
    <2>2. OUTGOING \in Dirs
      BY TwoDirs
    <2> QED
      BY <1>7, <1>9, <2>1, <2>2, SetFirst
  <1> HIDE DEF h1
  <1>12. to \in NIx(h1)
    BY <1>9, <1>11
  <1>13. /\ h2 \in Tables /\ NIx(h2) = NIx(h1) /\ h2.edges = h1.edges
         /\ \A m \in NIx(h1) : h2.nodes[m].val = h1.nodes[m].val
         /\ \A m \in NIx(h1), c \in Dirs :
              First(h2, m, c) = IF m = to /\ c = INCOMING THEN e ELSE First(h1, m, c)
    <2>1. h2 = [h1 EXCEPT !.nodes[to].next[INCOMING] = e]
      OBVIOUS
    <2> HIDE DEF h2
    <2>2. INCOMING \in Dirs
      BY TwoDirs
    <2> QED
      BY <1>9, <1>11, <1>12, <2>1, <2>2, SetFirst
  <1> HIDE DEF h2
  <1>14. h.edges = E /\ EIx(h) = DOMAIN E /\ NIx(h) = NIx(g) /\ h \in Tables
    BY <1>1, <1>7, <1>8, <1>11, <1>13 DEF EIx
  <1>15. ASSUME NEW n \in NIx(g), NEW d \in Dirs
         PROVE  First(h, n, d) = IF n = EndOfNew(from, to, d) THEN e ELSE First(g, n, d)
    BY <1>1, <1>8, <1>10, <1>11, <1>13, TwoDirs DEF EndOfNew
  <1>16. \A n \in NIx(g) : h.nodes[n].val = g.nodes[n].val
    BY <1>1, <1>7, <1>8, <1>11, <1>13
  <1>17. \A i \in EIx(g) : h.edges[i] = g.edges[i]
    BY <1>6, <1>8, <1>14
  <1>18. \A i \in EIx(g), d \in Dirs : Succ(h, i, d) = Succ(g, i, d) /\ End(h, i, d) = End(g, i, d)
    BY <1>17, Zenon DEF Succ, End
  <1>19. h.edges[e] = x
    BY <1>6, <1>14
  <1>20. \A d \in Dirs : /\ End(h, e, d) = EndOfNew(from, to, d)
                         /\ Succ(h, e, d) = First(g, EndOfNew(from, to, d), d)
    BY <1>4, <1>19 DEF End, Succ
  <1>21. h.edges[e].val = v
    BY <1>4, <1>19
  <1> QED
    BY <1>6, <1>8, <1>14, <1>15, <1>16, <1>17, <1>18, <1>20, <1>21

(***************************************************************************)
(* Reversal exchanges the directions.                                      *)
(***************************************************************************)
LEMMA EdgesReversed ==
  ASSUME NEW g \in Tables, NEW h, h = ReverseEdges(g)
  PROVE  /\ h \in Tables /\ NIx(h) = NIx(g) /\ EIx(h) = EIx(g)
         /\ \A n \in NIx(g) : h.nodes[n].val = g.nodes[n].val
         /\ \A e \in EIx(g) : h.edges[e].val = g.edges[e].val
         /\ \A n \in NIx(g), d \in Dirs : First(h, n, d) = First(g, n, Other(d))
         /\ \A e \in EIx(g), d \in Dirs :
              Succ(h, e, d) = Succ(g, e, Other(d)) /\ End(h, e, d) = End(g, e, Other(d))
  <1> DEFINE N == [n \in DOMAIN g.nodes |-> [g.nodes[n] EXCEPT !.next = Swapped(g.nodes[n].next)]]
             E == [e \in DOMAIN g.edges |-> [g.edges[e] EXCEPT !.next = Swapped(g.edges[e].next),
                                                               !.node = Swapped(g.edges[e].node)]]
  <1>1. h = [nodes |-> N, edges |-> E]
    BY Zenon DEF ReverseEdges
  <1>2. /\ g.nodes \in Colls(DenseNodes, NodeIndices, NodeEntries)
        /\ g.edges \in Colls(DenseEdges, EdgeIndices, EdgeEntries)
    BY TablesElim
  <1>3. \A S : \A p \in [Dirs -> S] : /\ Swapped(p) \in [Dirs -> S]
                                      /\ \A d \in Dirs : Swapped(p)[d] = p[Other(d)]
    BY TwoDirs DEF Swapped
  <1>4. ASSUME NEW n \in DOMAIN g.nodes
        PROVE  /\ N[n] \in NodeEntries /\ N[n].val = g.nodes[n].val
               /\ \A d \in Dirs : N[n].next[d] = g.nodes[n].next[Other(d)]
    <2> DEFINE x == g.nodes[n]
    <2>1. x \in [val : NodeVals, next : [Dirs -> Slots]]
      BY PartTypes DEF NIx, NodeEntries
    <2>2. N[n] = [x EXCEPT !.next = Swapped(x.next)]
      OBVIOUS
    <2>3. /\ Swapped(x.next) \in [Dirs -> Slots]
          /\ \A d \in Dirs : Swapped(x.next)[d] = x.next[Other(d)]
      BY <1>3, <2>1
    <2> HIDE DEF N, x
    <2>4. N[n] \in NodeEntries /\ N[n].val = x.val /\ N[n].next = Swapped(x.next)
      BY <2>1, <2>2, <2>3 DEF NodeEntries
    <2> QED
      BY <2>3, <2>4 DEF x
  <1>5. ASSUME NEW e \in DOMAIN g.edges
        PROVE  /\ E[e] \in EdgeEntries /\ E[e].val = g.edges[e].val
               /\ \A d \in Dirs : /\ E[e].next[d] = g.edges[e].next[Other(d)]
                                  /\ E[e].node[d] = g.edges[e].node[Other(d)]
    <2> DEFINE x == g.edges[e]
    <2>1. x \in [val : EdgeVals, next : [Dirs -> Slots], node : [Dirs -> NodeIndices]]
      BY PartTypes DEF EIx, EdgeEntries
    <2>2. E[e] = [x EXCEPT !.next = Swapped(x.next), !.node = Swapped(x.node)]
      OBVIOUS
    <2>3. /\ Swapped(x.next) \in [Dirs -> Slots]
          /\ \A d \in Dirs : Swapped(x.next)[d] = x.next[Other(d)]
          /\ Swapped(x.node) \in [Dirs -> NodeIndices]
          /\ \A d \in Dirs : Swapped(x.node)[d] = x.node[Other(d)]
      BY <1>3, <2>1
    <2> HIDE DEF E, x
    <2>4. /\ E[e] \in EdgeEntries /\ E[e].val = x.val
          /\ E[e].next = Swapped(x.next) /\ E[e].node = Swapped(x.node)
      BY <2>1, <2>2, <2>3 DEF EdgeEntries
    <2> QED
      BY <2>3, <2>4 DEF x
  <1>6. N = [n \in DOMAIN g.nodes |-> N[n]] /\ E = [e \in DOMAIN g.edges |-> E[e]]
    OBVIOUS
  <1> HIDE DEF N, E
  <1>7. /\ N \in Colls(DenseNodes, NodeIndices, NodeEntries) /\ DOMAIN N = DOMAIN g.nodes
        /\ E \in Colls(DenseEdges, EdgeIndices, EdgeEntries) /\ DOMAIN E = DOMAIN g.edges
    BY <1>2, <1>4, <1>5, <1>6, CollUpdate
  <1>8. h \in Tables /\ h.nodes = N /\ h.edges = E
    BY <1>1, <1>7, TablesIntro
  <1>9. NIx(h) = NIx(g) /\ EIx(h) = EIx(g)
    BY <1>7, <1>8 DEF NIx, EIx
  <1>10. \A n \in NIx(g) : /\ h.nodes[n].val = g.nodes[n].val
                           /\ \A d \in Dirs : First(h, n, d) = First(g, n, Other(d))
    BY <1>4, <1>8 DEF First, NIx
  <1>11. \A e \in EIx(g) : /\ h.edges[e].val = g.edges[e].val
                           /\ \A d \in Dirs : /\ Succ(h, e, d) = Succ(g, e, Other(d))
                                              /\ End(h, e, d) = End(g, e, Other(d))
    BY <1>5, <1>8 DEF Succ, End, EIx
  <1> QED
    BY <1>8, <1>9, <1>10, <1>11

(***************************************************************************)
(* The edges on the chains of a node get it for an end.                    *)
(***************************************************************************)
LEMMA EdgesReattached ==
  ASSUME NEW g \in Tables, NEW n \in NIx(g), NEW h, h = Reattach(g, n)
  PROVE  /\ h \in Tables /\ NIx(h) = NIx(g) /\ EIx(h) = EIx(g) /\ h.nodes = g.nodes
         /\ \A e \in EIx(g) : h.edges[e].val = g.edges[e].val
         /\ \A x \in NIx(g), d \in Dirs : First(h, x, d) = First(g, x, d)
         /\ \A e \in EIx(g), d \in Dirs :
              /\ Succ(h, e, d) = Succ(g, e, d)
              /\ End(h, e, d) = IF e \in ToSet(Chain(g, n, d)) THEN n ELSE End(g, e, d)
  <1> DEFINE on == [d \in Dirs |-> ToSet(Chain(g, n, d))]
             ends(e) == [d \in Dirs |-> IF e \in on[d] THEN n ELSE g.edges[e].node[d]]
             E == [e \in DOMAIN g.edges |-> [g.edges[e] EXCEPT !.node = ends(e)]]
  <1>1. h = [g EXCEPT !.edges = E]
    BY Zenon DEF Reattach
  <1>2. /\ g.nodes \in Colls(DenseNodes, NodeIndices, NodeEntries)
        /\ g.edges \in Colls(DenseEdges, EdgeIndices, EdgeEntries)
        /\ h = [nodes |-> g.nodes, edges |-> E]
    BY <1>1, TablesElim
  <1>3. \A d \in Dirs : on[d] = ToSet(Chain(g, n, d))
    OBVIOUS
  <1> HIDE DEF on
  <1>4. n \in NodeIndices
    BY PartTypes
  <1>5. ASSUME NEW e \in DOMAIN g.edges
        PROVE  /\ E[e] \in EdgeEntries /\ E[e].val = g.edges[e].val
               /\ E[e].next = g.edges[e].next
               /\ \A d \in Dirs :
                    E[e].node[d] = IF e \in ToSet(Chain(g, n, d)) THEN n ELSE g.edges[e].node[d]
    <2> DEFINE x == g.edges[e]
    <2>1. x \in [val : EdgeVals, next : [Dirs -> Slots], node : [Dirs -> NodeIndices]]
      BY PartTypes DEF EIx, EdgeEntries
    <2>2. E[e] = [x EXCEPT !.node = ends(e)]
      OBVIOUS
    <2>3. /\ ends(e) \in [Dirs -> NodeIndices]
          /\ \A d \in Dirs : ends(e)[d] = IF e \in ToSet(Chain(g, n, d)) THEN n ELSE g.edges[e].node[d]
      <3>1. \A d \in Dirs : g.edges[e].node[d] \in NodeIndices
        BY <2>1
      <3> HIDE DEF x, E
      <3> QED
        BY <1>3, <1>4, <3>1
    <2> HIDE DEF E, x, ends
    <2>4. E[e] \in EdgeEntries /\ E[e].val = x.val /\ E[e].next = x.next /\ E[e].node = ends(e)
      BY <2>1, <2>2, <2>3 DEF EdgeEntries
    <2> QED
      BY <2>3, <2>4 DEF x
  <1>6. E = [e \in DOMAIN g.edges |-> E[e]]
    OBVIOUS
  <1> HIDE DEF E
  <1>7. E \in Colls(DenseEdges, EdgeIndices, EdgeEntries) /\ DOMAIN E = DOMAIN g.edges
    BY <1>2, <1>5, <1>6, CollUpdate
  <1>8. h \in Tables /\ h.nodes = g.nodes /\ h.edges = E
    BY <1>2, <1>7, TablesIntro
  <1>9. NIx(h) = NIx(g) /\ EIx(h) = EIx(g)
    BY <1>7, <1>8 DEF NIx, EIx
  <1>10. \A x \in NIx(g), d \in Dirs : First(h, x, d) = First(g, x, d)
    BY <1>8, Zenon DEF First
  <1>11. \A e \in EIx(g) :
           /\ h.edges[e].val = g.edges[e].val
           /\ \A d \in Dirs :
                /\ Succ(h, e, d) = Succ(g, e, d)
                /\ End(h, e, d) = IF e \in ToSet(Chain(g, n, d)) THEN n ELSE End(g, e, d)
    BY <1>5, <1>8 DEF Succ, End, EIx
  <1> QED
    BY <1>8, <1>9, <1>10, <1>11

-----------------------------------------------------------------------------
(***************************************************************************)
(* The walk along a chain.                                                 *)
(***************************************************************************)
LEMMA LinksUnfold ==
  ASSUME NEW g \in Tables, NEW n \in NIx(g), NEW d \in Dirs
  PROVE  /\ DOMAIN Links(g, n, d) = 0..Size(g.edges)
         /\ Links(g, n, d)[0] = First(g, n, d)
         /\ \A k \in 1..Size(g.edges) :
              Links(g, n, d)[k] = IF Links(g, n, d)[k - 1] \in EIx(g)
                                    THEN Succ(g, Links(g, n, d)[k - 1], d)
                                    ELSE Sentinel
  <1> DEFINE m     == Size(g.edges)
             After(x) == IF x \in DOMAIN g.edges THEN g.edges[x].next[d] ELSE Sentinel
             slot  == CHOOSE f : f = [k \in 0..m |-> IF k = 0 THEN g.nodes[n].next[d]
                                                     ELSE IF f[k - 1] \in DOMAIN g.edges
                                                            THEN g.edges[f[k - 1]].next[d]
                                                            ELSE Sentinel]
             In    == [k \in 0..m |-> Slots]
             step  == [k \in 1..m |-> [x \in Slots |-> After(x)]]
  <1> HIDE DEF m, In, step, slot
  <1>1. Links(g, n, d) = slot
    BY Zenon DEF Links, slot, m
  <1>2. m \in Nat
    BY PartTypes DEF m
  <1>3. \A k \in 0..m : In[k] = Slots
    BY DEF In
  <1>4. \A x \in Slots : After(x) \in Slots
    BY PartTypes DEF Succ, EIx, Slots
  <1>5. \A k \in 1..m : \A x \in Slots : step[k][x] = After(x)
    BY DEF step
  <1> HIDE DEF After
  <1>6. PICK f : Iterates(f, m, In, First(g, n, d), step)
    <2>1. First(g, n, d) \in In[0]
      BY <1>2, <1>3, PartTypes
    <2>2. \A k \in 1..m : \A x \in In[k - 1] : step[k][x] \in In[k]
      BY <1>2, <1>3, <1>4, <1>5
    <2> QED
      BY <1>2, <2>1, <2>2, IterationExists
  <1>7. f = [k \in 0..m |-> IF k = 0 THEN First(g, n, d) ELSE After(f[k - 1])]
    <2>1. ASSUME NEW k \in 0..m
          PROVE  f[k] = IF k = 0 THEN First(g, n, d) ELSE After(f[k - 1])
      <3>1. CASE k = 0
        BY <1>6, <3>1 DEF Iterates
      <3>2. CASE k # 0
        <4>1. k \in 1..m /\ k - 1 \in 0..m
          BY <1>2, <3>2
        <4> QED
          BY <1>3, <1>5, <1>6, <3>2, <4>1 DEF Iterates
      <3> QED
        BY <3>1, <3>2
    <2> QED
      BY <1>6, <2>1 DEF Iterates
  <1>8. f = [k \in 0..m |-> IF k = 0 THEN g.nodes[n].next[d]
                            ELSE IF f[k - 1] \in DOMAIN g.edges
                                   THEN g.edges[f[k - 1]].next[d]
                                   ELSE Sentinel]
    BY <1>7, Zenon DEF First, After
  <1>9. slot = [k \in 0..m |-> IF k = 0 THEN g.nodes[n].next[d]
                               ELSE IF slot[k - 1] \in DOMAIN g.edges
                                      THEN g.edges[slot[k - 1]].next[d]
                                      ELSE Sentinel]
    BY <1>8, Zenon DEF slot
  <1>10. slot = [k \in 0..m |-> IF k = 0 THEN First(g, n, d) ELSE After(slot[k - 1])]
    BY <1>9, Zenon DEF First, After
  <1>11. /\ DOMAIN slot = 0..m /\ slot[0] = First(g, n, d)
         /\ \A k \in 1..m : slot[k] = After(slot[k - 1])
    BY <1>2, <1>10
  <1>12. \A x : After(x) = IF x \in EIx(g) THEN Succ(g, x, d) ELSE Sentinel
    BY Zenon DEF After, EIx, Succ
  <1> QED
    BY <1>1, <1>11, <1>12 DEF m

(***************************************************************************)
(* From the head pointer of n down, chain d goes through the elements of B *)
(* in the order of their ranks, to the lowest of them, t.                  *)
(***************************************************************************)
Descends(g, n, d, B, t, r) ==
  /\ t \in B
  /\ \A x \in B : r[x] \in Int /\ r[t] <= r[x]
  /\ \A x, y \in B : r[x] = r[y] => x = y
  /\ \A x \in B : x # t => x \in EIx(g)
  /\ First(g, n, d) \in B /\ \A x \in B : r[x] <= r[First(g, n, d)]
  /\ \A x \in B : x # t =>
       /\ Succ(g, x, d) \in B /\ r[Succ(g, x, d)] < r[x]
       /\ \A y \in B : r[y] < r[x] => r[y] <= r[Succ(g, x, d)]

(***************************************************************************)
(* The walk then meets just these elements, in this order.                 *)
(***************************************************************************)
LEMMA WalkDescends ==
  ASSUME NEW g \in Tables, NEW n \in NIx(g), NEW d \in Dirs,
         NEW B, NEW t, NEW r, Descends(g, n, d, B, t, r)
  PROVE  \E m \in 0..Size(g.edges) : \E q :
           /\ Falling(q, m, B, r)
           /\ q[m] = t
           /\ \A k \in 0..m : Links(g, n, d)[k] = q[k]
  <1>1. IsFiniteSet(B) /\ B # {} /\ Cardinality(B) <= Size(g.edges) + 1
    <2>1. B \ {t} \subseteq EIx(g) /\ t \in B
      BY DEF Descends
    <2>2. /\ IsFiniteSet(B \ {t}) /\ Cardinality(B \ {t}) <= Size(g.edges)
          /\ Cardinality(B \ {t}) \in Nat /\ Size(g.edges) \in Nat
      BY <2>1, PartTypes, FS_Subset, FS_CardinalityType
    <2>3. /\ IsFiniteSet((B \ {t}) \cup {t})
          /\ Cardinality((B \ {t}) \cup {t}) = Cardinality(B \ {t}) + 1
      BY <2>2, FS_AddElement
    <2>4. (B \ {t}) \cup {t} = B
      BY <2>1
    <2> QED
      BY <2>1, <2>2, <2>3, <2>4
  <1>2. PICK m \in Nat : m + 1 <= Cardinality(B) /\ \E q : Falling(q, m, B, r)
    <2>1. (\A x \in B : r[x] \in Int) /\ \A x, y \in B : r[x] = r[y] => x = y
      BY DEF Descends
    <2> QED
      BY <1>1, <2>1, FallingExists
  <1>3. PICK q : Falling(q, m, B, r)
    BY <1>2
  <1>4. /\ \A k \in 0..m : q[k] \in B
        /\ \A i, j \in 0..m : i < j => r[q[j]] < r[q[i]]
        /\ \A x \in B : \E k \in 0..m : q[k] = x
    BY <1>3 DEF Falling
  <1>0. Size(g.edges) \in Nat
    BY PartTypes
  <1>5. m \in 0..Size(g.edges)
    BY <1>0, <1>1, <1>2, FS_CardinalityType
  <1>6. q[m] = t
    <2>1. PICK k \in 0..m : q[k] = t
      BY <1>4 DEF Descends
    <2>2. m \in 0..m
      BY <1>2
    <2>3. r[t] <= r[q[m]] /\ r[t] \in Int /\ r[q[m]] \in Int
      BY <1>4, <2>2 DEF Descends
    <2>4. ~(k < m)
      BY <1>4, <2>1, <2>2, <2>3
    <2> QED
      BY <1>2, <2>1, <2>4
  <1>7. \A k \in 0..m : k \in 0..Size(g.edges)
    BY <1>0, <1>5
  <1>8. Links(g, n, d)[0] = q[0]
    <2>1. 0 \in 0..m
      BY <1>2
    <2>2. First(g, n, d) \in B /\ \A x \in B : r[x] <= r[First(g, n, d)]
      BY DEF Descends
    <2>3. PICK k \in 0..m : q[k] = First(g, n, d)
      BY <1>4, <2>2
    <2>4. ~(0 < k)
      <3>1. r[q[0]] <= r[q[k]] /\ r[q[0]] \in Int /\ r[q[k]] \in Int
        BY <1>4, <2>1, <2>2, <2>3 DEF Descends
      <3> QED
        BY <1>4, <2>1, <3>1
    <2>5. k = 0
      BY <1>2, <2>4
    <2> QED
      BY <2>3, <2>5, LinksUnfold
  <1>9. ASSUME NEW k \in 1..m, Links(g, n, d)[k - 1] = q[k - 1]
        PROVE  Links(g, n, d)[k] = q[k]
    <2> DEFINE x == q[k - 1]
               y == Succ(g, q[k - 1], d)
    <2>1. k - 1 \in 0..m /\ k \in 0..m /\ k - 1 < k /\ k \in 1..Size(g.edges) /\ k - 1 # m
      BY <1>0, <1>2, <1>5
    <2>2. x \in B /\ q[k] \in B /\ r[q[k]] < r[x]
      BY <1>4, <2>1
    <2>3. x # t
      <3>1. r[t] <= r[q[k]] /\ r[t] \in Int /\ r[q[k]] \in Int
        BY <2>2 DEF Descends
      <3> QED
        BY <2>2, <3>1
    <2>4. x \in EIx(g) /\ y \in B /\ r[y] < r[x] /\ \A z \in B : r[z] < r[x] => r[z] <= r[y]
      BY <2>2, <2>3 DEF Descends
    <2>5. Links(g, n, d)[k] = y
      BY <1>9, <2>1, <2>4, LinksUnfold
    <2>6. r[q[k]] <= r[y]
      BY <2>2, <2>4
    <2>7. PICK j \in 0..m : q[j] = y
      BY <1>4, <2>4
    <2>8. r[q[k]] \in Int /\ r[y] \in Int /\ r[x] \in Int
      BY <2>2, <2>4 DEF Descends
    <2>9. ~(k < j)
      BY <1>4, <2>1, <2>6, <2>7, <2>8
    <2>10. ~(j < k - 1) /\ j # k - 1
      BY <1>4, <2>1, <2>4, <2>7, <2>8
    <2>11. j = k
      BY <1>2, <2>9, <2>10
    <2> QED
      BY <2>5, <2>7, <2>11
  <1>10. \A k \in 0..m : Links(g, n, d)[k] = q[k]
    <2> DEFINE S == {k \in 0..m : Links(g, n, d)[k] = q[k]}
    <2>1. 0 \in S
      BY <1>2, <1>8
    <2>2. \A k \in 1..m : k - 1 \in S => k \in S
      BY <1>9
    <2>3. \A k \in 0..m : k \in S
      <3> HIDE DEF S
      <3> QED
        BY <1>2, <2>1, <2>2, RoundInduction
    <2> QED
      BY <2>3
  <1> QED
    BY <1>3, <1>5, <1>6, <1>10

(***************************************************************************)
(* replace_in_list on a pointer that is the only one to its target and is  *)
(* met on the walk: every pointer to the target is redirected.             *)
(***************************************************************************)
LEMMA Redirected ==
  ASSUME NEW g \in Tables, NEW n \in NIx(g), NEW d \in Dirs, NEW target, NEW new \in Slots,
         \A m \in NIx(g) : First(g, m, d) = target => m = n,
         First(g, n, d) = target => \A p \in EIx(g) : Succ(g, p, d) # target,
         \A p \in EIx(g) : Succ(g, p, d) = target =>
            \E k \in 0..Size(g.edges) : Links(g, n, d)[k] = p,
         NEW h, h = ReplaceInList(g, n, d, target, new)
  PROVE  /\ h \in Tables /\ NIx(h) = NIx(g) /\ EIx(h) = EIx(g) /\ Size(h.edges) = Size(g.edges)
         /\ \A m \in NIx(g) : h.nodes[m].val = g.nodes[m].val
         /\ \A e \in EIx(g) : h.edges[e].val = g.edges[e].val
         /\ \A m \in NIx(g), c \in Dirs :
              First(h, m, c) = IF c = d /\ First(g, m, c) = target THEN new ELSE First(g, m, c)
         /\ \A e \in EIx(g), c \in Dirs :
              /\ Succ(h, e, c) = IF c = d /\ Succ(g, e, c) = target THEN new ELSE Succ(g, e, c)
              /\ End(h, e, c) = End(g, e, c)
  <1> DEFINE slot == Links(g, n, d)
             IsPred(p) == /\ g.edges[p].next[d] = target
                          /\ \E k \in DOMAIN slot : slot[k] = p
             P == {p \in EIx(g) : Succ(g, p, d) = target}
             F(p) == [g.edges[p] EXCEPT !.next[d] = new]
  <1>1. slot[0] = First(g, n, d) /\ DOMAIN slot = 0..Size(g.edges)
    BY LinksUnfold
  <1>2. \A p \in DOMAIN g.edges : IsPred(p) <=> p \in P
    <2>1. \A p \in DOMAIN g.edges : IsPred(p) <=> /\ Succ(g, p, d) = target
                                                  /\ \E k \in DOMAIN slot : slot[k] = p
      BY Zenon DEF Succ
    <2> HIDE DEF IsPred, slot
    <2> QED
      BY <1>1, <2>1 DEF EIx, slot
  <1>3. CASE First(g, n, d) = target
    <2>1. h = [g EXCEPT !.nodes[n].next[d] = new]
      BY <1>1, <1>3, Zenon DEF ReplaceInList
    <2>2. /\ h \in Tables /\ NIx(h) = NIx(g) /\ EIx(h) = EIx(g)
          /\ h.edges = g.edges
          /\ \A m \in NIx(g) : h.nodes[m].val = g.nodes[m].val
          /\ \A m \in NIx(g), c \in Dirs :
               First(h, m, c) = IF m = n /\ c = d THEN new ELSE First(g, m, c)
          /\ \A e \in EIx(g), c \in Dirs :
               Succ(h, e, c) = Succ(g, e, c) /\ End(h, e, c) = End(g, e, c)
      BY <2>1, SetFirst
    <2>3. \A m \in NIx(g), c \in Dirs :
            First(h, m, c) = IF c = d /\ First(g, m, c) = target THEN new ELSE First(g, m, c)
      BY <1>3, <2>2
    <2>4. \A e \in EIx(g), c \in Dirs :
            Succ(h, e, c) = IF c = d /\ Succ(g, e, c) = target THEN new ELSE Succ(g, e, c)
      BY <1>3, <2>2
    <2>5. Size(h.edges) = Size(g.edges) /\ \A e \in EIx(g) : h.edges[e].val = g.edges[e].val
      BY <2>2, Zenon
    <2> HIDE DEF slot, IsPred, P, F
    <2> QED
      BY <2>2, <2>3, <2>4, <2>5, Zenon
  <1>4. CASE First(g, n, d) # target
    <2> DEFINE E == [p \in DOMAIN g.edges |-> IF IsPred(p) THEN F(p) ELSE g.edges[p]]
    <2>1. h = [g EXCEPT !.edges = E]
      BY <1>1, <1>4, Zenon DEF ReplaceInList
    <2> HIDE DEF IsPred, P, slot
    <2>2. /\ E = [p \in DOMAIN g.edges |-> E[p]]
          /\ \A p \in DOMAIN g.edges : E[p] = IF p \in P THEN F(p) ELSE g.edges[p]
      <3> HIDE DEF F
      <3> QED
        BY <1>2
    <2> HIDE DEF E
    <2>3. ASSUME NEW p \in EIx(g)
          PROVE  /\ E[p] \in EdgeEntries /\ E[p].val = g.edges[p].val
                 /\ E[p].node = g.edges[p].node
                 /\ \A c \in Dirs :
                      E[p].next[c] = IF p \in P /\ c = d THEN new ELSE g.edges[p].next[c]
      <3>1. g.edges[p] \in EdgeEntries /\ p \in DOMAIN g.edges
        BY PartTypes DEF EIx
      <3>2. CASE p \in P
        <4>1. E[p] = F(p)
          BY <2>2, <3>1, <3>2
        <4>2. /\ F(p) \in EdgeEntries /\ F(p).val = g.edges[p].val /\ F(p).next[d] = new
              /\ \A c \in Dirs : c # d => F(p).next[c] = g.edges[p].next[c]
              /\ F(p).node = g.edges[p].node
          BY <3>1, EdgeEntryLink
        <4> HIDE DEF F
        <4> QED
          BY <3>2, <4>1, <4>2
      <3>3. CASE p \notin P
        <4>1. E[p] = g.edges[p]
          BY <2>2, <3>1, <3>3
        <4> QED
          BY <3>1, <3>3, <4>1
      <3> QED
        BY <3>2, <3>3
    <2> HIDE DEF F
    <2>4. Linking(g, P, d, new, E)
      BY <2>2, <2>3, Zenon DEF Linking
    <2>11. h = [nodes |-> g.nodes, edges |-> E]
      BY <2>1, TablesElim
    <2>5. /\ h \in Tables /\ NIx(h) = NIx(g) /\ EIx(h) = EIx(g)
          /\ Size(h.edges) = Size(g.edges)
          /\ h.nodes = g.nodes
          /\ \A e \in EIx(g) : h.edges[e].val = g.edges[e].val
          /\ \A m \in NIx(g), c \in Dirs : First(h, m, c) = First(g, m, c)
      BY <2>4, <2>11, SetSuccsFrame
    <2>10. \A e \in EIx(g), c \in Dirs :
             /\ Succ(h, e, c) = IF e \in P /\ c = d THEN new ELSE Succ(g, e, c)
             /\ End(h, e, c) = End(g, e, c)
      BY <2>4, <2>11, SetSuccs
    <2>6. \A m \in NIx(g) : First(g, m, d) # target
      BY <1>4
    <2>7. \A m \in NIx(g), c \in Dirs :
            First(h, m, c) = IF c = d /\ First(g, m, c) = target THEN new ELSE First(g, m, c)
      BY <2>5, <2>6
    <2>8. \A e \in EIx(g), c \in Dirs :
            Succ(h, e, c) = IF c = d /\ Succ(g, e, c) = target THEN new ELSE Succ(g, e, c)
      <3>1. \A e \in EIx(g) : e \in P <=> Succ(g, e, d) = target
        BY DEF P
      <3>2. ASSUME NEW e \in EIx(g), NEW c \in Dirs
            PROVE  Succ(h, e, c) = IF c = d /\ Succ(g, e, c) = target THEN new ELSE Succ(g, e, c)
        <4>1. Succ(h, e, c) = IF e \in P /\ c = d THEN new ELSE Succ(g, e, c)
          BY <2>10
        <4>2. CASE c = d
          BY <3>1, <4>1, <4>2
        <4>3. CASE c # d
          BY <4>1, <4>3
        <4> QED
          BY <4>2, <4>3
      <3> QED
        BY <3>2
    <2>9. \A m \in NIx(g) : h.nodes[m].val = g.nodes[m].val
      BY <2>5, Zenon
    <2> QED
      BY <2>5, <2>7, <2>8, <2>9, <2>10, Zenon
  <1> QED
    BY <1>3, <1>4

-----------------------------------------------------------------------------
(***************************************************************************)
(* The invariant of a chain.  The edges of S are threaded in direction d,  *)
(* each through the chain of its end: r ranks them by age, and a chain     *)
(* goes from the youngest of its edges to the next younger one at a time.  *)
(* The sentinel counts as older than all of them.                          *)
(***************************************************************************)
Threads(g, d, S, r) ==
  /\ \A x \in S \cup {Sentinel} : r[x] \in Int
  /\ \A x, y \in S : r[x] = r[y] => x = y
  /\ \A x \in S : r[Sentinel] < r[x]
  /\ \A x \in S : End(g, x, d) \in NIx(g)
  /\ \A n \in NIx(g) :
       /\ First(g, n, d) \in S \cup {Sentinel}
       /\ First(g, n, d) \in S => End(g, First(g, n, d), d) = n
       /\ \A x \in S : End(g, x, d) = n => r[x] <= r[First(g, n, d)]
  /\ \A e \in S :
       /\ Succ(g, e, d) \in S \cup {Sentinel}
       /\ Succ(g, e, d) \in S => End(g, Succ(g, e, d), d) = End(g, e, d)
       /\ r[Succ(g, e, d)] < r[e]
       /\ \A x \in S : End(g, x, d) = End(g, e, d) /\ r[x] < r[e] => r[x] <= r[Succ(g, e, d)]

(***************************************************************************)
(* It is about the pointers and ends in that direction only.               *)
(***************************************************************************)
LEMMA ThreadsCopied ==
  ASSUME NEW g, NEW h, NEW d, NEW S, NEW r, Threads(g, d, S, r),
         NIx(h) = NIx(g),
         \A n \in NIx(g) : First(h, n, d) = First(g, n, d),
         \A e \in S : Succ(h, e, d) = Succ(g, e, d) /\ End(h, e, d) = End(g, e, d)
  PROVE  Threads(h, d, S, r)
  BY DEF Threads

(***************************************************************************)
(* The edges of S that end at n in direction d.                            *)
(***************************************************************************)
At(g, n, d, S) == {x \in S : End(g, x, d) = n}

(***************************************************************************)
(* The walk from a node goes through the edges at it.                      *)
(***************************************************************************)
LEMMA ThreadsDescend ==
  ASSUME NEW g, NEW n \in NIx(g), NEW d \in Dirs, NEW S, NEW r,
         Threads(g, d, S, r), S \subseteq EIx(g)
  PROVE  Descends(g, n, d, At(g, n, d, S) \cup {Sentinel}, Sentinel, r)
  <1> DEFINE B == At(g, n, d, S) \cup {Sentinel}
  <1>1. \A x : x \in B <=> x = Sentinel \/ (x \in S /\ End(g, x, d) = n)
    BY DEF At
  <1> HIDE DEF B
  <1>2. /\ Sentinel \in B
        /\ \A x \in B : r[x] \in Int /\ r[Sentinel] <= r[x]
        /\ \A x \in B : x # Sentinel => x \in EIx(g)
    BY <1>1 DEF Threads
  <1>3. \A x, y \in B : r[x] = r[y] => x = y
    <2>1. ASSUME NEW x \in B, NEW y \in B, r[x] = r[y] PROVE x = y
      <3>1. CASE x \in S /\ y \in S
        BY <2>1, <3>1 DEF Threads
      <3>2. CASE x = Sentinel /\ y \in S
        BY <2>1, <3>2 DEF Threads
      <3>3. CASE x \in S /\ y = Sentinel
        BY <2>1, <3>3 DEF Threads
      <3>4. CASE x = Sentinel /\ y = Sentinel
        BY <3>4
      <3> QED
        BY <1>1, <3>1, <3>2, <3>3, <3>4
    <2> QED
      BY <2>1
  <1>4. First(g, n, d) \in B
    BY <1>1 DEF Threads
  <1>5. \A x \in B : r[x] <= r[First(g, n, d)]
    <2>1. ASSUME NEW x \in B PROVE r[x] <= r[First(g, n, d)]
      <3>1. CASE x = Sentinel
        BY <1>2, <1>4, <3>1
      <3>2. CASE x \in S /\ End(g, x, d) = n
        BY <3>2 DEF Threads
      <3> QED
        BY <1>1, <3>1, <3>2
    <2> QED
      BY <2>1
  <1>6. ASSUME NEW x \in B, x # Sentinel
        PROVE /\ Succ(g, x, d) \in B /\ r[Succ(g, x, d)] < r[x]
              /\ \A y \in B : r[y] < r[x] => r[y] <= r[Succ(g, x, d)]
    <2>1. x \in S /\ End(g, x, d) = n
      BY <1>1, <1>6
    <2>2. Succ(g, x, d) \in B /\ r[Succ(g, x, d)] < r[x]
      BY <1>1, <2>1 DEF Threads
    <2>3. ASSUME NEW y \in B, r[y] < r[x] PROVE r[y] <= r[Succ(g, x, d)]
      <3>1. CASE y = Sentinel
        BY <1>2, <2>2, <3>1
      <3>2. CASE y \in S /\ End(g, y, d) = n
        BY <2>1, <2>3, <3>2 DEF Threads
      <3> QED
        BY <1>1, <3>1, <3>2
    <2> QED
      BY <2>2, <2>3
  <1>7. Descends(g, n, d, B, Sentinel, r)
    BY <1>2, <1>3, <1>4, <1>5, <1>6 DEF Descends
  <1> QED
    BY <1>7 DEF B

(***************************************************************************)
(* An edge is off its chain once the pointer to it is redirected to its    *)
(* successor: what remains is threaded as before.                          *)
(***************************************************************************)
LEMMA ThreadsWithout ==
  ASSUME NEW g \in Tables, NEW h, NEW d \in Dirs, NEW S, NEW r, Threads(g, d, S, r),
         NEW e \in S, NEW R, \A x : x \in R <=> x \in S /\ x # e,
         NIx(h) = NIx(g),
         \A n \in NIx(g) : First(h, n, d) = IF First(g, n, d) = e THEN Succ(g, e, d)
                                                                  ELSE First(g, n, d),
         \A x \in S : /\ Succ(h, x, d) = IF Succ(g, x, d) = e THEN Succ(g, e, d)
                                                              ELSE Succ(g, x, d)
                      /\ End(h, x, d) = End(g, x, d),
         Sentinel \notin S
  PROVE  Threads(h, d, R, r)
  <1> DEFINE s == Succ(g, e, d)
  <1>1. /\ r[e] \in Int /\ r[s] \in Int /\ r[s] < r[e] /\ s \in R \cup {Sentinel}
        /\ s \in R => End(g, s, d) = End(g, e, d)
        /\ \A x \in R : End(g, x, d) = End(g, e, d) /\ r[x] < r[e] => r[x] <= r[s]
    BY DEF Threads
  <1> HIDE DEF s
  <1>2. /\ \A x \in R \cup {Sentinel} : r[x] \in Int
        /\ \A x, y \in R : r[x] = r[y] => x = y
        /\ \A x \in R : r[Sentinel] < r[x]
        /\ \A x \in R : End(h, x, d) \in NIx(h)
        /\ \A x \in R : r[x] # r[e]
    BY DEF Threads
  <1>3. ASSUME NEW n \in NIx(h)
        PROVE  /\ First(h, n, d) \in R \cup {Sentinel}
               /\ First(h, n, d) \in R => End(h, First(h, n, d), d) = n
               /\ \A x \in R : End(h, x, d) = n => r[x] <= r[First(h, n, d)]
    <2>1. /\ First(g, n, d) \in S \cup {Sentinel}
          /\ First(g, n, d) \in S => End(g, First(g, n, d), d) = n
          /\ \A x \in R : End(g, x, d) = n => r[x] <= r[First(g, n, d)]
      BY DEF Threads
    <2>2. \A x \in R : End(h, x, d) = End(g, x, d)
      OBVIOUS
    <2>3. CASE First(g, n, d) = e
      <3>1. First(h, n, d) = s /\ End(g, e, d) = n
        BY <2>1, <2>3 DEF s
      <3>2. ASSUME NEW x \in R, End(h, x, d) = n PROVE r[x] <= r[s]
        <4>1. r[x] <= r[e] /\ r[x] \in Int /\ r[x] # r[e] /\ End(g, x, d) = End(g, e, d)
          BY <1>2, <2>1, <2>2, <2>3, <3>1, <3>2
        <4> QED
          BY <1>1, <4>1
      <3> QED
        BY <1>1, <2>2, <3>1, <3>2
    <2>4. CASE First(g, n, d) # e
      <3>1. First(h, n, d) = First(g, n, d)
        BY <2>4
      <3> QED
        BY <2>1, <2>2, <2>4, <3>1
    <2> QED
      BY <2>3, <2>4
  <1>4. ASSUME NEW p \in R
        PROVE  /\ Succ(h, p, d) \in R \cup {Sentinel}
               /\ Succ(h, p, d) \in R => End(h, Succ(h, p, d), d) = End(h, p, d)
               /\ r[Succ(h, p, d)] < r[p]
               /\ \A x \in R : End(h, x, d) = End(h, p, d) /\ r[x] < r[p] => r[x] <= r[Succ(h, p, d)]
    <2>1. /\ Succ(g, p, d) \in S \cup {Sentinel}
          /\ Succ(g, p, d) \in S => End(g, Succ(g, p, d), d) = End(g, p, d)
          /\ r[Succ(g, p, d)] < r[p] /\ r[p] \in Int
          /\ \A x \in R : End(g, x, d) = End(g, p, d) /\ r[x] < r[p] => r[x] <= r[Succ(g, p, d)]
      BY DEF Threads
    <2>2. \A x \in R : End(h, x, d) = End(g, x, d)
      OBVIOUS
    <2>3. CASE Succ(g, p, d) = e
      <3>1. Succ(h, p, d) = s /\ End(g, e, d) = End(g, p, d)
        BY <2>1, <2>3 DEF s
      <3>2. r[s] < r[p]
        BY <1>1, <2>1, <2>3
      <3>3. ASSUME NEW x \in R, End(h, x, d) = End(h, p, d), r[x] < r[p] PROVE r[x] <= r[s]
        <4>1. r[x] <= r[e] /\ r[x] \in Int /\ r[x] # r[e] /\ End(g, x, d) = End(g, e, d)
          BY <1>2, <2>1, <2>2, <2>3, <3>1, <3>3
        <4> QED
          BY <1>1, <4>1
      <3> QED
        BY <1>1, <2>2, <3>1, <3>2, <3>3
    <2>4. CASE Succ(g, p, d) # e
      <3>1. Succ(h, p, d) = Succ(g, p, d)
        BY <2>4
      <3> QED
        BY <2>1, <2>2, <2>4, <3>1
    <2> QED
      BY <2>3, <2>4
  <1> QED
    BY <1>2, <1>3, <1>4 DEF Threads

(***************************************************************************)
(* replace_in_list, asked to put the successor of an edge in its place,    *)
(* takes the edge off that chain and leaves the rest alone.                *)
(***************************************************************************)
LEMMA Unlinked ==
  ASSUME NEW g \in Tables, NEW d \in Dirs, NEW r, Threads(g, d, EIx(g), r),
         NEW e \in EIx(g), NEW n, n = End(g, e, d), NEW s, s = Succ(g, e, d),
         NEW h, h = ReplaceInList(g, n, d, e, s)
  PROVE  /\ h \in Tables /\ NIx(h) = NIx(g) /\ EIx(h) = EIx(g) /\ Size(h.edges) = Size(g.edges)
         /\ \A m \in NIx(g) : h.nodes[m].val = g.nodes[m].val
         /\ \A x \in EIx(g) : h.edges[x].val = g.edges[x].val
         /\ \A m \in NIx(g), c \in Dirs :
              First(h, m, c) = IF c = d /\ First(g, m, c) = e THEN s ELSE First(g, m, c)
         /\ \A x \in EIx(g), c \in Dirs :
              /\ Succ(h, x, c) = IF c = d /\ Succ(g, x, c) = e THEN s ELSE Succ(g, x, c)
              /\ End(h, x, c) = End(g, x, c)
         /\ \A R : (\A x : x \in R <=> x \in EIx(g) /\ x # e) => Threads(h, d, R, r)
  <1>1. n \in NIx(g) /\ s \in Slots /\ Sentinel \notin EIx(g)
    BY PartTypes DEF Threads
  <1>2. \A m \in NIx(g) : First(g, m, d) = e => m = n
    BY DEF Threads
  <1>3. ASSUME NEW p \in EIx(g), Succ(g, p, d) = e
        PROVE  End(g, p, d) = n /\ r[e] < r[p] /\ r[p] <= r[First(g, n, d)]
               /\ r[p] \in Int /\ r[e] \in Int
    BY <1>1, <1>3 DEF Threads
  <1>4. First(g, n, d) = e => \A p \in EIx(g) : Succ(g, p, d) # e
    BY <1>3
  <1>5. ASSUME NEW p \in EIx(g), Succ(g, p, d) = e
        PROVE  \E k \in 0..Size(g.edges) : Links(g, n, d)[k] = p
    <2> DEFINE B == At(g, n, d, EIx(g)) \cup {Sentinel}
    <2>1. p \in B
      BY <1>3, <1>5 DEF At
    <2>2. Descends(g, n, d, B, Sentinel, r)
      BY <1>1, ThreadsDescend
    <2> HIDE DEF B
    <2>3. PICK m \in 0..Size(g.edges) : \E q :
           /\ Falling(q, m, B, r)
           /\ q[m] = Sentinel
           /\ \A k \in 0..m : Links(g, n, d)[k] = q[k]
      BY <1>1, <2>2, WalkDescends
    <2>4. PICK q : Falling(q, m, B, r) /\ \A k \in 0..m : Links(g, n, d)[k] = q[k]
      BY <2>3
    <2>5. PICK k \in 0..m : q[k] = p
      BY <2>1, <2>4 DEF Falling
    <2>6. k \in 0..Size(g.edges)
      BY PartTypes
    <2> QED
      BY <2>4, <2>5, <2>6
  <1>6. /\ h \in Tables /\ NIx(h) = NIx(g) /\ EIx(h) = EIx(g) /\ Size(h.edges) = Size(g.edges)
        /\ \A m \in NIx(g) : h.nodes[m].val = g.nodes[m].val
        /\ \A x \in EIx(g) : h.edges[x].val = g.edges[x].val
        /\ \A m \in NIx(g), c \in Dirs :
             First(h, m, c) = IF c = d /\ First(g, m, c) = e THEN s ELSE First(g, m, c)
        /\ \A x \in EIx(g), c \in Dirs :
             /\ Succ(h, x, c) = IF c = d /\ Succ(g, x, c) = e THEN s ELSE Succ(g, x, c)
             /\ End(h, x, c) = End(g, x, c)
    <2> HIDE <1>3
    <2> QED
      BY <1>1, <1>2, <1>4, <1>5, Redirected
  <1>7. ASSUME NEW R, \A x : x \in R <=> x \in EIx(g) /\ x # e
        PROVE  Threads(h, d, R, r)
    BY <1>1, <1>6, <1>7, ThreadsWithout
  <1> QED
    BY <1>6, <1>7

(***************************************************************************)
(* What was at the index old is at the index new.                          *)
(***************************************************************************)
Renamed(x, old, new) == IF x = old THEN new ELSE x

(***************************************************************************)
(* Threads survive when an edge of the set gets another index throughout.  *)
(***************************************************************************)
LEMMA ThreadsRenamed ==
  ASSUME NEW g, NEW h, NEW d, NEW S, NEW r, Threads(g, d, S, r),
         NEW old \in S, NEW new, new \notin S, new # Sentinel, Sentinel \notin S,
         NEW T, \A y : y \in T <=> y = new \/ (y \in S /\ y # old),
         NIx(h) = NIx(g),
         \A n \in NIx(g) : First(h, n, d) = Renamed(First(g, n, d), old, new),
         \A y \in T : /\ Succ(h, y, d) = Renamed(Succ(g, Renamed(y, new, old), d), old, new)
                      /\ End(h, y, d) = End(g, Renamed(y, new, old), d)
  PROVE  \E q : Threads(h, d, T, q)
  <1> DEFINE q == [x \in T \cup {Sentinel} |-> r[Renamed(x, new, old)]]
             B(y) == Renamed(y, new, old)
             F(x) == Renamed(x, old, new)
  <1>1. /\ \A y \in T \cup {Sentinel} : q[y] = r[B(y)]
        /\ \A y \in T : B(y) \in S
        /\ \A x \in S : F(x) \in T /\ B(F(x)) = x
        /\ B(Sentinel) = Sentinel /\ F(Sentinel) = Sentinel
        /\ \A x, y \in T : B(x) = B(y) => x = y
    BY DEF Renamed
  <1>2. /\ \A y \in T : Succ(h, y, d) = F(Succ(g, B(y), d)) /\ End(h, y, d) = End(g, B(y), d)
        /\ \A n \in NIx(g) : First(h, n, d) = F(First(g, n, d))
    OBVIOUS
  <1> HIDE DEF q, B, F
  <1>3. /\ \A y \in T \cup {Sentinel} : q[y] \in Int
        /\ \A x, y \in T : q[x] = q[y] => x = y
        /\ \A y \in T : q[Sentinel] < q[y]
        /\ \A y \in T : End(h, y, d) \in NIx(h)
    BY <1>1, <1>2 DEF Threads
  <1>4. \A x \in S \cup {Sentinel} : q[F(x)] = r[x] /\ F(x) \in T \cup {Sentinel}
    BY <1>1
  <1>5. ASSUME NEW n \in NIx(h)
        PROVE  /\ First(h, n, d) \in T \cup {Sentinel}
               /\ First(h, n, d) \in T => End(h, First(h, n, d), d) = n
               /\ \A y \in T : End(h, y, d) = n => q[y] <= q[First(h, n, d)]
    <2> DEFINE f == First(g, n, d)
    <2>1. /\ f \in S \cup {Sentinel}
          /\ f \in S => End(g, f, d) = n
          /\ \A x \in S : End(g, x, d) = n => r[x] <= r[f]
      BY DEF Threads
    <2>2. First(h, n, d) = F(f) /\ q[F(f)] = r[f] /\ F(f) \in T \cup {Sentinel}
      BY <1>2, <1>4, <2>1
    <2> HIDE DEF f
    <2>3. F(f) \in T => End(h, F(f), d) = n
      <3>1. CASE f \in S
        BY <1>1, <1>2, <2>1, <3>1
      <3>2. CASE f = Sentinel
        BY <1>1, <3>2 
      <3> QED
        BY <2>1, <3>1, <3>2
    <2>4. ASSUME NEW y \in T, End(h, y, d) = n PROVE q[y] <= q[F(f)]
      <3>1. B(y) \in S /\ End(g, B(y), d) = n /\ q[y] = r[B(y)]
        BY <1>1, <1>2, <2>4
      <3> QED
        BY <2>1, <2>2, <3>1
    <2> QED
      BY <2>2, <2>3, <2>4
  <1>6. ASSUME NEW p \in T
        PROVE  /\ Succ(h, p, d) \in T \cup {Sentinel}
               /\ Succ(h, p, d) \in T => End(h, Succ(h, p, d), d) = End(h, p, d)
               /\ q[Succ(h, p, d)] < q[p]
               /\ \A y \in T : End(h, y, d) = End(h, p, d) /\ q[y] < q[p] => q[y] <= q[Succ(h, p, d)]
    <2> DEFINE f == Succ(g, B(p), d)
    <2>0. B(p) \in S /\ q[p] = r[B(p)] /\ End(h, p, d) = End(g, B(p), d)
      BY <1>1, <1>2
    <2>1. /\ f \in S \cup {Sentinel}
          /\ f \in S => End(g, f, d) = End(g, B(p), d)
          /\ r[f] < r[B(p)]
          /\ \A x \in S : End(g, x, d) = End(g, B(p), d) /\ r[x] < r[B(p)] => r[x] <= r[f]
      BY <2>0 DEF Threads
    <2>2. Succ(h, p, d) = F(f) /\ q[F(f)] = r[f] /\ F(f) \in T \cup {Sentinel}
      BY <1>2, <1>4, <2>1
    <2> HIDE DEF f
    <2>3. F(f) \in T => End(h, F(f), d) = End(h, p, d)
      <3>1. CASE f \in S
        BY <1>1, <1>2, <2>0, <2>1, <3>1
      <3>2. CASE f = Sentinel
        BY <1>1, <3>2
      <3> QED
        BY <2>1, <3>1, <3>2
    <2>4. ASSUME NEW y \in T, End(h, y, d) = End(h, p, d), q[y] < q[p] PROVE q[y] <= q[F(f)]
      <3>1. B(y) \in S /\ End(g, B(y), d) = End(g, B(p), d) /\ q[y] = r[B(y)]
        BY <1>1, <1>2, <2>0, <2>4
      <3> QED
        BY <2>0, <2>1, <2>2, <2>4, <3>1
    <2> QED
      BY <2>0, <2>1, <2>2, <2>3, <2>4
  <1>7. Threads(h, d, T, q)
    BY <1>3, <1>5, <1>6 DEF Threads
  <1> QED
    BY <1>7

(***************************************************************************)
(* In k the edge that is gone in g has got the index e, but the pointers   *)
(* of direction d are those of g still.                                    *)
(***************************************************************************)
Moved(g, k, d, S, gone, e) ==
  /\ S \subseteq EIx(g) /\ gone \in S /\ e \in EIx(k) /\ e \notin S
  /\ NIx(k) = NIx(g)
  /\ \A y : y \in EIx(k) <=> y = e \/ (y \in S /\ y # gone)
  /\ \A m \in NIx(g) : First(k, m, d) = First(g, m, d)
  /\ \A y \in EIx(k) : /\ Succ(k, y, d) = Succ(g, Renamed(y, e, gone), d)
                       /\ End(k, y, d) = End(g, Renamed(y, e, gone), d)

(***************************************************************************)
(* The last edge has moved to the position of the one taken, g having been *)
(* the graph before: replace_in_list puts the new index in the place of    *)
(* the old one, and the chain is whole again.                              *)
(***************************************************************************)
LEMMA Relinked ==
  ASSUME NEW g \in Tables, NEW k \in Tables, NEW d \in Dirs, NEW S, NEW gone, NEW e,
         Moved(g, k, d, S, gone, e), NEW r, Threads(g, d, S, r),
         NEW n, n = End(k, e, d),
         NEW h, h = ReplaceInList(k, n, d, gone, e)
  PROVE  /\ h \in Tables /\ NIx(h) = NIx(k) /\ EIx(h) = EIx(k) /\ Size(h.edges) = Size(k.edges)
         /\ \A m \in NIx(k) : h.nodes[m].val = k.nodes[m].val
         /\ \A y \in EIx(k) : h.edges[y].val = k.edges[y].val
         /\ \A m \in NIx(k), c \in Dirs : c # d => First(h, m, c) = First(k, m, c)
         /\ \A y \in EIx(k), c \in Dirs : /\ c # d => Succ(h, y, c) = Succ(k, y, c)
                                          /\ End(h, y, c) = End(k, y, c)
         /\ \E q : Threads(h, d, EIx(k), q)
  <1>0. /\ S \subseteq EIx(g) /\ gone \in S /\ e \in EIx(k) /\ e \notin S
        /\ NIx(k) = NIx(g)
        /\ \A y : y \in EIx(k) <=> y = e \/ (y \in S /\ y # gone)
        /\ \A m \in NIx(g) : First(k, m, d) = First(g, m, d)
        /\ \A y \in EIx(k) : /\ Succ(k, y, d) = Succ(g, Renamed(y, e, gone), d)
                             /\ End(k, y, d) = End(g, Renamed(y, e, gone), d)
    BY DEF Moved
  <1> USE <1>0
  <1>1. /\ n = End(g, gone, d) /\ n \in NIx(g) /\ e \in Slots
        /\ Sentinel \notin EIx(g) /\ Sentinel \notin EIx(k) /\ Sentinel \notin S
    BY PartTypes DEF Threads, Renamed, Slots
  <1>2. \A m \in NIx(k) : First(k, m, d) = gone => m = n
    BY <1>1 DEF Threads
  <1>3. \A y \in EIx(k) : Renamed(y, e, gone) \in S
    BY DEF Renamed
  <1>4. ASSUME NEW p \in EIx(k), Succ(k, p, d) = gone
        PROVE  /\ p \in S /\ p # gone /\ End(g, p, d) = n /\ r[gone] < r[p]
               /\ r[p] <= r[First(g, n, d)] /\ r[p] \in Int /\ r[gone] \in Int
    <2> DEFINE x == Renamed(p, e, gone)
    <2>1. x \in S /\ Succ(g, x, d) = gone
      BY <1>3, <1>4
    <2>2. r[gone] < r[x] /\ r[x] \in Int /\ r[gone] \in Int /\ End(g, x, d) = n
      BY <1>1, <2>1 DEF Threads
    <2>3. r[x] <= r[First(g, n, d)]
      BY <1>1, <2>1, <2>2 DEF Threads
    <2>4. x # gone
      BY <2>2
    <2>5. x = p
      BY <2>4 DEF Renamed
    <2> HIDE DEF x
    <2> QED
      BY <2>1, <2>2, <2>3, <2>4, <2>5
  <1>5. First(k, n, d) = gone => \A p \in EIx(k) : Succ(k, p, d) # gone
    BY <1>1, <1>4
  <1>6. ASSUME NEW p \in EIx(k), Succ(k, p, d) = gone
        PROVE  \E i \in 0..Size(k.edges) : Links(k, n, d)[i] = p
    <2> DEFINE B == {x \in S : End(g, x, d) = n /\ r[gone] <= r[x]}
    <2>1. \A x : x \in B <=> x \in S /\ End(g, x, d) = n /\ r[gone] <= r[x]
      OBVIOUS
    <2> HIDE DEF B
    <2>2. /\ p \in B /\ gone \in B
      BY <1>1, <1>4, <1>6, <2>1
    <2>3. \A x \in B : x # gone => x \in EIx(k) /\ x # e
      BY <2>1
    <2>4. /\ \A x \in B : r[x] \in Int /\ r[gone] <= r[x]
          /\ \A x, y \in B : r[x] = r[y] => x = y
      BY <2>1 DEF Threads
    <2>5. First(k, n, d) \in B /\ \A x \in B : r[x] <= r[First(k, n, d)]
      <3> DEFINE f == First(g, n, d)
      <3>1. /\ f \in S \cup {Sentinel} /\ (f \in S => End(g, f, d) = n)
            /\ \A x \in S : End(g, x, d) = n => r[x] <= r[f]
        BY <1>1 DEF Threads
      <3>2. f = First(k, n, d)
        BY <1>1
      <3>3. r[Sentinel] < r[gone] /\ r[gone] \in Int /\ r[Sentinel] \in Int
        BY DEF Threads
      <3> HIDE DEF f
      <3>4. r[gone] <= r[f]
        BY <1>1, <3>1
      <3>5. f # Sentinel
        BY <3>3, <3>4
      <3> QED
        BY <2>1, <3>1, <3>2, <3>4, <3>5
    <2>6. ASSUME NEW x \in B, x # gone
          PROVE /\ Succ(k, x, d) \in B /\ r[Succ(k, x, d)] < r[x]
                /\ \A y \in B : r[y] < r[x] => r[y] <= r[Succ(k, x, d)]
      <3> DEFINE f == Succ(g, x, d)
      <3>0. x \in S /\ End(g, x, d) = n /\ r[gone] <= r[x] /\ x # e /\ x \in EIx(k)
        BY <2>1, <2>3, <2>6
      <3>1. /\ f \in S \cup {Sentinel} /\ (f \in S => End(g, f, d) = n)
            /\ r[f] < r[x]
            /\ \A y \in S : End(g, y, d) = n /\ r[y] < r[x] => r[y] <= r[f]
        BY <3>0 DEF Threads
      <3>2. f = Succ(k, x, d)
        BY <3>0 DEF Renamed
      <3>3. r[Sentinel] < r[gone] /\ r[gone] \in Int /\ r[Sentinel] \in Int
        BY DEF Threads
      <3> HIDE DEF f
      <3>4. r[gone] < r[x]
        BY <2>2, <2>4, <2>6
      <3>5. r[gone] <= r[f]
        BY <1>1, <3>1, <3>4
      <3>6. f # Sentinel
        BY <3>3, <3>5
      <3> QED
        BY <2>1, <3>1, <3>2, <3>5, <3>6
    <2>7. Descends(k, n, d, B, gone, r)
      BY <2>2, <2>3, <2>4, <2>5, <2>6 DEF Descends
    <2>8. PICK m \in 0..Size(k.edges) : \E q :
           /\ Falling(q, m, B, r)
           /\ q[m] = gone
           /\ \A i \in 0..m : Links(k, n, d)[i] = q[i]
      BY <1>1, <2>7, WalkDescends
    <2>9. PICK q : Falling(q, m, B, r) /\ \A i \in 0..m : Links(k, n, d)[i] = q[i]
      BY <2>8
    <2>10. PICK i \in 0..m : q[i] = p
      BY <2>2, <2>9 DEF Falling
    <2>11. i \in 0..Size(k.edges)
      BY PartTypes
    <2> QED
      BY <2>9, <2>10, <2>11
  <1>7. /\ h \in Tables /\ NIx(h) = NIx(k) /\ EIx(h) = EIx(k) /\ Size(h.edges) = Size(k.edges)
        /\ \A m \in NIx(k) : h.nodes[m].val = k.nodes[m].val
        /\ \A y \in EIx(k) : h.edges[y].val = k.edges[y].val
        /\ \A m \in NIx(k), c \in Dirs :
             First(h, m, c) = IF c = d /\ First(k, m, c) = gone THEN e ELSE First(k, m, c)
        /\ \A y \in EIx(k), c \in Dirs :
             /\ Succ(h, y, c) = IF c = d /\ Succ(k, y, c) = gone THEN e ELSE Succ(k, y, c)
             /\ End(h, y, c) = End(k, y, c)
    <2> HIDE <1>4
    <2>1. n \in NIx(k)
      BY <1>1
    <2> QED
      BY <1>1, <2>1, <1>2, <1>5, <1>6, Redirected
  <1>8. /\ \A m \in NIx(g) : First(h, m, d) = Renamed(First(g, m, d), gone, e)
        /\ \A y \in EIx(k) : /\ Succ(h, y, d) = Renamed(Succ(g, Renamed(y, e, gone), d), gone, e)
                             /\ End(h, y, d) = End(g, Renamed(y, e, gone), d)
    <2>1. \A x : Renamed(x, gone, e) = IF x = gone THEN e ELSE x
      BY DEF Renamed
    <2> QED
      BY <1>7, <2>1
  <1>9. e # Sentinel
    BY <1>1
  <1>10. NIx(h) = NIx(g)
    BY <1>7
  <1>11. \E q : Threads(h, d, EIx(k), q)
    BY <1>1, <1>8, <1>9, <1>10, ThreadsRenamed
  <1> QED
    BY <1>7, <1>11

-----------------------------------------------------------------------------
(***************************************************************************)
(* The edges of S are threaded in both directions.                         *)
(***************************************************************************)
Threaded(g, S) == \A d \in Dirs : \E r : Threads(g, d, S, r)

(***************************************************************************)
(* An edge is taken off both its chains, one after the other.              *)
(***************************************************************************)
LEMMA UnlinkedBoth ==
  ASSUME NEW g \in Tables, Threaded(g, EIx(g)), NEW d \in Dirs, NEW o, o = Other(d),
         NEW e \in EIx(g), NEW R, \A x : x \in R <=> x \in EIx(g) /\ x # e,
         NEW k, k = ReplaceInList(g, End(g, e, d), d, e, Succ(g, e, d)),
         NEW h, h = ReplaceInList(k, End(g, e, o), o, e, Succ(g, e, o))
  PROVE  /\ h \in Tables /\ NIx(h) = NIx(g) /\ EIx(h) = EIx(g) /\ Size(h.edges) = Size(g.edges)
         /\ \A m \in NIx(g) : h.nodes[m].val = g.nodes[m].val
         /\ \A x \in EIx(g) : h.edges[x].val = g.edges[x].val
         /\ \A x \in EIx(g), c \in Dirs : End(h, x, c) = End(g, x, c)
         /\ Threaded(h, R)
  <1>1. o \in Dirs /\ o # d /\ \A c \in Dirs : c = d \/ c = o
    BY TwoDirs
  <1>2. PICK r : Threads(g, d, EIx(g), r)
    BY DEF Threaded
  <1>3. PICK q : Threads(g, o, EIx(g), q)
    BY <1>1 DEF Threaded
  <1>4. /\ k \in Tables /\ NIx(k) = NIx(g) /\ EIx(k) = EIx(g) /\ Size(k.edges) = Size(g.edges)
        /\ \A m \in NIx(g) : k.nodes[m].val = g.nodes[m].val
        /\ \A x \in EIx(g) : k.edges[x].val = g.edges[x].val
        /\ \A m \in NIx(g), c \in Dirs : c # d => First(k, m, c) = First(g, m, c)
        /\ \A x \in EIx(g), c \in Dirs : /\ c # d => Succ(k, x, c) = Succ(g, x, c)
                                         /\ End(k, x, c) = End(g, x, c)
        /\ Threads(k, d, R, r)
    <2>1. /\ k \in Tables /\ NIx(k) = NIx(g) /\ EIx(k) = EIx(g) /\ Size(k.edges) = Size(g.edges)
          /\ \A m \in NIx(g) : k.nodes[m].val = g.nodes[m].val
          /\ \A x \in EIx(g) : k.edges[x].val = g.edges[x].val
          /\ \A m \in NIx(g), c \in Dirs :
               First(k, m, c) = IF c = d /\ First(g, m, c) = e THEN Succ(g, e, d) ELSE First(g, m, c)
          /\ \A x \in EIx(g), c \in Dirs :
               /\ Succ(k, x, c) = IF c = d /\ Succ(g, x, c) = e THEN Succ(g, e, d) ELSE Succ(g, x, c)
               /\ End(k, x, c) = End(g, x, c)
          /\ \A T : (\A x : x \in T <=> x \in EIx(g) /\ x # e) => Threads(k, d, T, r)
      BY <1>2, Unlinked
    <2>2. Threads(k, d, R, r)
      BY <2>1
    <2> QED
      BY <2>1, <2>2
  <1>5. Threads(k, o, EIx(k), q)
    BY <1>1, <1>3, <1>4, ThreadsCopied
  <1>6. /\ e \in EIx(k) /\ End(g, e, o) = End(k, e, o) /\ Succ(g, e, o) = Succ(k, e, o)
    BY <1>1, <1>4
  <1>7. /\ h \in Tables /\ NIx(h) = NIx(k) /\ EIx(h) = EIx(k) /\ Size(h.edges) = Size(k.edges)
        /\ \A m \in NIx(k) : h.nodes[m].val = k.nodes[m].val
        /\ \A x \in EIx(k) : h.edges[x].val = k.edges[x].val
        /\ \A m \in NIx(k), c \in Dirs : c # o => First(h, m, c) = First(k, m, c)
        /\ \A x \in EIx(k), c \in Dirs : /\ c # o => Succ(h, x, c) = Succ(k, x, c)
                                         /\ End(h, x, c) = End(k, x, c)
        /\ Threads(h, o, R, q)
    <2>1. /\ h \in Tables /\ NIx(h) = NIx(k) /\ EIx(h) = EIx(k) /\ Size(h.edges) = Size(k.edges)
          /\ \A m \in NIx(k) : h.nodes[m].val = k.nodes[m].val
          /\ \A x \in EIx(k) : h.edges[x].val = k.edges[x].val
          /\ \A m \in NIx(k), c \in Dirs :
               First(h, m, c) = IF c = o /\ First(k, m, c) = e THEN Succ(k, e, o) ELSE First(k, m, c)
          /\ \A x \in EIx(k), c \in Dirs :
               /\ Succ(h, x, c) = IF c = o /\ Succ(k, x, c) = e THEN Succ(k, e, o) ELSE Succ(k, x, c)
               /\ End(h, x, c) = End(k, x, c)
          /\ \A T : (\A x : x \in T <=> x \in EIx(k) /\ x # e) => Threads(h, o, T, q)
      BY <1>1, <1>4, <1>5, <1>6, Unlinked
    <2>2. Threads(h, o, R, q)
      BY <1>4, <2>1
    <2> QED
      BY <2>1, <2>2
  <1>8. Threads(h, d, R, r)
    BY <1>1, <1>4, <1>7, ThreadsCopied
  <1>9. Threaded(h, R)
    BY <1>1, <1>7, <1>8 DEF Threaded
  <1> QED
    BY <1>4, <1>7, <1>9

(***************************************************************************)
(* An edge on no chain is taken out, and the chains of the edge that moved *)
(* to its position are repaired.                                           *)
(***************************************************************************)
LEMMA TakenAndRelinked ==
  ASSUME NEW g \in Tables, NEW e \in EIx(g), NEW R, \A x : x \in R <=> x \in EIx(g) /\ x # e,
         Threaded(g, R), NEW h, h = TakeAndRelink(g, e),
         NEW gone, gone = Gone(DenseEdges, g.edges, e)
  PROVE  /\ h \in Tables /\ NIx(h) = NIx(g) /\ Size(h.edges) = Size(g.edges) - 1
         /\ gone \in EIx(g)
         /\ \A m \in NIx(g) : h.nodes[m].val = g.nodes[m].val
         /\ \A x : x \in EIx(h) <=> x \in EIx(g) /\ x # gone
         /\ \A x \in EIx(h) : h.edges[x].val = g.edges[Renamed(x, e, gone)].val
         /\ \A x \in EIx(h), c \in Dirs : End(h, x, c) = End(g, Renamed(x, e, gone), c)
         /\ Threaded(h, EIx(h))
  <1> DEFINE k == TakeEdgeEntry(g, e)
             B(x) == Renamed(x, e, gone)
  <1>0. k = TakeEdgeEntry(g, e)
    OBVIOUS
  <1> HIDE DEF k, B
  <1>1. /\ k \in Tables /\ NIx(k) = NIx(g) /\ k.nodes = g.nodes
        /\ gone \in EIx(g)
        /\ \A x : x \in EIx(k) <=> x \in EIx(g) /\ x # gone
        /\ \A x \in EIx(k) : k.edges[x] = IF x = e THEN g.edges[gone] ELSE g.edges[x]
        /\ \A n \in NIx(g), d \in Dirs : First(k, n, d) = First(g, n, d)
        /\ \A x \in EIx(k), d \in Dirs :
             /\ Succ(k, x, d) = Succ(g, IF x = e THEN gone ELSE x, d)
             /\ End(k, x, d) = End(g, IF x = e THEN gone ELSE x, d)
        /\ Size(k.edges) = Size(g.edges) - 1
        /\ Relocates(DenseEdges, g.edges, e) => gone = LastIndex(g.edges) /\ gone # e
        /\ ~Relocates(DenseEdges, g.edges, e) => gone = e
    <2>1. EdgeEntryLess(g, e, k, gone)
      BY <1>0, EdgeEntryTaken
    <2> QED
      BY <2>1 DEF EdgeEntryLess
  <1>2. /\ \A m \in NIx(g) : k.nodes[m].val = g.nodes[m].val
        /\ \A x : B(x) = IF x = e THEN gone ELSE x
    BY <1>1, Zenon DEF Renamed, B
  <1>3. /\ \A x \in EIx(k) : k.edges[x].val = g.edges[B(x)].val
        /\ \A x \in EIx(k), d \in Dirs : Succ(k, x, d) = Succ(g, B(x), d) /\ End(k, x, d) = End(g, B(x), d)
    <2>1. \A x \in EIx(k) : k.edges[x] = g.edges[B(x)]
      BY <1>1, <1>2
    <2>2. \A x \in EIx(k) : k.edges[x].val = g.edges[B(x)].val
      BY <2>1, Zenon
    <2> QED
      BY <1>1, <1>2, <2>2
  <1>4. CASE ~Relocates(DenseEdges, g.edges, e)
    <2>1. h = k
      BY <1>4, Zenon DEF TakeAndRelink, k
    <2>2. gone = e /\ \A x : x \in EIx(k) <=> x \in R
      BY <1>1, <1>4
    <2>3. \A x \in R : B(x) = x
      BY <1>2, <2>2
    <2>4. ASSUME NEW d \in Dirs PROVE \E r : Threads(k, d, EIx(k), r)
      <3>1. PICK r : Threads(g, d, R, r)
        BY DEF Threaded
      <3>2. Threads(k, d, R, r)
        <4>1. \A x \in R : Succ(k, x, d) = Succ(g, x, d) /\ End(k, x, d) = End(g, x, d)
          BY <1>3, <2>2, <2>3
        <4>2. \A n \in NIx(g) : First(k, n, d) = First(g, n, d)
          BY <1>1
        <4>3. NIx(k) = NIx(g)
          BY <1>1
        <4> QED
          BY <3>1, <4>1, <4>2, <4>3, ThreadsCopied
      <3>3. R = EIx(k)
        BY <2>2
      <3> QED
        BY <3>2, <3>3
    <2>5. Threaded(k, EIx(k))
      BY <2>4 DEF Threaded
    <2> QED
      BY <1>1, <1>2, <1>3, <2>1, <2>5 DEF B
  <1>5. CASE Relocates(DenseEdges, g.edges, e)
    <2> DEFINE o == OUTGOING
               i == INCOMING
               k1 == ReplaceInList(k, End(k, e, o), o, gone, e)
               k2 == ReplaceInList(k1, End(k, e, i), i, gone, e)
    <2>1. gone = LastIndex(g.edges) /\ gone # e
      BY <1>1, <1>5
    <2>2. h = k2
      <3>1. h = ReplaceInList(ReplaceInList(k, k.edges[e].node[OUTGOING], OUTGOING,
                                            LastIndex(g.edges), e),
                              k.edges[e].node[INCOMING], INCOMING, LastIndex(g.edges), e)
        BY <1>5, Zenon DEF TakeAndRelink, k
      <3>2. h = ReplaceInList(ReplaceInList(k, k.edges[e].node[OUTGOING], OUTGOING, gone, e),
                              k.edges[e].node[INCOMING], INCOMING, gone, e)
        BY <2>1, <3>1, Zenon
      <3> QED
        BY <3>2, Zenon DEF End
    <2>3. o \in Dirs /\ i \in Dirs /\ o # i /\ \A c \in Dirs : c = o \/ c = i
      BY TwoDirs
    <2> HIDE DEF o, i, k1, k2
    <2>4. /\ R \subseteq EIx(g) /\ gone \in R /\ e \notin R /\ e \in EIx(k)
          /\ \A y : y \in EIx(k) <=> y = e \/ (y \in R /\ y # gone)
      BY <1>1, <2>1
    <2>5. \A y \in EIx(k), d \in Dirs : /\ Succ(k, y, d) = Succ(g, Renamed(y, e, gone), d)
                                        /\ End(k, y, d) = End(g, Renamed(y, e, gone), d)
      BY <1>3 DEF B
    <2>6. /\ k1 \in Tables /\ NIx(k1) = NIx(k) /\ EIx(k1) = EIx(k) /\ Size(k1.edges) = Size(k.edges)
          /\ \A m \in NIx(k) : k1.nodes[m].val = k.nodes[m].val
          /\ \A y \in EIx(k) : k1.edges[y].val = k.edges[y].val
          /\ \A m \in NIx(k), c \in Dirs : c # o => First(k1, m, c) = First(k, m, c)
          /\ \A y \in EIx(k), c \in Dirs : /\ c # o => Succ(k1, y, c) = Succ(k, y, c)
                                           /\ End(k1, y, c) = End(k, y, c)
          /\ \E q : Threads(k1, o, EIx(k), q)
      <3>1. PICK r : Threads(g, o, R, r)
        BY <2>3 DEF Threaded
      <3>2. k1 = ReplaceInList(k, End(k, e, o), o, gone, e)
        BY DEF k1
      <3>3. \A n \in NIx(g) : First(k, n, o) = First(g, n, o)
        BY <1>1, <2>3
      <3>4. \A y \in EIx(k) : /\ Succ(k, y, o) = Succ(g, Renamed(y, e, gone), o)
                              /\ End(k, y, o) = End(g, Renamed(y, e, gone), o)
        BY <2>3, <2>5
      <3>5. k \in Tables /\ NIx(k) = NIx(g)
        BY <1>1
      <3> QED
        <4>1. Moved(g, k, o, R, gone, e)
          BY <2>4, <3>3, <3>4, <3>5 DEF Moved
        <4> QED
          BY <2>3, <3>1, <3>2, <3>5, <4>1, Relinked
    <2>7. /\ k2 \in Tables /\ NIx(k2) = NIx(k1) /\ EIx(k2) = EIx(k1) /\ Size(k2.edges) = Size(k1.edges)
          /\ \A m \in NIx(k1) : k2.nodes[m].val = k1.nodes[m].val
          /\ \A y \in EIx(k1) : k2.edges[y].val = k1.edges[y].val
          /\ \A m \in NIx(k1), c \in Dirs : c # i => First(k2, m, c) = First(k1, m, c)
          /\ \A y \in EIx(k1), c \in Dirs : /\ c # i => Succ(k2, y, c) = Succ(k1, y, c)
                                            /\ End(k2, y, c) = End(k1, y, c)
          /\ \E q : Threads(k2, i, EIx(k1), q)
      <3>1. PICK r : Threads(g, i, R, r)
        BY <2>3 DEF Threaded
      <3>2. k2 = ReplaceInList(k1, End(k1, e, i), i, gone, e)
        BY <2>3, <2>4, <2>6 DEF k2
      <3>3. \A n \in NIx(g) : First(k1, n, i) = First(g, n, i)
        BY <1>1, <2>3, <2>6
      <3>4. \A y \in EIx(k1) : /\ Succ(k1, y, i) = Succ(g, Renamed(y, e, gone), i)
                               /\ End(k1, y, i) = End(g, Renamed(y, e, gone), i)
        BY <2>3, <2>5, <2>6
      <3>5. k1 \in Tables /\ NIx(k1) = NIx(g) /\ e \in EIx(k1)
        BY <1>1, <2>4, <2>6
      <3>6. \A y : y \in EIx(k1) <=> y = e \/ (y \in R /\ y # gone)
        BY <2>4, <2>6
      <3> QED
        <4>1. Moved(g, k1, i, R, gone, e)
          BY <2>4, <3>3, <3>4, <3>5, <3>6 DEF Moved
        <4> QED
          BY <2>3, <2>6, <3>1, <3>2, <3>5, <4>1, Relinked
    <2>8. Threaded(k2, EIx(k2))
      <3>1. PICK q : Threads(k1, o, EIx(k), q)
        BY <2>6
      <3>2. Threads(k2, o, EIx(k), q)
        BY <2>3, <2>6, <2>7, <3>1, ThreadsCopied
      <3> QED
        BY <2>3, <2>6, <2>7, <3>2 DEF Threaded
    <2>9. /\ \A x \in EIx(k) : k2.edges[x].val = g.edges[B(x)].val
          /\ \A x \in EIx(k), c \in Dirs : End(k2, x, c) = End(g, B(x), c)
          /\ \A m \in NIx(g) : k2.nodes[m].val = g.nodes[m].val
      BY <1>1, <1>2, <1>3, <2>6, <2>7
    <2>10. k2 \in Tables /\ NIx(k2) = NIx(g) /\ EIx(k2) = EIx(k) /\ Size(k2.edges) = Size(g.edges) - 1
      BY <1>1, <2>6, <2>7
    <2> QED
      BY <1>1, <2>2, <2>8, <2>9, <2>10 DEF B
  <1> QED
    BY <1>4, <1>5

-----------------------------------------------------------------------------
(***************************************************************************)
(* A chain that descends to the sentinel lists the elements above it, each *)
(* once, and ends.                                                         *)
(***************************************************************************)
LEMMA ChainDescends ==
  ASSUME NEW g \in Tables, NEW n \in NIx(g), NEW d \in Dirs, NEW B, NEW r,
         Descends(g, n, d, B, Sentinel, r),
         NEW c, c = Chain(g, n, d)
  PROVE  /\ Len(c) \in Nat /\ DOMAIN c = 1..Len(c)
         /\ \A i \in DOMAIN c : c[i] \in B /\ c[i] # Sentinel
         /\ \A i, j \in DOMAIN c : c[i] = c[j] => i = j
         /\ \A e \in B : e # Sentinel => \E i \in DOMAIN c : c[i] = e
         /\ Links(g, n, d)[Len(c)] = Sentinel
  <1> DEFINE slot == Links(g, n, d)
             N == Size(g.edges)
  <1>1. \A x \in B : x # Sentinel => x \in EIx(g)
    BY DEF Descends
  <1>2. Descends(g, n, d, B, Sentinel, r)
    OBVIOUS
  <1>3. Sentinel \notin EIx(g) /\ N \in Nat
    BY PartTypes
  <1>4. PICK m \in 0..N : \E q :
           /\ Falling(q, m, B, r)
           /\ q[m] = Sentinel
           /\ \A k \in 0..m : slot[k] = q[k]
    BY <1>2, WalkDescends
  <1>5. PICK q : /\ Falling(q, m, B, r) /\ q[m] = Sentinel
                 /\ \A k \in 0..m : slot[k] = q[k]
    BY <1>4
  <1>6. /\ \A k \in 0..m : q[k] \in B
        /\ \A i, j \in 0..m : i < j => r[q[j]] < r[q[i]]
        /\ \A x \in B : \E k \in 0..m : q[k] = x
        /\ \A x \in B : r[x] \in Int
    BY <1>2, <1>5 DEF Falling, Descends
  <1>7. \A k \in 1..N : slot[k] = IF slot[k - 1] \in EIx(g) THEN Succ(g, slot[k - 1], d) ELSE Sentinel
    BY LinksUnfold
  <1> HIDE DEF slot, N
  <1>8. ASSUME NEW i \in 0..m, NEW j \in 0..m, q[i] = q[j] PROVE i = j
    <2>1. r[q[i]] \in Int /\ r[q[j]] \in Int
      BY <1>6
    <2>2. ~(i < j) /\ ~(j < i)
      BY <1>6, <1>8, <2>1
    <2> QED
      BY <2>2
  <1>9. \A k \in 0..m : k < m => slot[k] \in EIx(g) /\ slot[k] \in B /\ slot[k] # Sentinel
    BY <1>1, <1>3, <1>5, <1>6, <1>8
  <1>10. \A k \in 0..N : m <= k => slot[k] = Sentinel
    <2> DEFINE T == {k \in 0..N : m <= k => slot[k] = Sentinel}
    <2>1. 0 \in T
      BY <1>3, <1>5
    <2>2. ASSUME NEW k \in 1..N, k - 1 \in T PROVE k \in T
      <3>1. CASE m <= k - 1
        BY <1>3, <1>7, <2>2, <3>1
      <3>2. CASE ~(m <= k - 1)
        BY <1>3, <1>5, <3>2
      <3> QED
        BY <3>1, <3>2
    <2>3. \A k \in 0..N : k \in T
      <3> HIDE DEF T
      <3> QED
        BY <1>3, <2>1, <2>2, RoundInduction
    <2> QED
      BY <2>3
  <1> DEFINE linked == {k \in 0..N - 1 : slot[k] \in DOMAIN g.edges}
  <1>11. linked = 0..m - 1
    BY <1>3, <1>9, <1>10 DEF EIx
  <1>12. Cardinality(linked) = m
    <2>1. 0 \in Int /\ m - 1 \in Int /\ m \in Nat
      BY <1>3
    <2>2. Cardinality(0..m - 1) = IF 0 > m - 1 THEN 0 ELSE (m - 1) - 0 + 1
      BY <2>1, FS_Interval
    <2> HIDE DEF linked
    <2> QED
      BY <1>11, <2>1, <2>2
  <1>13. c = [k \in 1..Cardinality(linked) |-> slot[k - 1]]
    BY Zenon DEF Chain, slot, N
  <1> HIDE DEF linked
  <1>14. c = [k \in 1..m |-> slot[k - 1]] /\ m \in Nat
    BY <1>3, <1>12, <1>13
  <1>15. DOMAIN c = 1..m /\ Len(c) = m
    BY <1>14
  <1>16. \A i \in 1..m : i - 1 \in 0..m /\ i - 1 < m /\ c[i] = slot[i - 1] /\ c[i] = q[i - 1]
    BY <1>5, <1>14
  <1>17. \A i, j \in 1..m : c[i] = c[j] => i = j
    BY <1>8, <1>16
  <1>18. ASSUME NEW e \in B, e # Sentinel PROVE \E i \in DOMAIN c : c[i] = e
    <2>1. PICK k \in 0..m : q[k] = e
      BY <1>1, <1>6, <1>18
    <2>2. k # m
      BY <1>5, <1>18, <2>1
    <2>3. k + 1 \in 1..m /\ (k + 1) - 1 = k
      BY <2>2
    <2> QED
      BY <1>15, <1>16, <2>1, <2>3
  <1>19. slot[m] = Sentinel
    BY <1>3, <1>10
  <1>20. \A i \in 1..m : c[i] \in B /\ c[i] # Sentinel
    BY <1>9, <1>16
  <1>21. Links(g, n, d)[Len(c)] = Sentinel
    BY <1>15, <1>19 DEF slot
  <1> QED
    BY <1>14, <1>15, <1>17, <1>18, <1>20, <1>21

(***************************************************************************)
(* So a chain that is threaded lists the edges at its node.                *)
(***************************************************************************)
LEMMA ChainLists ==
  ASSUME NEW g \in Tables, NEW n \in NIx(g), NEW d \in Dirs, Threaded(g, EIx(g)),
         NEW c, c = Chain(g, n, d)
  PROVE  /\ Len(c) \in Nat /\ DOMAIN c = 1..Len(c)
         /\ \A i \in DOMAIN c : c[i] \in EIx(g) /\ End(g, c[i], d) = n
         /\ \A i, j \in DOMAIN c : c[i] = c[j] => i = j
         /\ \A e \in EIx(g) : End(g, e, d) = n => \E i \in DOMAIN c : c[i] = e
         /\ Links(g, n, d)[Len(c)] = Sentinel
  <1> DEFINE B == At(g, n, d, EIx(g)) \cup {Sentinel}
  <1>1. \A x : x \in B <=> x = Sentinel \/ (x \in EIx(g) /\ End(g, x, d) = n)
    BY DEF At
  <1>2. PICK r : Threads(g, d, EIx(g), r)
    BY DEF Threaded
  <1>3. Descends(g, n, d, B, Sentinel, r)
    BY <1>2, ThreadsDescend
  <1> HIDE DEF B
  <1>4. Sentinel \notin EIx(g)
    BY PartTypes
  <1>5. /\ Len(c) \in Nat /\ DOMAIN c = 1..Len(c)
        /\ \A i \in DOMAIN c : c[i] \in B /\ c[i] # Sentinel
        /\ \A i, j \in DOMAIN c : c[i] = c[j] => i = j
        /\ \A e \in B : e # Sentinel => \E i \in DOMAIN c : c[i] = e
        /\ Links(g, n, d)[Len(c)] = Sentinel
    BY <1>3, ChainDescends
  <1> QED
    BY <1>1, <1>4, <1>5

(***************************************************************************)
(* Taking out a node without edges: the edges of the node that moved to    *)
(* its position follow it, and nothing else changes.                       *)
(***************************************************************************)
LEMMA NodeRemoved ==
  ASSUME NEW g \in Tables, Threaded(g, EIx(g)), NEW n \in NIx(g),
         \A e \in EIx(g), d \in Dirs : End(g, e, d) # n,
         NEW h, h = RemoveNodeInner(g, n), NEW gone, gone = Gone(DenseNodes, g.nodes, n)
  PROVE  /\ h \in Tables /\ EIx(h) = EIx(g) /\ gone \in NIx(g)
         /\ \A x : x \in NIx(h) <=> x \in NIx(g) /\ x # gone
         /\ \A x \in NIx(h) : h.nodes[x].val = g.nodes[Renamed(x, n, gone)].val
         /\ \A e \in EIx(g) : h.edges[e].val = g.edges[e].val
         /\ \A e \in EIx(g), d \in Dirs : End(h, e, d) = Renamed(End(g, e, d), gone, n)
         /\ Threaded(h, EIx(h))
  <1> DEFINE k == TakeNodeEntry(g, n)
             B(x) == Renamed(x, n, gone)
  <1>1. k = TakeNodeEntry(g, n) /\ \A x : B(x) = IF x = n THEN gone ELSE x
    BY DEF Renamed
  <1> HIDE DEF k, B
  <1>2. /\ k \in Tables /\ EIx(k) = EIx(g)
        /\ \A e \in EIx(g) : k.edges[e].val = g.edges[e].val
        /\ gone \in NIx(g)
        /\ \A x : x \in NIx(k) <=> x \in NIx(g) /\ x # gone
        /\ \A x \in NIx(k) : k.nodes[x] = IF x = n THEN g.nodes[gone] ELSE g.nodes[x]
        /\ \A x \in NIx(k), d \in Dirs : First(k, x, d) = First(g, IF x = n THEN gone ELSE x, d)
        /\ \A e \in EIx(g), d \in Dirs :
             Succ(k, e, d) = Succ(g, e, d) /\ End(k, e, d) = End(g, e, d)
        /\ Relocates(DenseNodes, g.nodes, n) => gone # n
        /\ ~Relocates(DenseNodes, g.nodes, n) => gone = n
    <2>1. NodeEntryLess(g, n, k, gone)
      BY <1>1, NodeEntryTaken
    <2> QED
      BY <2>1 DEF NodeEntryLess
  <1>3. /\ \A x \in NIx(k) : k.nodes[x].val = g.nodes[B(x)].val
        /\ \A x \in NIx(k), d \in Dirs : First(k, x, d) = First(g, B(x), d)
        /\ \A x \in NIx(k) : B(x) \in NIx(g)
    <2>1. \A x \in NIx(k) : k.nodes[x] = g.nodes[B(x)]
      BY <1>1, <1>2
    <2>2. \A x \in NIx(k) : k.nodes[x].val = g.nodes[B(x)].val
      BY <2>1, Zenon
    <2> QED
      BY <1>1, <1>2, <2>2
  <1>4. CASE ~Relocates(DenseNodes, g.nodes, n)
    <2>1. h = k /\ gone = n
      BY <1>2, <1>4, Zenon DEF RemoveNodeInner, k
    <2>2. ASSUME NEW d \in Dirs PROVE \E r : Threads(k, d, EIx(k), r)
      <3>1. PICK r : Threads(g, d, EIx(g), r)
        BY DEF Threaded
      <3>2. \A x \in NIx(k) : First(k, x, d) = First(g, x, d) /\ x \in NIx(g)
        BY <1>1, <1>2, <1>3, <2>1
      <3>3. \A e \in EIx(g) : End(g, e, d) \in NIx(k)
        BY <1>2, <2>1, <3>1 DEF Threads
      <3>4. Threads(k, d, EIx(g), r)
        BY <1>2, <3>1, <3>2, <3>3 DEF Threads
      <3> QED
        BY <1>2, <3>4
    <2>3. Threaded(k, EIx(k))
      BY <2>2 DEF Threaded
    <2>4. \A e \in EIx(g), d \in Dirs : End(k, e, d) = Renamed(End(g, e, d), gone, n)
      BY <1>2, <2>1 DEF Renamed
    <2> QED
      BY <1>2, <1>3, <2>1, <2>3, <2>4 DEF B
  <1>5. CASE Relocates(DenseNodes, g.nodes, n)
    <2>1. gone # n /\ n \in NIx(k) /\ h = Reattach(k, n)
      BY <1>2, <1>5, Zenon DEF RemoveNodeInner, k
    <2>2. /\ h \in Tables /\ NIx(h) = NIx(k) /\ EIx(h) = EIx(k) /\ h.nodes = k.nodes
          /\ \A e \in EIx(k) : h.edges[e].val = k.edges[e].val
          /\ \A x \in NIx(k), d \in Dirs : First(h, x, d) = First(k, x, d)
          /\ \A e \in EIx(k), d \in Dirs :
               /\ Succ(h, e, d) = Succ(k, e, d)
               /\ End(h, e, d) = IF e \in ToSet(Chain(k, n, d)) THEN n ELSE End(k, e, d)
      BY <1>2, <2>1, EdgesReattached
    <2>3. ASSUME NEW d \in Dirs, NEW e \in EIx(g)
          PROVE  e \in ToSet(Chain(k, n, d)) <=> End(g, e, d) = gone
      <3> DEFINE A == At(g, gone, d, EIx(g)) \cup {Sentinel}
                 c == Chain(k, n, d)
      <3>1. \A x : x \in A <=> x = Sentinel \/ (x \in EIx(g) /\ End(g, x, d) = gone)
        BY DEF At
      <3>2. PICK r : Threads(g, d, EIx(g), r)
        BY DEF Threaded
      <3>3. Descends(g, gone, d, A, Sentinel, r)
        BY <1>2, <3>2, ThreadsDescend
      <3> HIDE DEF A
      <3>4. First(k, n, d) = First(g, gone, d)
        BY <1>2, <2>1
      <3>5. Descends(k, n, d, A, Sentinel, r)
        BY <1>2, <3>3, <3>4 DEF Descends
      <3> HIDE DEF c
      <3>6. /\ \A i \in DOMAIN c : c[i] \in A /\ c[i] # Sentinel
            /\ \A x \in A : x # Sentinel => \E i \in DOMAIN c : c[i] = x
        BY <1>2, <2>1, <3>5, ChainDescends DEF c
      <3>7. e # Sentinel
        BY PartTypes
      <3>8. e \in ToSet(c) <=> \E i \in DOMAIN c : c[i] = e
        BY DEF ToSet
      <3>9. e \in ToSet(c) <=> End(g, e, d) = gone
        BY <3>1, <3>6, <3>7, <3>8
      <3> QED
        BY <3>9 DEF c
    <2>4. \A e \in EIx(g), d \in Dirs : End(h, e, d) = Renamed(End(g, e, d), gone, n)
      BY <1>2, <2>2, <2>3 DEF Renamed
    <2>5. ASSUME NEW d \in Dirs PROVE \E r : Threads(h, d, EIx(h), r)
      <3>1. PICK r : Threads(g, d, EIx(g), r)
        BY DEF Threaded
      <3>2. \A x \in NIx(h) : First(h, x, d) = First(g, B(x), d) /\ B(x) \in NIx(g)
        BY <1>3, <2>2
      <3>3. \A e \in EIx(g) : /\ Succ(h, e, d) = Succ(g, e, d)
                              /\ End(h, e, d) = IF End(g, e, d) = gone THEN n ELSE End(g, e, d)
                              /\ End(g, e, d) # n /\ End(g, e, d) \in NIx(g)
        BY <1>2, <2>2, <2>4, <3>1 DEF Renamed, Threads
      <3>4. /\ \A x : x \in NIx(h) <=> x \in NIx(g) /\ x # gone
            /\ \A x : B(x) = IF x = n THEN gone ELSE x
            /\ n \in NIx(h) /\ EIx(h) = EIx(g) /\ gone # n
        BY <1>1, <1>2, <2>1, <2>2
      <3>5. /\ \A e \in EIx(g) : End(h, e, d) \in NIx(h)
            /\ \A x \in NIx(h), e \in EIx(g) : End(h, e, d) = x <=> End(g, e, d) = B(x)
            /\ \A e, f \in EIx(g) : End(h, e, d) = End(h, f, d) <=> End(g, e, d) = End(g, f, d)
        BY <3>3, <3>4
      <3>6. Threads(h, d, EIx(g), r)
        BY <3>1, <3>2, <3>3, <3>4, <3>5 DEF Threads
      <3> QED
        BY <3>4, <3>6
    <2>6. Threaded(h, EIx(h))
      BY <2>5 DEF Threaded
    <2>7. /\ \A e \in EIx(g) : h.edges[e].val = g.edges[e].val
          /\ \A x \in NIx(h) : h.nodes[x].val = g.nodes[B(x)].val
      BY <1>2, <1>3, <2>2
    <2> QED
      BY <1>2, <2>2, <2>4, <2>6, <2>7 DEF B
  <1> QED
    BY <1>4, <1>5

-----------------------------------------------------------------------------
(***************************************************************************)
(* An edge of h is, under another index perhaps, an edge of g.             *)
(***************************************************************************)
SameEdge(g, x, h, y) ==
  /\ g.edges[x].val = h.edges[y].val
  /\ \A c \in Dirs : End(g, x, c) = End(h, y, c)

(***************************************************************************)
(* h is g without edge e: another edge may have got its index.             *)
(***************************************************************************)
LessEdge(g, e, h) ==
  /\ NIx(h) = NIx(g) /\ \A m \in NIx(g) : h.nodes[m].val = g.nodes[m].val
  /\ Size(h.edges) = Size(g.edges) - 1
  /\ \E gone \in EIx(g) :
       /\ \A x : x \in EIx(h) <=> x \in EIx(g) /\ x # gone
       /\ \A x \in EIx(h) : SameEdge(g, Renamed(x, e, gone), h, x)
       /\ DenseEdges \/ gone = e

(***************************************************************************)
(* take_edge removes the edge, and the chains stay intact.                 *)
(***************************************************************************)
LEMMA EdgeTaken ==
  ASSUME NEW g \in Tables, Threaded(g, EIx(g)), NEW e \in EIx(g),
         NEW d \in Dirs, NEW o, o = Other(d),
         NEW k, k = ReplaceInList(g, End(g, e, d), d, e, Succ(g, e, d)),
         NEW l, l = ReplaceInList(k, End(g, e, o), o, e, Succ(g, e, o)),
         NEW h, h = TakeAndRelink(l, e)
  PROVE  h \in Tables /\ LessEdge(g, e, h) /\ Threaded(h, EIx(h))
  <1> DEFINE R == EIx(g) \ {e}
             gone == Gone(DenseEdges, l.edges, e)
  <1>1. /\ \A x : x \in R <=> x \in EIx(g) /\ x # e
        /\ gone = Gone(DenseEdges, l.edges, e)
    OBVIOUS
  <1> HIDE DEF R, gone
  <1>2. /\ l \in Tables /\ NIx(l) = NIx(g) /\ EIx(l) = EIx(g) /\ Size(l.edges) = Size(g.edges)
        /\ \A m \in NIx(g) : l.nodes[m].val = g.nodes[m].val
        /\ \A x \in EIx(g) : l.edges[x].val = g.edges[x].val
        /\ \A x \in EIx(g), c \in Dirs : End(l, x, c) = End(g, x, c)
        /\ Threaded(l, R)
    BY <1>1, UnlinkedBoth
  <1>3. /\ e \in EIx(l) /\ \A x : x \in R <=> x \in EIx(l) /\ x # e
    BY <1>1, <1>2
  <1>4. /\ h \in Tables /\ NIx(h) = NIx(l) /\ Size(h.edges) = Size(l.edges) - 1
        /\ gone \in EIx(l)
        /\ \A m \in NIx(l) : h.nodes[m].val = l.nodes[m].val
        /\ \A x : x \in EIx(h) <=> x \in EIx(l) /\ x # gone
        /\ \A x \in EIx(h) : h.edges[x].val = l.edges[Renamed(x, e, gone)].val
        /\ \A x \in EIx(h), c \in Dirs : End(h, x, c) = End(l, Renamed(x, e, gone), c)
        /\ Threaded(h, EIx(h))
    BY <1>1, <1>2, <1>3, TakenAndRelinked
  <1>5. \A x \in EIx(h) : Renamed(x, e, gone) \in EIx(g)
    BY <1>2, <1>4 DEF Renamed
  <1>6. \A x \in EIx(h) : SameEdge(g, Renamed(x, e, gone), h, x)
    BY <1>2, <1>4, <1>5 DEF SameEdge
  <1>7. DenseEdges \/ gone = e
    BY <1>1 DEF Gone, Relocates
  <1>8. LessEdge(g, e, h)
    BY <1>2, <1>4, <1>6, <1>7 DEF LessEdge
  <1> QED
    BY <1>4, <1>8

(***************************************************************************)
(* The one-at-a-time removal of an edge.                                   *)
(***************************************************************************)
LEMMA TakeEdgeThreaded ==
  ASSUME NEW g \in Tables, Threaded(g, EIx(g)), NEW e \in EIx(g), NEW h, h = TakeEdge(g, e)
  PROVE  h \in Tables /\ LessEdge(g, e, h) /\ Threaded(h, EIx(h))
  <1> DEFINE k == ReplaceInList(g, End(g, e, OUTGOING), OUTGOING, e, Succ(g, e, OUTGOING))
             l == ReplaceInList(k, End(g, e, INCOMING), INCOMING, e, Succ(g, e, INCOMING))
  <1>1. h = TakeAndRelink(l, e)
    BY Zenon DEF TakeEdge, End, Succ
  <1>2. OUTGOING \in Dirs /\ INCOMING = Other(OUTGOING)
    BY DEF OUTGOING, INCOMING, Dirs, Other
  <1>3. /\ k = ReplaceInList(g, End(g, e, OUTGOING), OUTGOING, e, Succ(g, e, OUTGOING))
        /\ l = ReplaceInList(k, End(g, e, INCOMING), INCOMING, e, Succ(g, e, INCOMING))
    OBVIOUS
  <1> HIDE DEF k, l
  <1> QED
    BY <1>1, <1>2, <1>3, EdgeTaken

(***************************************************************************)
(* A turn of the loop of take_node.                                        *)
(***************************************************************************)
LEMMA DrainTurnThreaded ==
  ASSUME NEW g \in Tables, Threaded(g, EIx(g)), NEW n \in NIx(g), NEW d \in Dirs,
         NEW h, h = DrainTurn(g, n, d), NEW e, e = First(g, n, d)
  PROVE  /\ e = Sentinel => h = g /\ \A x \in EIx(g) : End(g, x, d) # n
         /\ e # Sentinel => /\ h \in Tables /\ LessEdge(g, e, h) /\ Threaded(h, EIx(h))
                            /\ e \in EIx(g) /\ End(g, e, d) = n
  <1>1. PICK r : Threads(g, d, EIx(g), r)
    BY DEF Threaded
  <1>2. CASE e = Sentinel
    <2>1. h = g
      BY <1>2, Zenon DEF DrainTurn, IsIndex, First
    <2>2. ASSUME NEW x \in EIx(g), End(g, x, d) = n PROVE FALSE
      <3>1. r[x] <= r[e] /\ r[e] < r[x] /\ r[x] \in Int /\ r[e] \in Int
        BY <1>1, <1>2, <2>2 DEF Threads
      <3> QED
        BY <3>1
    <2> QED
      BY <1>2, <2>1, <2>2
  <1>3. CASE e # Sentinel
    <2>1. h = DrainHead(g, n, d)
      BY <1>3, Zenon DEF DrainTurn, IsIndex, First
    <2>2. e \in EIx(g) /\ End(g, e, d) = n
      BY <1>1, <1>3 DEF Threads
    <2> DEFINE o == Other(d)
               k == ReplaceInList(g, n, d, e, Succ(g, e, d))
               l == ReplaceInList(k, End(g, e, o), o, e, Succ(g, e, o))
    <2>3. Links(g, n, d)[0] = e
      BY LinksUnfold
    <2>4. k = [g EXCEPT !.nodes[n].next[d] = Succ(g, e, d)]
      BY <2>3, Zenon DEF ReplaceInList
    <2>5. h = TakeAndRelink(ReplaceInList([g EXCEPT !.nodes[n].next[d] = Succ(g, e, d)],
                                          End(g, e, o), o, e, Succ(g, e, o)), e)
      BY <2>1, Zenon DEF DrainHead, End, Succ, First
    <2>6. h = TakeAndRelink(l, e)
      BY <2>4, <2>5, Zenon
    <2>7. /\ k = ReplaceInList(g, End(g, e, d), d, e, Succ(g, e, d))
          /\ l = ReplaceInList(k, End(g, e, o), o, e, Succ(g, e, o))
          /\ o = Other(d)
      BY <2>2, Zenon
    <2> HIDE DEF o, k, l
    <2>8. h \in Tables /\ LessEdge(g, e, h) /\ Threaded(h, EIx(h))
      BY <2>2, <2>6, <2>7, EdgeTaken
    <2> QED
      BY <1>3, <2>2, <2>8
  <1> QED
    BY <1>2, <1>3

-----------------------------------------------------------------------------
(***************************************************************************)
(* No two edges have the same payload, and the index of an edge of a map   *)
(* is its payload.                                                         *)
(***************************************************************************)
EdgesDistinct(g) ==
  /\ \A x, y \in EIx(g) : g.edges[x].val = g.edges[y].val => x = y
  /\ DenseEdges \/ \A x \in EIx(g) : g.edges[x].val = x

(***************************************************************************)
(* An edge less: the other edges are the same.                             *)
(***************************************************************************)
LEMMA LessEdgeKeeps ==
  ASSUME NEW g, NEW h, NEW e \in EIx(g), LessEdge(g, e, h)
  PROVE  /\ \A x \in EIx(h) : \E y \in EIx(g) : y # e /\ SameEdge(g, y, h, x)
         /\ \A y \in EIx(g) : y # e => \E x \in EIx(h) : SameEdge(g, y, h, x)
         /\ EdgesDistinct(g) => EdgesDistinct(h)
  <1>1. PICK gone \in EIx(g) :
       /\ \A x : x \in EIx(h) <=> x \in EIx(g) /\ x # gone
       /\ \A x \in EIx(h) : SameEdge(g, Renamed(x, e, gone), h, x)
       /\ DenseEdges \/ gone = e
    BY DEF LessEdge
  <1>2. \A x : Renamed(x, e, gone) = IF x = e THEN gone ELSE x
    BY DEF Renamed
  <1>3. ASSUME NEW x \in EIx(h) PROVE \E y \in EIx(g) : y # e /\ SameEdge(g, y, h, x)
    <2>1. Renamed(x, e, gone) \in EIx(g) /\ Renamed(x, e, gone) # e
      BY <1>1, <1>2
    <2> QED
      BY <1>1, <2>1
  <1>4. ASSUME NEW y \in EIx(g), y # e PROVE \E x \in EIx(h) : SameEdge(g, y, h, x)
    <2>1. CASE y = gone
      <3>1. e \in EIx(h) /\ Renamed(e, e, gone) = y
        BY <1>1, <1>2, <1>4, <2>1
      <3> QED
        BY <1>1, <3>1
    <2>2. CASE y # gone
      <3>1. y \in EIx(h) /\ Renamed(y, e, gone) = y
        BY <1>1, <1>2, <1>4, <2>2
      <3> QED
        BY <1>1, <3>1
    <2> QED
      BY <2>1, <2>2
  <1>5. ASSUME EdgesDistinct(g) PROVE EdgesDistinct(h)
    <2> DEFINE B(x) == Renamed(x, e, gone)
    <2>1. /\ \A x \in EIx(h) : B(x) \in EIx(g) /\ h.edges[x].val = g.edges[B(x)].val
          /\ \A x, y \in EIx(h) : B(x) = B(y) => x = y
          /\ DenseEdges \/ \A x \in EIx(h) : B(x) = x
      BY <1>1, <1>2 DEF SameEdge
    <2> HIDE DEF B
    <2>2. \A x, y \in EIx(h) : h.edges[x].val = h.edges[y].val => x = y
      BY <1>5, <2>1 DEF EdgesDistinct
    <2>3. DenseEdges \/ \A x \in EIx(h) : h.edges[x].val = x
      BY <1>5, <2>1 DEF EdgesDistinct
    <2> QED
      BY <2>2, <2>3 DEF EdgesDistinct
  <1> QED
    BY <1>3, <1>4, <1>5

(***************************************************************************)
(* h is g without some edges that end, in direction d, at n.               *)
(***************************************************************************)
Drained(g, h, n, d) ==
  /\ NIx(h) = NIx(g) /\ \A m \in NIx(g) : h.nodes[m].val = g.nodes[m].val
  /\ \A x \in EIx(h) : \E y \in EIx(g) : SameEdge(g, y, h, x)
  /\ \A y \in EIx(g) : End(g, y, d) # n => \E x \in EIx(h) : SameEdge(g, y, h, x)
  /\ EdgesDistinct(g) => EdgesDistinct(h)

(***************************************************************************)
(* One more such edge may go.                                              *)
(***************************************************************************)
LEMMA DrainedMore ==
  ASSUME NEW g, NEW k, NEW h, NEW n, NEW d \in Dirs, NEW e \in EIx(k),
         Drained(g, k, n, d), LessEdge(k, e, h), End(k, e, d) = n
  PROVE  Drained(g, h, n, d)
  <1>1. /\ \A x \in EIx(h) : \E y \in EIx(k) : SameEdge(k, y, h, x)
        /\ \A y \in EIx(k) : y # e => \E x \in EIx(h) : SameEdge(k, y, h, x)
        /\ EdgesDistinct(k) => EdgesDistinct(h)
    BY LessEdgeKeeps
  <1>2. \A x, y, z : SameEdge(g, x, k, y) /\ SameEdge(k, y, h, z) => SameEdge(g, x, h, z)
    BY DEF SameEdge
  <1>3. \A x \in EIx(h) : \E y \in EIx(g) : SameEdge(g, y, h, x)
    BY <1>1, <1>2 DEF Drained
  <1>4. ASSUME NEW y \in EIx(g), End(g, y, d) # n PROVE \E x \in EIx(h) : SameEdge(g, y, h, x)
    <2>1. PICK z \in EIx(k) : SameEdge(g, y, k, z)
      BY <1>4 DEF Drained
    <2>2. z # e
      BY <1>4, <2>1 DEF SameEdge
    <2> QED
      BY <1>1, <1>2, <2>1, <2>2
  <1> QED
    BY <1>1, <1>3, <1>4 DEF Drained, LessEdge

(***************************************************************************)
(* The loop of take_node over a chain removes all edges that end at n in   *)
(* that direction, and no others.                                          *)
(***************************************************************************)
LEMMA ChainDrained ==
  ASSUME NEW g \in Tables, Threaded(g, EIx(g)), NEW n \in NIx(g), NEW d \in Dirs,
         NEW h, h = DrainChain(g, n, d)
  PROVE  /\ h \in Tables /\ Threaded(h, EIx(h)) /\ Drained(g, h, n, d)
         /\ \A x \in EIx(h) : End(h, x, d) # n
  <1> DEFINE m       == Size(g.edges)
             Turn(x) == DrainTurn(x, n, d)
             after   == CHOOSE f : f = [k \in 0..m |-> IF k = 0 THEN g ELSE DrainTurn(f[k - 1], n, d)]
             Good(x, k) == /\ Threaded(x, EIx(x)) /\ Drained(g, x, n, d)
                           /\ First(x, n, d) = Sentinel \/ Size(x.edges) = m - k
             In      == [k \in 0..m |-> {x \in Tables : Good(x, k)}]
             step    == [k \in 1..m |-> [x \in Tables |-> Turn(x)]]
  <1> HIDE DEF m, In, step, after, Good, Turn
  <1>1. h = after[m]
    BY Zenon DEF DrainChain, after, m
  <1>2. m \in Nat
    BY PartTypes DEF m
  <1>3. \A k \in 0..m : \A x : x \in In[k] <=> x \in Tables /\ Good(x, k)
    BY DEF In
  <1>4. g \in In[0]
    <2>1. \A x \in EIx(g) : SameEdge(g, x, g, x)
      BY DEF SameEdge
    <2>2. Drained(g, g, n, d)
      BY <2>1 DEF Drained
    <2>3. Size(g.edges) = m - 0
      BY <1>2 DEF m
    <2> QED
      BY <1>2, <1>3, <2>2, <2>3 DEF Good
  <1>5. ASSUME NEW k \in 1..m, NEW x \in In[k - 1] PROVE Turn(x) \in In[k]
    <2> DEFINE e == First(x, n, d)
               y == Turn(x)
    <2>1. k - 1 \in 0..m /\ k \in 0..m
      BY <1>2
    <2>2. x \in Tables /\ Good(x, k - 1)
      BY <1>3, <2>1
    <2>3. n \in NIx(x) /\ Threaded(x, EIx(x)) /\ Drained(g, x, n, d)
      BY <2>2 DEF Good, Drained
    <2>4. y = DrainTurn(x, n, d) /\ e = First(x, n, d)
      BY DEF Turn
    <2> HIDE DEF e, y
    <2>5. /\ e = Sentinel => y = x /\ \A z \in EIx(x) : End(x, z, d) # n
          /\ e # Sentinel => /\ y \in Tables /\ LessEdge(x, e, y) /\ Threaded(y, EIx(y))
                             /\ e \in EIx(x) /\ End(x, e, d) = n
      BY <2>2, <2>3, <2>4, DrainTurnThreaded
    <2>6. y \in Tables /\ Good(y, k)
      <3>1. CASE e = Sentinel
        BY <2>2, <2>3, <2>4, <2>5, <3>1 DEF Good
      <3>2. CASE e # Sentinel
        <4>1. Drained(g, y, n, d)
          BY <2>3, <2>5, <3>2, DrainedMore
        <4>2. Size(x.edges) = m - (k - 1)
          BY <2>2, <2>4, <3>2 DEF Good
        <4>3. Size(y.edges) = Size(x.edges) - 1
          BY <2>5, <3>2 DEF LessEdge
        <4>4. Size(y.edges) = m - k
          BY <1>2, <4>2, <4>3
        <4> QED
          BY <2>5, <3>2, <4>1, <4>4 DEF Good
      <3> QED
        BY <3>1, <3>2
    <2>7. y \in In[k]
      BY <1>3, <2>1, <2>6
    <2> QED
      BY <2>7 DEF y
  <1>6. \A k \in 1..m : \A x \in In[k - 1] : step[k][x] = Turn(x) /\ step[k][x] \in In[k]
    <2>1. \A k \in 1..m : k - 1 \in 0..m
      BY <1>2
    <2>2. \A k \in 1..m : \A x \in In[k - 1] : x \in Tables
      BY <1>3, <2>1
    <2>3. \A k \in 1..m : \A x \in Tables : step[k][x] = Turn(x)
      BY DEF step
    <2> QED
      BY <1>5, <2>2, <2>3
  <1>7. PICK f : Iterates(f, m, In, g, step)
    BY <1>2, <1>4, <1>6, IterationExists
  <1>8. f = [k \in 0..m |-> IF k = 0 THEN g ELSE Turn(f[k - 1])]
    <2>1. ASSUME NEW k \in 0..m
          PROVE  f[k] = IF k = 0 THEN g ELSE Turn(f[k - 1])
      <3>1. CASE k = 0
        BY <1>7, <3>1 DEF Iterates
      <3>2. CASE k # 0
        <4>1. k \in 1..m /\ k - 1 \in 0..m
          BY <1>2, <3>2
        <4> QED
          BY <1>6, <1>7, <3>2, <4>1 DEF Iterates
      <3> QED
        BY <3>1, <3>2
    <2> QED
      BY <1>7, <2>1 DEF Iterates
  <1>9. f = [k \in 0..m |-> IF k = 0 THEN g ELSE DrainTurn(f[k - 1], n, d)]
    BY <1>8, Zenon DEF Turn
  <1>10. after = [k \in 0..m |-> IF k = 0 THEN g ELSE DrainTurn(after[k - 1], n, d)]
    BY <1>9, Zenon DEF after
  <1>11. after = [k \in 0..m |-> IF k = 0 THEN g ELSE Turn(after[k - 1])]
    BY <1>10, Zenon DEF Turn
  <1>12. after[m] \in In[m]
    <2> DEFINE T == {k \in 0..m : after[k] \in In[k]}
    <2>1. 0 \in T
      BY <1>2, <1>4, <1>11
    <2>2. ASSUME NEW k \in 1..m, k - 1 \in T PROVE k \in T
      <3>1. after[k] = Turn(after[k - 1])
        BY <1>2, <1>11
      <3>2. after[k - 1] \in In[k - 1]
        BY <2>2
      <3> QED
        BY <1>5, <3>1, <3>2
    <2>3. \A k \in 0..m : k \in T
      <3> HIDE DEF T
      <3> QED
        BY <1>2, <2>1, <2>2, RoundInduction
    <2>4. m \in 0..m
      BY <1>2
    <2> QED
      BY <2>3, <2>4
  <1>13. h \in Tables /\ Good(h, m)
    <2>1. m \in 0..m
      BY <1>2
    <2> QED
      BY <1>1, <1>3, <1>12, <2>1
  <1>14. h \in Tables /\ Threaded(h, EIx(h)) /\ Drained(g, h, n, d) /\ n \in NIx(h)
    BY <1>13 DEF Good, Drained
  <1>15. ASSUME NEW x \in EIx(h) PROVE End(h, x, d) # n
    <2>1. CASE First(h, n, d) = Sentinel
      <3>1. PICK r : Threads(h, d, EIx(h), r)
        BY <1>14 DEF Threaded
      <3>2. ASSUME End(h, x, d) = n PROVE FALSE
        <4>1. r[x] <= r[Sentinel] /\ r[Sentinel] < r[x] /\ r[x] \in Int /\ r[Sentinel] \in Int
          BY <1>14, <2>1, <3>1, <3>2 DEF Threads
        <4> QED
          BY <4>1
      <3> QED
        BY <3>2
    <2>2. CASE First(h, n, d) # Sentinel
      <3>1. Size(h.edges) = m - m
        BY <1>13, <2>2 DEF Good
      <3>2. IsFiniteSet(EIx(h)) /\ Cardinality(EIx(h)) = 0
        BY <1>2, <1>14, <3>1, PartTypes
      <3> QED
        BY <3>2, FS_EmptySet
    <2> QED
      BY <2>1, <2>2
  <1> QED
    BY <1>14, <1>15

-----------------------------------------------------------------------------
(***************************************************************************)
(* Edge x of g and edge y of h are the same up to the index of one node,   *)
(* which was gone and is n.                                                *)
(***************************************************************************)
SameButMoved(g, x, h, y, gone, n) ==
  /\ g.edges[x].val = h.edges[y].val
  /\ \A c \in Dirs : End(h, y, c) = Renamed(End(g, x, c), gone, n)

(***************************************************************************)
(* h is g without node n and the edges at it: another node may have got    *)
(* its index.                                                              *)
(***************************************************************************)
LessNode(g, n, h) ==
  /\ \E gone \in NIx(g) :
       /\ \A x : x \in NIx(h) <=> x \in NIx(g) /\ x # gone
       /\ \A x \in NIx(h) : h.nodes[x].val = g.nodes[Renamed(x, n, gone)].val
       /\ \A x \in EIx(h) : \E y \in EIx(g) : /\ \A c \in Dirs : End(g, y, c) # n
                                              /\ SameButMoved(g, y, h, x, gone, n)
       /\ \A y \in EIx(g) : (\A c \in Dirs : End(g, y, c) # n) =>
            \E x \in EIx(h) : SameButMoved(g, y, h, x, gone, n)
       /\ DenseNodes \/ gone = n
  /\ EdgesDistinct(g) => EdgesDistinct(h)

(***************************************************************************)
(* take_node removes the node and the edges at it, and the chains stay     *)
(* intact.                                                                 *)
(***************************************************************************)
LEMMA TakeNodeThreaded ==
  ASSUME NEW g \in Tables, Threaded(g, EIx(g)), NEW n \in NIx(g), NEW h, h = TakeNode(g, n)
  PROVE  h \in Tables /\ Threaded(h, EIx(h)) /\ LessNode(g, n, h)
  <1> DEFINE k == DrainChain(g, n, OUTGOING)
             l == DrainChain(k, n, INCOMING)
             gone == Gone(DenseNodes, l.nodes, n)
  <1>1. /\ h = RemoveNodeInner(l, n) /\ k = DrainChain(g, n, OUTGOING)
        /\ l = DrainChain(k, n, INCOMING) /\ gone = Gone(DenseNodes, l.nodes, n)
    BY Zenon DEF TakeNode
  <1> HIDE DEF k, l, gone
  <1>2. OUTGOING \in Dirs /\ INCOMING \in Dirs /\ \A c \in Dirs : c = OUTGOING \/ c = INCOMING
    BY TwoDirs
  <1>3. /\ k \in Tables /\ Threaded(k, EIx(k)) /\ Drained(g, k, n, OUTGOING)
        /\ \A x \in EIx(k) : End(k, x, OUTGOING) # n
    BY <1>1, <1>2, ChainDrained
  <1>4. NIx(k) = NIx(g)
    BY <1>3 DEF Drained
  <1>5. /\ l \in Tables /\ Threaded(l, EIx(l)) /\ Drained(k, l, n, INCOMING)
        /\ \A x \in EIx(l) : End(l, x, INCOMING) # n
    BY <1>1, <1>2, <1>3, <1>4, ChainDrained
  <1>6. /\ NIx(l) = NIx(g) /\ \A m \in NIx(g) : l.nodes[m].val = g.nodes[m].val
        /\ EdgesDistinct(g) => EdgesDistinct(l)
    BY <1>3, <1>5 DEF Drained
  <1>7. \A x, y, z : SameEdge(g, x, k, y) /\ SameEdge(k, y, l, z) => SameEdge(g, x, l, z)
    BY DEF SameEdge
  <1>8. \A x \in EIx(l) : \E y \in EIx(g) : SameEdge(g, y, l, x)
    BY <1>3, <1>5, <1>7 DEF Drained
  <1>9. ASSUME NEW y \in EIx(g), \A c \in Dirs : End(g, y, c) # n
        PROVE  \E x \in EIx(l) : SameEdge(g, y, l, x)
    <2>1. PICK z \in EIx(k) : SameEdge(g, y, k, z)
      BY <1>2, <1>3, <1>9 DEF Drained
    <2>2. End(k, z, INCOMING) # n
      BY <1>2, <1>9, <2>1 DEF SameEdge
    <2> QED
      BY <1>5, <1>7, <2>1, <2>2 DEF Drained
  <1>10. \A x \in EIx(l), c \in Dirs : End(l, x, c) # n
    <2>1. ASSUME NEW x \in EIx(l) PROVE End(l, x, OUTGOING) # n
      <3>1. PICK z \in EIx(k) : SameEdge(k, z, l, x)
        BY <1>5 DEF Drained
      <3> QED
        BY <1>2, <1>3, <3>1 DEF SameEdge
    <2> QED
      BY <1>2, <1>5, <2>1
  <1>11. n \in NIx(l)
    BY <1>6
  <1>12. /\ h \in Tables /\ EIx(h) = EIx(l) /\ gone \in NIx(l)
         /\ \A x : x \in NIx(h) <=> x \in NIx(l) /\ x # gone
         /\ \A x \in NIx(h) : h.nodes[x].val = l.nodes[Renamed(x, n, gone)].val
         /\ \A e \in EIx(l) : h.edges[e].val = l.edges[e].val
         /\ \A e \in EIx(l), d \in Dirs : End(h, e, d) = Renamed(End(l, e, d), gone, n)
         /\ Threaded(h, EIx(h))
    BY <1>1, <1>5, <1>10, <1>11, NodeRemoved
  <1>13. \A x \in NIx(h) : h.nodes[x].val = g.nodes[Renamed(x, n, gone)].val
    <2>1. \A x \in NIx(h) : Renamed(x, n, gone) \in NIx(g)
      BY <1>6, <1>12 DEF Renamed
    <2> QED
      BY <1>6, <1>12, <2>1
  <1>14. ASSUME NEW x \in EIx(l), NEW y, SameEdge(g, y, l, x)
         PROVE  SameButMoved(g, y, h, x, gone, n) /\ \A c \in Dirs : End(g, y, c) # n
    BY <1>10, <1>12, <1>14 DEF SameEdge, SameButMoved
  <1>15. /\ \A x \in EIx(h) : \E y \in EIx(g) : /\ \A c \in Dirs : End(g, y, c) # n
                                                /\ SameButMoved(g, y, h, x, gone, n)
         /\ \A y \in EIx(g) : (\A c \in Dirs : End(g, y, c) # n) =>
              \E x \in EIx(h) : SameButMoved(g, y, h, x, gone, n)
    BY <1>8, <1>9, <1>12, <1>14
  <1>16. EdgesDistinct(g) => EdgesDistinct(h)
    BY <1>6, <1>12 DEF EdgesDistinct
  <1>17. DenseNodes \/ gone = n
    BY <1>1 DEF Gone, Relocates
  <1>18. gone \in NIx(g) /\ \A x : x \in NIx(h) <=> x \in NIx(g) /\ x # gone
    BY <1>6, <1>12
  <1> QED
    BY <1>12, <1>13, <1>15, <1>16, <1>17, <1>18 DEF LessNode

-----------------------------------------------------------------------------
(***************************************************************************)
(* A new edge goes before the others on both its chains.                   *)
(***************************************************************************)
LEMMA InsertEdgeThreaded ==
  ASSUME NEW g \in Tables, Threaded(g, EIx(g)),
         NEW v \in EdgeVals, NEW from \in NIx(g), NEW to \in NIx(g),
         CanInsert(DenseEdges, g.edges, v), Size(g.edges) < MaxEdges,
         NEW h, h = InsertEdge(g, v, from, to)
  PROVE  h \in Tables /\ Threaded(h, EIx(h))
  <1> DEFINE e == IndexOfNew(DenseEdges, g.edges, v)
  <1>1. e = IndexOfNew(DenseEdges, g.edges, v)
    OBVIOUS
  <1> HIDE DEF e
  <1>2. /\ h \in Tables /\ NIx(h) = NIx(g)
        /\ e \notin EIx(g)
        /\ \A x : x \in EIx(h) <=> x \in EIx(g) \/ x = e
        /\ h.edges[e].val = v
        /\ \A x \in EIx(g) : h.edges[x] = g.edges[x]
        /\ \A n \in NIx(g) : h.nodes[n].val = g.nodes[n].val
        /\ \A d \in Dirs : /\ End(h, e, d) = EndOfNew(from, to, d)
                           /\ Succ(h, e, d) = First(g, EndOfNew(from, to, d), d)
        /\ \A n \in NIx(g), d \in Dirs :
             First(h, n, d) = IF n = EndOfNew(from, to, d) THEN e ELSE First(g, n, d)
        /\ \A x \in EIx(g), d \in Dirs :
             Succ(h, x, d) = Succ(g, x, d) /\ End(h, x, d) = End(g, x, d)
    BY <1>1, EdgeInserted
  <1>3. Sentinel \notin EIx(g) /\ Sentinel \notin EIx(h) /\ IsFiniteSet(EIx(g))
    BY <1>2, PartTypes
  <1>4. ASSUME NEW d \in Dirs PROVE \E q : Threads(h, d, EIx(h), q)
    <2> DEFINE n == EndOfNew(from, to, d)
               S == EIx(g)
    <2>1. n \in NIx(g)
      BY DEF EndOfNew
    <2>2. PICK r : Threads(g, d, S, r)
      BY DEF Threaded
    <2> HIDE DEF n, S
    <2>3. \E b \in Int : \A x \in S \cup {Sentinel} : r[x] < b
      <3>1. \A x \in S \cup {Sentinel} : r[x] \in Int
        BY <2>2 DEF Threads
      <3>2. IsFiniteSet(S \cup {Sentinel})
        BY <1>3, FS_AddElement DEF S
      <3>3. PICK y \in S \cup {Sentinel} : \A x \in S \cup {Sentinel} : r[x] <= r[y]
        <4> DEFINE A == S \cup {Sentinel}
        <4>1. \A x, y \in A : r[x] = r[y] => x = y
          BY <2>2 DEF Threads
        <4> HIDE DEF A
        <4>2. PICK m \in Nat : \E q : Falling(q, m, A, r)
          <5>1. A # {} /\ IsFiniteSet(A) /\ \A x \in A : r[x] \in Int
            BY <3>1, <3>2 DEF A
          <5> QED
            BY <4>1, <5>1, FallingExists
        <4>3. PICK q : Falling(q, m, A, r)
          BY <4>2
        <4>4. q[0] \in A /\ \A x \in A : r[x] <= r[q[0]]
          <5>1. 0 \in 0..m /\ \A x \in A : r[x] \in Int
            BY <3>1, <4>2 DEF A
          <5>2. ASSUME NEW x \in A PROVE r[x] <= r[q[0]]
            <6>1. PICK i \in 0..m : q[i] = x
              BY <4>3 DEF Falling
            <6>2. i = 0 \/ 0 < i
              OBVIOUS
            <6> QED
              BY <4>3, <5>1, <6>1, <6>2 DEF Falling
          <5> QED
            BY <4>3, <5>1, <5>2 DEF Falling
        <4> QED
          BY <4>4 DEF A
      <3>4. r[y] + 1 \in Int /\ \A x \in S \cup {Sentinel} : r[x] < r[y] + 1
        BY <3>1, <3>3
      <3> QED
        BY <3>4
    <2>4. PICK b \in Int : \A x \in S \cup {Sentinel} : r[x] < b
      BY <2>3
    <2> DEFINE q == [x \in EIx(h) \cup {Sentinel} |-> IF x = e THEN b ELSE r[x]]
    <2>5. /\ q[e] = b /\ \A x \in S \cup {Sentinel} : q[x] = r[x] /\ x # e
          /\ \A x \in S \cup {Sentinel} : r[x] \in Int
      BY <1>2, <1>3, <2>2 DEF S, Threads
    <2> HIDE DEF q
    <2>6. /\ \A x : x \in EIx(h) <=> x \in S \/ x = e
          /\ NIx(h) = NIx(g) /\ e \notin S /\ e # Sentinel
          /\ End(h, e, d) = n /\ Succ(h, e, d) = First(g, n, d)
          /\ \A m \in NIx(g) : First(h, m, d) = IF m = n THEN e ELSE First(g, m, d)
          /\ \A x \in S : Succ(h, x, d) = Succ(g, x, d) /\ End(h, x, d) = End(g, x, d)
      BY <1>2, <1>3 DEF S, n
    <2>7. /\ \A x \in EIx(h) \cup {Sentinel} : q[x] \in Int
          /\ \A x, y \in EIx(h) : q[x] = q[y] => x = y
          /\ \A x \in EIx(h) : q[Sentinel] < q[x]
          /\ \A x \in EIx(h) : End(h, x, d) \in NIx(h)
      BY <2>1, <2>2, <2>4, <2>5, <2>6 DEF Threads
    <2>8. ASSUME NEW m \in NIx(h)
          PROVE /\ First(h, m, d) \in EIx(h) \cup {Sentinel}
                /\ First(h, m, d) \in EIx(h) => End(h, First(h, m, d), d) = m
                /\ \A x \in EIx(h) : End(h, x, d) = m => q[x] <= q[First(h, m, d)]
      <3>1. /\ First(g, m, d) \in S \cup {Sentinel}
            /\ First(g, m, d) \in S => End(g, First(g, m, d), d) = m
            /\ \A x \in S : End(g, x, d) = m => r[x] <= r[First(g, m, d)]
        BY <2>2, <2>6 DEF Threads
      <3>2. CASE m = n
        <4>1. First(h, m, d) = e
          BY <2>6, <3>2
        <4>2. \A x \in EIx(h) : q[x] <= q[e]
          BY <2>4, <2>5, <2>6
        <4> QED
          BY <2>6, <3>2, <4>1, <4>2
      <3>3. CASE m # n
        <4>1. First(h, m, d) = First(g, m, d)
          BY <2>6, <3>3
        <4>2. \A x \in EIx(h) : End(h, x, d) = m => x \in S /\ End(g, x, d) = m
          BY <2>6, <3>3
        <4> QED
          BY <1>3, <2>5, <2>6, <3>1, <4>1, <4>2 DEF S
      <3> QED
        BY <3>2, <3>3
    <2>9. ASSUME NEW p \in EIx(h)
          PROVE /\ Succ(h, p, d) \in EIx(h) \cup {Sentinel}
                /\ Succ(h, p, d) \in EIx(h) => End(h, Succ(h, p, d), d) = End(h, p, d)
                /\ q[Succ(h, p, d)] < q[p]
                /\ \A x \in EIx(h) : End(h, x, d) = End(h, p, d) /\ q[x] < q[p] => q[x] <= q[Succ(h, p, d)]
      <3>1. CASE p = e
        <4>1. /\ First(g, n, d) \in S \cup {Sentinel}
              /\ First(g, n, d) \in S => End(g, First(g, n, d), d) = n
              /\ \A x \in S : End(g, x, d) = n => r[x] <= r[First(g, n, d)]
          BY <2>1, <2>2 DEF Threads
        <4>2. q[First(g, n, d)] < q[e]
          BY <2>4, <2>5, <4>1
        <4>3. ASSUME NEW x \in EIx(h), End(h, x, d) = n, q[x] < q[e] PROVE q[x] <= q[First(g, n, d)]
          <5>1. x \in S
            BY <2>5, <2>6, <4>3
          <5> QED
            BY <2>5, <2>6, <4>1, <4>3, <5>1
        <4> QED
          BY <1>3, <2>6, <3>1, <4>1, <4>2, <4>3
      <3>2. CASE p # e
        <4>1. p \in S /\ Succ(h, p, d) = Succ(g, p, d) /\ End(h, p, d) = End(g, p, d)
          BY <2>6, <3>2
        <4>2. /\ Succ(g, p, d) \in S \cup {Sentinel}
              /\ Succ(g, p, d) \in S => End(g, Succ(g, p, d), d) = End(g, p, d)
              /\ r[Succ(g, p, d)] < r[p]
              /\ \A x \in S : End(g, x, d) = End(g, p, d) /\ r[x] < r[p] => r[x] <= r[Succ(g, p, d)]
          BY <2>2, <4>1 DEF Threads
        <4>3. ASSUME NEW x \in EIx(h), End(h, x, d) = End(h, p, d), q[x] < q[p]
              PROVE  q[x] <= q[Succ(g, p, d)]
          <5>1. x \in S
            BY <2>4, <2>5, <2>6, <4>1, <4>3
          <5> QED
            BY <2>5, <2>6, <4>1, <4>2, <4>3, <5>1
        <4> QED
          BY <1>3, <2>5, <2>6, <4>1, <4>2, <4>3 DEF S
      <3> QED
        BY <3>1, <3>2
    <2>10. Threads(h, d, EIx(h), q)
      BY <2>7, <2>8, <2>9 DEF Threads
    <2> QED
      BY <2>10
  <1>5. Threaded(h, EIx(h))
    BY <1>4 DEF Threaded
  <1> QED
    BY <1>2, <1>5

(***************************************************************************)
(* A new node has no edges.                                                *)
(***************************************************************************)
LEMMA InsertNodeThreaded ==
  ASSUME NEW g \in Tables, Threaded(g, EIx(g)),
         NEW v \in NodeVals, CanInsert(DenseNodes, g.nodes, v), NEW h, h = InsertNode(g, v)
  PROVE  h \in Tables /\ Threaded(h, EIx(h))
  <1> DEFINE n == IndexOfNew(DenseNodes, g.nodes, v)
  <1>1. n = IndexOfNew(DenseNodes, g.nodes, v)
    OBVIOUS
  <1> HIDE DEF n
  <1>2. /\ h \in Tables /\ EIx(h) = EIx(g)
        /\ n \notin NIx(g)
        /\ \A x : x \in NIx(h) <=> x \in NIx(g) \/ x = n
        /\ \A d \in Dirs : First(h, n, d) = Sentinel
        /\ \A x \in NIx(g), d \in Dirs : First(h, x, d) = First(g, x, d)
        /\ \A e \in EIx(g), d \in Dirs :
             Succ(h, e, d) = Succ(g, e, d) /\ End(h, e, d) = End(g, e, d)
    BY <1>1, NodeInserted
  <1>3. Sentinel \notin EIx(g)
    BY PartTypes
  <1>4. ASSUME NEW d \in Dirs PROVE \E r : Threads(h, d, EIx(h), r)
    <2>1. PICK r : Threads(g, d, EIx(g), r)
      BY DEF Threaded
    <2>2. \A e \in EIx(g) : End(h, e, d) \in NIx(g) /\ End(h, e, d) # n
      BY <1>2, <2>1 DEF Threads
    <2>3. ASSUME NEW m \in NIx(h)
          PROVE /\ First(h, m, d) \in EIx(g) \cup {Sentinel}
                /\ First(h, m, d) \in EIx(g) => End(h, First(h, m, d), d) = m
                /\ \A x \in EIx(g) : End(h, x, d) = m => r[x] <= r[First(h, m, d)]
      <3>1. CASE m = n
        BY <1>2, <1>3, <2>2, <3>1
      <3>2. CASE m # n
        <4>1. m \in NIx(g) /\ First(h, m, d) = First(g, m, d)
          BY <1>2, <3>2
        <4> QED
          BY <1>2, <2>1, <4>1 DEF Threads
      <3> QED
        BY <3>1, <3>2
    <2>4. Threads(h, d, EIx(g), r)
      BY <1>2, <2>1, <2>2, <2>3 DEF Threads
    <2> QED
      BY <1>2, <2>4
  <1> QED
    BY <1>2, <1>4 DEF Threaded

(***************************************************************************)
(* Reversal makes one set of chains the other.                             *)
(***************************************************************************)
LEMMA ReverseThreaded ==
  ASSUME NEW g \in Tables, Threaded(g, EIx(g)), NEW h, h = ReverseEdges(g)
  PROVE  h \in Tables /\ Threaded(h, EIx(h))
  <1>1. /\ h \in Tables /\ NIx(h) = NIx(g) /\ EIx(h) = EIx(g)
        /\ \A n \in NIx(g), d \in Dirs : First(h, n, d) = First(g, n, Other(d))
        /\ \A e \in EIx(g), d \in Dirs :
             Succ(h, e, d) = Succ(g, e, Other(d)) /\ End(h, e, d) = End(g, e, Other(d))
    BY EdgesReversed
  <1>2. ASSUME NEW d \in Dirs PROVE \E r : Threads(h, d, EIx(h), r)
    <2>1. Other(d) \in Dirs
      BY TwoDirs
    <2>2. PICK r : Threads(g, Other(d), EIx(g), r)
      BY <2>1 DEF Threaded
    <2>3. Threads(h, d, EIx(g), r)
      BY <1>1, <2>2 DEF Threads
    <2> QED
      BY <1>1, <2>3
  <1> QED
    BY <1>1, <1>2 DEF Threaded

(***************************************************************************)
(* An empty graph has no chains.                                           *)
(***************************************************************************)
LEMMA EmptyThreaded ==
  EmptyGraph \in Tables /\ Threaded(EmptyGraph, EIx(EmptyGraph)) /\ EIx(EmptyGraph) = {}
  <1>1. /\ EmptyGraph.nodes = <<>> /\ EmptyGraph.edges = <<>>
        /\ EmptyGraph = [nodes |-> <<>>, edges |-> <<>>]
    BY DEF EmptyGraph
  <1>2. /\ <<>> \in Colls(DenseNodes, NodeIndices, NodeEntries)
        /\ <<>> \in Colls(DenseEdges, EdgeIndices, EdgeEntries)
    BY CollEmpty
  <1>3. EmptyGraph \in Tables
    BY <1>1, <1>2, TablesIntro
  <1>4. NIx(EmptyGraph) = {} /\ EIx(EmptyGraph) = {}
    BY <1>1 DEF NIx, EIx
  <1>5. ASSUME NEW d \in Dirs PROVE \E r : Threads(EmptyGraph, d, EIx(EmptyGraph), r)
    <2> DEFINE r == [x \in {Sentinel} |-> 0]
    <2>1. r[Sentinel] \in Int
      OBVIOUS
    <2> HIDE DEF r
    <2>2. Threads(EmptyGraph, d, EIx(EmptyGraph), r)
      BY <1>4, <2>1 DEF Threads
    <2> QED
      BY <2>2
  <1> QED
    BY <1>3, <1>4, <1>5 DEF Threaded

-----------------------------------------------------------------------------
(***************************************************************************)
(* The inductive invariant: the entries have their shapes and the edges    *)
(* are threaded.                                                           *)
(***************************************************************************)
Linked == graph \in Tables /\ Threaded(graph, EIx(graph))

(***************************************************************************)
(* Every call keeps it.                                                    *)
(***************************************************************************)
LEMMA LinkedStep == Linked /\ [Next]_vars => Linked'
  <1> SUFFICES ASSUME Linked, [Next]_vars PROVE Linked'
    OBVIOUS
  <1>0. graph \in Tables /\ Threaded(graph, EIx(graph))
    BY DEF Linked
  <1>1. ASSUME NEW v \in NodeVals, InsertNodeCall(v) PROVE Linked'
    <2>1. CASE CanInsert(DenseNodes, graph.nodes, v)
      <3>1. graph' = InsertNode(graph, v)
        BY <1>1, <2>1, Zenon DEF InsertNodeCall
      <3>2. graph' \in Tables /\ Threaded(graph', EIx(graph'))
        BY <1>0, <2>1, <3>1, InsertNodeThreaded
      <3> QED
        BY <3>2, Zenon DEF Linked
    <2>2. CASE ~CanInsert(DenseNodes, graph.nodes, v)
      <3>1. graph' = graph
        BY <1>1, <2>2, Zenon DEF InsertNodeCall
      <3> QED
        BY <1>0, <3>1, Zenon DEF Linked
    <2> QED
      BY <2>1, <2>2
  <1>2. ASSUME NEW v \in EdgeVals, NEW from \in Nodes, NEW to \in Nodes, InsertEdgeCall(v, from, to)
        PROVE  Linked'
    <2>1. CASE CanInsert(DenseEdges, graph.edges, v)
      <3>1. graph' = InsertEdge(graph, v, from, to) /\ Size(graph.edges) < MaxEdges
        BY <1>2, <2>1, Zenon DEF InsertEdgeCall
      <3>2. from \in NIx(graph) /\ to \in NIx(graph)
        BY DEF Nodes, NIx
      <3>3. graph' \in Tables /\ Threaded(graph', EIx(graph'))
        BY <1>0, <2>1, <3>1, <3>2, InsertEdgeThreaded
      <3> QED
        BY <3>3, Zenon DEF Linked
    <2>2. CASE ~CanInsert(DenseEdges, graph.edges, v)
      <3>1. graph' = graph
        BY <1>2, <2>2, Zenon DEF InsertEdgeCall
      <3> QED
        BY <1>0, <3>1, Zenon DEF Linked
    <2> QED
      BY <2>1, <2>2
  <1>3. ASSUME NEW e \in Edges, TakeEdgeCall(e) PROVE Linked'
    <2>1. graph' = TakeEdge(graph, e) /\ e \in EIx(graph)
      BY <1>3, Zenon DEF TakeEdgeCall, Edges, EIx
    <2>2. graph' \in Tables /\ Threaded(graph', EIx(graph'))
      BY <1>0, <2>1, TakeEdgeThreaded
    <2> QED
      BY <2>2, Zenon DEF Linked
  <1>4. ASSUME NEW n \in Nodes, TakeNodeCall(n) PROVE Linked'
    <2>1. graph' = TakeNode(graph, n) /\ n \in NIx(graph)
      BY <1>4, Zenon DEF TakeNodeCall, Nodes, NIx
    <2>2. graph' \in Tables /\ Threaded(graph', EIx(graph'))
      BY <1>0, <2>1, TakeNodeThreaded
    <2> QED
      BY <2>2, Zenon DEF Linked
  <1>5. ASSUME ReverseCall PROVE Linked'
    <2>1. graph' = ReverseEdges(graph)
      BY <1>5, Zenon DEF ReverseCall
    <2>2. graph' \in Tables /\ Threaded(graph', EIx(graph'))
      BY <1>0, <2>1, ReverseThreaded
    <2> QED
      BY <2>2, Zenon DEF Linked
  <1>6. ASSUME UNCHANGED vars PROVE Linked'
    <2>1. graph' = graph
      BY <1>6, Zenon DEF vars
    <2> QED
      BY <1>0, <2>1, Zenon DEF Linked
  <1> QED
    BY <1>1, <1>2, <1>3, <1>4, <1>5, <1>6, Zenon DEF Next

(***************************************************************************)
(* The parts of TypeOK and ThreadedOnce it implies.                        *)
(***************************************************************************)
LEMMA LinkedTypeOK == Linked => TypeOK
  <1> SUFFICES ASSUME Linked PROVE TypeOK
    OBVIOUS
  <1> DEFINE Link == Edges \cup {Sentinel}
  <1>0. graph \in Tables /\ Threaded(graph, EIx(graph)) /\ Nodes = NIx(graph) /\ Edges = EIx(graph)
    BY Zenon DEF Linked, Nodes, Edges, NIx, EIx
  <1>1. /\ graph.nodes \in Colls(DenseNodes, NodeIndices, NodeEntries)
        /\ graph.edges \in Colls(DenseEdges, EdgeIndices, EdgeEntries)
    BY <1>0, TablesElim
  <1>2. DenseNodes => Nodes = 0..Size(graph.nodes) - 1
    <2>1. ASSUME DenseNodes PROVE DOMAIN graph.nodes = 0..(Size(graph.nodes) - 1)
      <3> DEFINE t == graph.nodes
      <3>1. t \in Colls(DenseNodes, NodeIndices, NodeEntries)
        BY <1>1
      <3> HIDE DEF t
      <3>2. DOMAIN t = 0..(Size(t) - 1)
        BY <2>1, <3>1 DEF Colls
      <3> QED
        BY <3>2 DEF t
    <2> QED
      BY <2>1, Zenon DEF Nodes
  <1>3. DenseEdges => Edges = 0..Size(graph.edges) - 1
    <2>1. ASSUME DenseEdges PROVE DOMAIN graph.edges = 0..(Size(graph.edges) - 1)
      <3> DEFINE t == graph.edges
      <3>1. t \in Colls(DenseEdges, EdgeIndices, EdgeEntries)
        BY <1>1
      <3> HIDE DEF t
      <3>2. DOMAIN t = 0..(Size(t) - 1)
        BY <2>1, <3>1 DEF Colls
      <3> QED
        BY <3>2 DEF t
    <2> QED
      BY <2>1, Zenon DEF Edges
  <1>4. /\ \A n \in Nodes, d \in Dirs : First(graph, n, d) \in Link
        /\ \A e \in Edges, d \in Dirs : Succ(graph, e, d) \in Link /\ End(graph, e, d) \in Nodes
    <2>1. ASSUME NEW d \in Dirs
          PROVE  /\ \A n \in Nodes : First(graph, n, d) \in Link
                 /\ \A e \in Edges : Succ(graph, e, d) \in Link /\ End(graph, e, d) \in Nodes
      <3>1. PICK r : Threads(graph, d, EIx(graph), r)
        BY <1>0 DEF Threaded
      <3> QED
        BY <1>0, <3>1 DEF Threads
    <2> QED
      BY <2>1
  <1> HIDE DEF Link
  <1>5. ASSUME NEW n \in Nodes PROVE graph.nodes[n] \in [val : NodeVals, next : [Dirs -> Link]]
    <2> DEFINE x == graph.nodes[n]
    <2>1. x \in [val : NodeVals, next : [Dirs -> Slots]]
      BY <1>0, PartTypes DEF NodeEntries
    <2>2. \A d \in Dirs : x.next[d] \in Link
      BY <1>4, Zenon DEF First
    <2> HIDE DEF x
    <2>3. x.next \in [Dirs -> Link]
      BY <2>1, <2>2
    <2>4. x \in [val : NodeVals, next : [Dirs -> Link]]
      BY <2>1, <2>3
    <2> QED
      BY <2>4 DEF x
  <1>6. ASSUME NEW e \in Edges
        PROVE  graph.edges[e] \in [val : EdgeVals, next : [Dirs -> Link], node : [Dirs -> Nodes]]
    <2> DEFINE x == graph.edges[e]
    <2>1. x \in [val : EdgeVals, next : [Dirs -> Slots], node : [Dirs -> NodeIndices]]
      BY <1>0, PartTypes DEF EdgeEntries
    <2>2. \A d \in Dirs : x.next[d] \in Link /\ x.node[d] \in Nodes
      BY <1>4, Zenon DEF Succ, End
    <2> HIDE DEF x
    <2>3. x.next \in [Dirs -> Link] /\ x.node \in [Dirs -> Nodes]
      BY <2>1, <2>2
    <2>4. x \in [val : EdgeVals, next : [Dirs -> Link], node : [Dirs -> Nodes]]
      BY <2>1, <2>3
    <2> QED
      BY <2>4 DEF x
  <1> QED
    BY <1>2, <1>3, <1>5, <1>6, Zenon DEF TypeOK, Link

(***************************************************************************)
(* A threaded edge occurs once on the chains of its ends, and on no other. *)
(***************************************************************************)
LEMMA LinkedThreadedOnce == Linked => ThreadedOnce
  <1> SUFFICES ASSUME Linked PROVE ThreadedOnce
    OBVIOUS
  <1>0. graph \in Tables /\ Threaded(graph, EIx(graph)) /\ Nodes = NIx(graph) /\ Edges = EIx(graph)
    BY Zenon DEF Linked, Nodes, Edges, NIx, EIx
  <1>1. ASSUME NEW n \in Nodes, NEW d \in Dirs
        PROVE  /\ \A e \in Edges : Occurrences(e, n, d) = IF End(graph, e, d) = n THEN 1 ELSE 0
               /\ Links(graph, n, d)[Len(Chain(graph, n, d))] = Sentinel
    <2> DEFINE c == Chain(graph, n, d)
    <2>1. /\ Len(c) \in Nat /\ DOMAIN c = 1..Len(c)
          /\ \A i \in DOMAIN c : c[i] \in EIx(graph) /\ End(graph, c[i], d) = n
          /\ \A i, j \in DOMAIN c : c[i] = c[j] => i = j
          /\ \A e \in EIx(graph) : End(graph, e, d) = n => \E i \in DOMAIN c : c[i] = e
          /\ Links(graph, n, d)[Len(c)] = Sentinel
      BY <1>0, ChainLists
    <2>2. \A e : Occurrences(e, n, d) = Cardinality({k \in DOMAIN c : c[k] = e})
      BY Zenon DEF Occurrences
    <2> HIDE DEF c
    <2>3. ASSUME NEW e \in Edges
          PROVE  Occurrences(e, n, d) = IF End(graph, e, d) = n THEN 1 ELSE 0
      <3> DEFINE K == {k \in DOMAIN c : c[k] = e}
      <3>1. CASE End(graph, e, d) = n
        <4>1. PICK i \in DOMAIN c : c[i] = e
          BY <1>0, <2>1, <3>1
        <4>2. K = {i}
          BY <2>1, <4>1
        <4>3. Cardinality(K) = 1
          BY <4>2, FS_Singleton
        <4> QED
          BY <2>2, <3>1, <4>3
      <3>2. CASE End(graph, e, d) # n
        <4>1. K = {}
          BY <2>1, <3>2
        <4>2. Cardinality(K) = 0
          BY <4>1, FS_EmptySet
        <4> QED
          BY <2>2, <3>2, <4>2
      <3> QED
        BY <3>1, <3>2
    <2> QED
      BY <2>1, <2>3 DEF c
  <1>2. \A e \in Edges, n \in Nodes, d \in Dirs :
          Occurrences(e, n, d) = IF graph.edges[e].node[d] = n THEN 1 ELSE 0
    BY <1>1, Zenon DEF End
  <1> QED
    BY <1>1, <1>2, Zenon DEF ThreadedOnce

(***************************************************************************)
(* Whatever sequence of insert_node, insert_edge, take_edge, take_node and *)
(* reverse is called, on any combination of backends: the collections hold *)
(* what they should, every edge is on the outgoing chain of its tail and   *)
(* on the incoming chain of its head, once on each and on no other chain,  *)
(* and every chain ends.                                                   *)
(***************************************************************************)
THEOREM ChainsIntact == Spec => [](TypeOK /\ ThreadedOnce)
  <1>1. Init => Linked
    <2> SUFFICES ASSUME Init PROVE Linked
      OBVIOUS
    <2>1. graph = EmptyGraph
      BY Zenon DEF Init
    <2> QED
      BY <2>1, EmptyThreaded, Zenon DEF Linked
  <1>2. Linked /\ [Next]_vars => Linked'
    BY LinkedStep
  <1>3. Linked => TypeOK /\ ThreadedOnce
    BY LinkedTypeOK, LinkedThreadedOnce
  <1> QED
    BY <1>1, <1>2, <1>3, PTL DEF Spec
=============================================================================
