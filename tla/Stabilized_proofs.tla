------------------------- MODULE Stabilized_proofs --------------------------
(***************************************************************************)
(* Proofs about Stabilized, for every bound and with and without a known   *)
(* capacity.                                                               *)
(*                                                                         *)
(* The argument: a slot's version only ever moves v -> -v -> v + 1 -> ...  *)
(* (SlotsAdvance).  So an index that was retired is behind its slot for    *)
(* good (RetiredBehind), and the ends of a live edge cannot be reused      *)
(* under it, because the removal of a node first removes the edge          *)
(* (EndpointsKept).                                                        *)
(***************************************************************************)
EXTENDS Stabilized, Groundwork

USE BoundsAssumption

-----------------------------------------------------------------------------
(***************************************************************************)
(* Sequences as functions.                                                 *)
(***************************************************************************)
LEMMA SeqIntro ==
  ASSUME NEW S, NEW n \in Nat, NEW f \in [1..n -> S]
  PROVE  /\ f \in Seq(S)
         /\ Len(f) = n
         /\ DOMAIN f = 1..n
  OBVIOUS

(***************************************************************************)
(* A sequence is a function on its indices.                                *)
(***************************************************************************)
LEMMA SeqElim ==
  ASSUME NEW S, NEW s \in Seq(S)
  PROVE  /\ Len(s) \in Nat
         /\ DOMAIN s = 1..Len(s)
         /\ s \in [1..Len(s) -> S]
         /\ \A i \in DOMAIN s : s[i] \in S
  OBVIOUS

(***************************************************************************)
(* Replacing the elements of a sequence one by one leaves a sequence.      *)
(***************************************************************************)
LEMMA SeqPointwise ==
  ASSUME NEW S, NEW T, NEW s \in Seq(S), NEW f,
         f \in [DOMAIN s -> T]
  PROVE  f \in Seq(T) /\ DOMAIN f = DOMAIN s
  BY SeqElim, SeqIntro

(***************************************************************************)
(* What is at which index after Append.                                    *)
(***************************************************************************)
LEMMA SeqAppend ==
  ASSUME NEW S, NEW s \in Seq(S), NEW x \in S
  PROVE  /\ Append(s, x) \in Seq(S)
         /\ DOMAIN Append(s, x) = DOMAIN s \cup {Len(s) + 1}
         /\ Len(s) + 1 \notin DOMAIN s
         /\ Append(s, x)[Len(s) + 1] = x
         /\ \A i \in DOMAIN s : Append(s, x)[i] = s[i]
  OBVIOUS

-----------------------------------------------------------------------------
(***************************************************************************)
(* Edge entries, and what Tombstone does to a sequence of them.            *)
(***************************************************************************)
LEMMA EntryFields ==
  ASSUME TypeOK, NEW e \in DOMAIN edges
  PROVE  /\ edges[e] \in EdgeEntries
         /\ edges[e].version \in Versions
         /\ edges[e].ends \in Ends
         /\ edges[e].ends = <<edges[e].ends[1], edges[e].ends[2]>>
         /\ \A d \in 1..2 : edges[e].ends[d] \in DOMAIN nodes
  <1>1. edges[e] \in EdgeEntries
    BY SeqElim DEF TypeOK
  <1> QED
    BY <1>1 DEF EdgeEntries, Ends

(***************************************************************************)
(* Node slots are numbered from 1 and carry versions.                      *)
(***************************************************************************)
LEMMA NodeVersions ==
  ASSUME TypeOK
  PROVE  /\ Len(nodes) \in Nat
         /\ DOMAIN nodes = 1..Len(nodes)
         /\ \A n \in DOMAIN nodes : nodes[n] \in Versions
  BY SeqElim DEF TypeOK

(***************************************************************************)
(* Tombstone flips the versions of S and touches nothing else.             *)
(***************************************************************************)
LEMMA TombstoneEntries ==
  ASSUME NEW S, NEW es \in Seq(EdgeEntries)
  PROVE  /\ Tombstone(es, S) \in Seq(EdgeEntries)
         /\ DOMAIN Tombstone(es, S) = DOMAIN es
         /\ \A e \in DOMAIN es :
              /\ Tombstone(es, S)[e].ends = es[e].ends
              /\ Tombstone(es, S)[e].given = es[e].given
              /\ Tombstone(es, S)[e].version =
                   IF e \in S THEN -es[e].version ELSE es[e].version
  <1> DEFINE f == Tombstone(es, S)
  <1>1. DOMAIN f = DOMAIN es
    BY DEF Tombstone
  <1>2. \A e \in DOMAIN es : es[e] \in EdgeEntries
    BY SeqElim
  <1>3. ASSUME NEW e \in DOMAIN es
        PROVE  /\ f[e] \in EdgeEntries
               /\ f[e].ends = es[e].ends
               /\ f[e].given = es[e].given
               /\ f[e].version = IF e \in S THEN -es[e].version ELSE es[e].version
    <2>1. f[e] = IF e \in S THEN [es[e] EXCEPT !.version = -@] ELSE es[e]
      BY <1>3 DEF Tombstone
    <2>2. es[e] \in EdgeEntries
      BY <1>2, <1>3
    <2>3. es[e].version \in Versions
      BY <2>2 DEF EdgeEntries
    <2>4. -es[e].version \in Versions
      BY <2>3 DEF Versions
    <2> QED
      BY <2>1, <2>2, <2>4 DEF EdgeEntries
  <1>4. f \in [DOMAIN es -> EdgeEntries]
    BY <1>1, <1>3 DEF Tombstone
  <1>5. f \in Seq(EdgeEntries)
    BY <1>4, SeqPointwise
  <1> QED
    BY <1>1, <1>3, <1>5

(***************************************************************************)
(* The two rounds of tombstones of a batch are one: the cascade is of live *)
(* edges not named in the batch, and together they cover every live edge   *)
(* of the nodes.                                                           *)
(***************************************************************************)
LEMMA CascadeCovers ==
  ASSUME TypeOK, NEW ns, NEW es \in SUBSET LiveEdges
  PROVE  LET without == Tombstone(edges, es)
             cascade == LiveIn(without, Incident(ns))
         IN /\ cascade \in SUBSET LiveEdges
            /\ cascade \cap es = {}
            /\ LiveIn(edges, Incident(ns)) \subseteq es \cup cascade
            /\ Tombstone(without, cascade) = Tombstone(edges, es \cup cascade)
  <1> DEFINE without == Tombstone(edges, es)
             cascade == LiveIn(without, Incident(ns))
  <1>1. /\ DOMAIN without = DOMAIN edges
        /\ \A e \in DOMAIN edges : without[e].version =
             IF e \in es THEN -edges[e].version ELSE edges[e].version
    BY TombstoneEntries DEF TypeOK
  <1>2. \A e \in Incident(ns) : e \in DOMAIN edges
    BY DEF Incident
  <1>3. \A e \in cascade : e \in DOMAIN edges /\ without[e].version > 0
    BY <1>2 DEF LiveIn
  <1>4. \A e \in cascade : e \notin es
    BY <1>1, <1>3, EntryFields DEF LiveEdges, Versions
  <1>5. cascade \subseteq LiveEdges
    BY <1>1, <1>3, <1>4 DEF LiveEdges
  <1>6. LiveIn(edges, Incident(ns)) \subseteq es \cup cascade
    BY <1>1, <1>2 DEF LiveIn
  <1>7. Tombstone(without, cascade) = Tombstone(edges, es \cup cascade)
    BY <1>4 DEF Tombstone
  <1> QED
    BY <1>4, <1>5, <1>6, <1>7

(***************************************************************************)
(* An entry stays an entry when the inner graph gets more nodes.           *)
(***************************************************************************)
LEMMA EntriesMonotone ==
  ASSUME TypeOK, DOMAIN nodes \subseteq DOMAIN nodes'
  PROVE  /\ EdgeEntries \subseteq EdgeEntries'
         /\ edges \in Seq(EdgeEntries')
  <1>1. EdgeEntries \subseteq EdgeEntries'
    BY DEF EdgeEntries, Ends
  <1>2. edges \in Seq(EdgeEntries)
    BY DEF TypeOK
  <1>3. edges \in [DOMAIN edges -> EdgeEntries']
    BY <1>1, <1>2, SeqElim
  <1> QED
    BY <1>1, <1>2, <1>3, SeqPointwise

-----------------------------------------------------------------------------
(***************************************************************************)
(* Type correctness.                                                       *)
(***************************************************************************)
LEMMA NewEdgeType ==
  ASSUME TypeOK, NEW tail \in DOMAIN nodes, NEW head \in DOMAIN nodes
  PROVE  NewEdge(tail, head) \in EdgeEntries
  BY NodeVersions DEF NewEdge, NodeIx, EdgeEntries, Ends, Versions

(***************************************************************************)
(* Valid indices are pairs of a slot and a version.                        *)
(***************************************************************************)
LEMMA IndexTypes ==
  ASSUME TypeOK
  PROVE  NodeIxs \subseteq Nat \X Int /\ EdgeIxs \subseteq Nat \X Int
  <1>1. NodeIxs \subseteq Nat \X Int
    BY NodeVersions DEF NodeIxs, NodeIx, LiveNodes, Versions
  <1>2. DOMAIN edges \subseteq Nat
    BY SeqElim DEF TypeOK
  <1>3. EdgeIxs \subseteq Nat \X Int
    BY <1>2, EntryFields DEF EdgeIxs, EdgeIx, LiveEdges, Versions
  <1> QED
    BY <1>1, <1>3

(***************************************************************************)
(* A freshly stabilized graph is well-typed.                               *)
(***************************************************************************)
LEMMA InitType == Init => TypeOK
  <1> SUFFICES ASSUME Init PROVE TypeOK
    OBVIOUS
  <1>1. PICK k \in 0..MaxNodes : nodes = [n \in 1..k |-> 1]
    BY DEF Init
  <1>2. nodes \in Seq(Versions) /\ Len(nodes) = k /\ DOMAIN nodes = 1..k
    BY <1>1, SeqIntro DEF Versions
  <1>3. PICK m \in 0..MaxEdges : \E ends \in [1..m -> (DOMAIN nodes) \X (DOMAIN nodes)] :
          edges = [e \in 1..m |-> NewEdge(ends[e][1], ends[e][2])]
    BY DEF Init
  <1>4. PICK ends \in [1..m -> (DOMAIN nodes) \X (DOMAIN nodes)] :
          edges = [e \in 1..m |-> NewEdge(ends[e][1], ends[e][2])]
    BY <1>3
  <1>5. ASSUME NEW tail \in DOMAIN nodes, NEW head \in DOMAIN nodes
        PROVE  NewEdge(tail, head) \in EdgeEntries
    BY <1>1, <1>2 DEF NewEdge, NodeIx, EdgeEntries, Ends, Versions
  <1>6. edges \in [1..m -> EdgeEntries]
    BY <1>4, <1>5
  <1>7. edges \in Seq(EdgeEntries) /\ Len(edges) = m
    BY <1>6, SeqIntro
  <1>8. capacity \in Capacities
    BY <1>2, <1>7 DEF Init, Capacities
  <1> QED
    BY <1>2, <1>7, <1>8 DEF Init, TypeOK

(***************************************************************************)
(* What a step may do to a slot that exists: nothing, remove its entry, or *)
(* reuse it at the next version.                                           *)
(***************************************************************************)
Advance(old, new) == \/ new = old
                     \/ old > 0 /\ new = -old
                     \/ old < 0 /\ new = -old + 1

NodeSlotsAdvance ==
  \A n \in DOMAIN nodes : n \in DOMAIN nodes' /\ Advance(nodes[n], nodes'[n])

EdgeSlotsAdvance ==
  \A e \in DOMAIN edges :
    e \in DOMAIN edges' /\ Advance(edges[e].version, edges'[e].version)

(***************************************************************************)
(* No step loses a node slot or moves its version otherwise than by        *)
(* Advance.                                                                *)
(***************************************************************************)
LEMMA NodesStep ==
  ASSUME TypeOK, Step
  PROVE  nodes' \in Seq(Versions) /\ NodeSlotsAdvance
  <1> DEFINE Goal == nodes' \in Seq(Versions) /\ NodeSlotsAdvance
  <1>0. /\ nodes \in Seq(Versions)
        /\ \A n \in DOMAIN nodes : nodes[n] \in Versions
    BY NodeVersions DEF TypeOK
  <1>1. CASE AppendNode
    <2>1. nodes' = Append(nodes, 1) /\ 1 \in Versions
      BY <1>1 DEF AppendNode, Versions
    <2> QED
      BY <1>0, <2>1, SeqAppend DEF NodeSlotsAdvance, Advance
  <1>2. ASSUME nodes' \in [DOMAIN nodes -> Versions],
               \A n \in DOMAIN nodes : Advance(nodes[n], nodes'[n])
        PROVE  Goal
    BY <1>0, <1>2, SeqPointwise DEF NodeSlotsAdvance
  <1>3. ASSUME NEW n \in DOMAIN nodes, ReuseNode(n) PROVE Goal
    <2>1. nodes[n] < 0 /\ nodes' = [nodes EXCEPT ![n] = -nodes[n] + 1]
      BY <1>3 DEF ReuseNode, IsFirst, DeadNodes, NextVersion
    <2>2. -nodes[n] + 1 \in Versions
      BY <1>0, <2>1 DEF Versions
    <2>3. nodes' \in [DOMAIN nodes -> Versions]
      BY <1>0, <2>1, <2>2, SeqElim
    <2>4. \A k \in DOMAIN nodes : Advance(nodes[k], nodes'[k])
      BY <1>0, <2>1 DEF Advance
    <2> QED
      BY <1>2, <2>3, <2>4
  <1>4. ASSUME NEW n \in DOMAIN nodes, RemoveNode(n) PROVE Goal
    <2>1. nodes[n] > 0 /\ nodes' = [nodes EXCEPT ![n] = -nodes[n]]
      BY <1>4 DEF RemoveNode, LiveNodes
    <2>2. -nodes[n] \in Versions
      BY <1>0 DEF Versions
    <2>3. nodes' \in [DOMAIN nodes -> Versions]
      BY <1>0, <2>1, <2>2, SeqElim
    <2>4. \A k \in DOMAIN nodes : Advance(nodes[k], nodes'[k])
      BY <1>0, <2>1 DEF Advance
    <2> QED
      BY <1>2, <2>3, <2>4
  <1>5. ASSUME NEW ns \in SUBSET LiveNodes, NEW es \in SUBSET LiveEdges,
               TakeNodesEdges(ns, es)
        PROVE  Goal
    <2>1. nodes' = [n \in DOMAIN nodes |-> IF n \in ns THEN -nodes[n] ELSE nodes[n]]
      BY <1>5 DEF TakeNodesEdges
    <2>2. \A n \in DOMAIN nodes : -nodes[n] \in Versions
      BY <1>0 DEF Versions
    <2>3. nodes' \in [DOMAIN nodes -> Versions]
      BY <1>0, <2>1, <2>2
    <2>4. \A k \in DOMAIN nodes : Advance(nodes[k], nodes'[k])
      BY <1>0, <2>1 DEF Advance, LiveNodes
    <2> QED
      BY <1>2, <2>3, <2>4
  <1>6. ASSUME UNCHANGED nodes PROVE Goal
    BY <1>0, <1>6 DEF NodeSlotsAdvance, Advance
  <1>7. ASSUME NEW tail \in DOMAIN nodes, NEW head \in DOMAIN nodes,
               \/ AppendEdge(tail, head)
               \/ \E e \in DOMAIN edges : ReuseEdge(e, tail, head)
        PROVE  UNCHANGED nodes
    BY <1>7 DEF AppendEdge, ReuseEdge
  <1>8. ASSUME (\E e \in DOMAIN edges : RemoveEdge(e)) \/ Reverse
        PROVE  UNCHANGED nodes
    BY <1>8 DEF RemoveEdge, Reverse
  <1> QED
    BY <1>1, <1>3, <1>4, <1>5, <1>6, <1>7, <1>8 DEF Step

(***************************************************************************)
(* The same of edge slots.                                                 *)
(***************************************************************************)
LEMMA EdgesStep ==
  ASSUME TypeOK, Step
  PROVE  edges' \in Seq(EdgeEntries') /\ EdgeSlotsAdvance
  <1> DEFINE Goal == edges' \in Seq(EdgeEntries') /\ EdgeSlotsAdvance
  <1>0. /\ edges \in Seq(EdgeEntries)
        /\ \A e \in DOMAIN edges : /\ edges[e] \in EdgeEntries
                                   /\ edges[e].version \in Versions
    BY EntryFields DEF TypeOK
  <1>1. /\ DOMAIN nodes \subseteq DOMAIN nodes'
        /\ EdgeEntries \subseteq EdgeEntries'
        /\ edges \in Seq(EdgeEntries')
    BY NodesStep, EntriesMonotone DEF NodeSlotsAdvance
  <1>2. ASSUME NEW S \in SUBSET LiveEdges, edges' = Tombstone(edges, S)
        PROVE  Goal
    <2>1. /\ edges' \in Seq(EdgeEntries)
          /\ DOMAIN edges' = DOMAIN edges
      BY <1>0, <1>2, TombstoneEntries
    <2>2. edges' \in Seq(EdgeEntries')
      BY <1>1, <2>1, SeqElim, SeqPointwise
    <2>3. \A e \in DOMAIN edges : Advance(edges[e].version, edges'[e].version)
      BY <1>0, <1>2, TombstoneEntries DEF Advance, LiveEdges
    <2> QED
      BY <2>1, <2>2, <2>3 DEF EdgeSlotsAdvance
  <1>3. ASSUME NEW tail \in DOMAIN nodes, NEW head \in DOMAIN nodes,
               AppendEdge(tail, head)
        PROVE  Goal
    <2>1. edges' = Append(edges, NewEdge(tail, head))
      BY <1>3 DEF AppendEdge
    <2>2. NewEdge(tail, head) \in EdgeEntries'
      BY <1>1, NewEdgeType
    <2> QED
      BY <1>1, <2>1, <2>2, SeqAppend DEF EdgeSlotsAdvance, Advance
  <1>4. ASSUME NEW tail \in DOMAIN nodes, NEW head \in DOMAIN nodes,
               NEW e \in DOMAIN edges, ReuseEdge(e, tail, head)
        PROVE  Goal
    <2> DEFINE entry == [edges[e] EXCEPT !.version = -edges[e].version + 1,
                                         !.given = <<NodeIx(tail), NodeIx(head)>>]
    <2>1. edges[e].version < 0 /\ edges' = [edges EXCEPT ![e] = entry]
      BY <1>4 DEF ReuseEdge, IsFirst, DeadBetween, DeadEdges, NextVersion
    <2>2. /\ -edges[e].version + 1 \in Versions
          /\ <<NodeIx(tail), NodeIx(head)>> \in
                ((DOMAIN nodes) \X Versions) \X ((DOMAIN nodes) \X Versions)
      <3>1. edges[e].version \in Int
        BY <1>0 DEF EdgeEntries, Versions
      <3>2. -edges[e].version + 1 \in Versions
        BY <2>1, <3>1 DEF Versions
      <3>3. nodes[tail] \in Versions /\ nodes[head] \in Versions
        BY NodeVersions
      <3> QED
        BY <3>2, <3>3 DEF NodeIx
    <2>3. entry \in EdgeEntries /\ entry.version = -edges[e].version + 1
      BY <1>0, <2>2 DEF EdgeEntries
    <2>4. edges' \in [DOMAIN edges -> EdgeEntries']
      BY <1>0, <1>1, <2>1, <2>3, SeqElim
    <2>5. edges' \in Seq(EdgeEntries') /\ DOMAIN edges' = DOMAIN edges
      BY <1>0, <2>4, SeqPointwise
    <2>6. \A k \in DOMAIN edges : Advance(edges[k].version, edges'[k].version)
      BY <1>0, <2>1, <2>3 DEF Advance
    <2> QED
      BY <2>5, <2>6 DEF EdgeSlotsAdvance
  <1>5. ASSUME NEW e \in DOMAIN edges, RemoveEdge(e) PROVE Goal
    BY <1>2, <1>5 DEF RemoveEdge
  <1>6. ASSUME NEW n \in DOMAIN nodes, RemoveNode(n) PROVE Goal
    <2>1. LiveIn(edges, Incident({n})) \in SUBSET LiveEdges
      BY DEF LiveIn, Incident, LiveEdges
    <2> QED
      BY <1>2, <1>6, <2>1 DEF RemoveNode
  <1>7. ASSUME NEW ns \in SUBSET LiveNodes, NEW es \in SUBSET LiveEdges,
               TakeNodesEdges(ns, es)
        PROVE  Goal
    <2> DEFINE cascade == LiveIn(Tombstone(edges, es), Incident(ns))
    <2>1. /\ cascade \in SUBSET LiveEdges
          /\ edges' = Tombstone(edges, es \cup cascade)
      BY <1>7, CascadeCovers DEF TakeNodesEdges
    <2> HIDE DEF cascade
    <2>2. es \cup cascade \in SUBSET LiveEdges
      BY <2>1
    <2> QED
      BY <1>2, <2>1, <2>2
  <1>8. ASSUME Reverse PROVE Goal
    <2> DEFINE flipped(e) == [edges[e] EXCEPT !.ends = Flip(edges[e].ends),
                                              !.given = Flip(edges[e].given)]
    <2>1. edges' = [e \in DOMAIN edges |-> flipped(e)]
      BY <1>8 DEF Reverse
    <2>2. ASSUME NEW e \in DOMAIN edges
          PROVE  flipped(e) \in EdgeEntries /\ flipped(e).version = edges[e].version
      <3>1. Flip(edges[e].ends) \in Ends
        BY <1>0, <2>2 DEF EdgeEntries, Ends, Flip
      <3>2. Flip(edges[e].given) \in
              ((DOMAIN nodes) \X Versions) \X ((DOMAIN nodes) \X Versions)
        BY <1>0, <2>2 DEF EdgeEntries, Flip
      <3> QED
        BY <1>0, <2>2, <3>1, <3>2 DEF EdgeEntries
    <2>3. edges' \in [DOMAIN edges -> EdgeEntries']
      BY <1>1, <2>1, <2>2
    <2>4. edges' \in Seq(EdgeEntries') /\ DOMAIN edges' = DOMAIN edges
      BY <1>0, <2>3, SeqPointwise
    <2> QED
      BY <2>1, <2>2, <2>4 DEF EdgeSlotsAdvance, Advance
  <1>9. ASSUME UNCHANGED edges PROVE Goal
    BY <1>1, <1>9 DEF EdgeSlotsAdvance, Advance
  <1>10. ASSUME AppendNode \/ \E n \in DOMAIN nodes : ReuseNode(n)
         PROVE  UNCHANGED edges
    BY <1>10 DEF AppendNode, ReuseNode
  <1> QED
    BY <1>3, <1>4, <1>5, <1>6, <1>7, <1>8, <1>9, <1>10 DEF Step

-----------------------------------------------------------------------------
(***************************************************************************)
(* The endpoints of live edges.                                            *)
(***************************************************************************)
Kept(e) == /\ Endpoints(e) = edges[e].given
           /\ \A d \in 1..2 : ContainsNode(Endpoints(e)[d])

(***************************************************************************)
(* The ends of a live edge are live.                                       *)
(***************************************************************************)
LEMMA LiveEnds ==
  ASSUME TypeOK, EndpointsKept, NEW e \in LiveEdges
  PROVE  \A d \in 1..2 : edges[e].ends[d] \in LiveNodes
  <1>1. Kept(e)
    BY DEF EndpointsKept, Kept
  <1> QED
    BY <1>1 DEF Kept, ContainsNode, Endpoints, NodeIx, LiveNodes

(***************************************************************************)
(* An edge keeps its endpoints in a step that leaves it, and the nodes it  *)
(* joins, alone.                                                           *)
(***************************************************************************)
LEMMA Survivor ==
  ASSUME TypeOK, EndpointsKept, NodeSlotsAdvance, NEW e \in LiveEdges,
         edges'[e].ends = edges[e].ends,
         edges'[e].given = edges[e].given,
         \A d \in 1..2 : nodes'[edges[e].ends[d]] = nodes[edges[e].ends[d]]
  PROVE  Kept(e)'
  <1>1. Kept(e)
    BY DEF EndpointsKept, Kept
  <1>2. \A d \in 1..2 : edges[e].ends[d] \in DOMAIN nodes'
    BY LiveEnds DEF NodeSlotsAdvance, LiveNodes
  <1>3. Endpoints(e)' = Endpoints(e)
    BY DEF Endpoints, NodeIx
  <1>4. \A d \in 1..2 : ContainsNode(Endpoints(e)[d])'
    BY <1>1, <1>2, <1>3 DEF Kept, ContainsNode, Endpoints, NodeIx
  <1> QED
    BY <1>1, <1>3, <1>4 DEF Kept

(***************************************************************************)
(* A new edge has the endpoints it was given.                              *)
(***************************************************************************)
LEMMA Newcomer ==
  ASSUME TypeOK, NEW e, NEW tail \in LiveNodes, NEW head \in LiveNodes,
         UNCHANGED nodes,
         edges'[e].ends = <<tail, head>>,
         edges'[e].given = <<NodeIx(tail), NodeIx(head)>>
  PROVE  Kept(e)'
  <1>1. Endpoints(e)' = <<NodeIx(tail), NodeIx(head)>>
    BY DEF Endpoints, NodeIx
  <1>2. ContainsNode(NodeIx(tail))' /\ ContainsNode(NodeIx(head))'
    BY DEF ContainsNode, NodeIx, LiveNodes
  <1>3. \A d \in 1..2 : ContainsNode(Endpoints(e)[d])'
    BY <1>1, <1>2 DEF ContainsNode, NodeIx
  <1> QED
    BY <1>1, <1>3 DEF Kept

(***************************************************************************)
(* Removals, of edges S and nodes ns where S covers the live edges of ns.  *)
(***************************************************************************)
LEMMA RemovalKeepsEndpoints ==
  ASSUME TypeOK, EndpointsKept,
         NEW S \in SUBSET LiveEdges, NEW ns \in SUBSET LiveNodes,
         LiveIn(edges, Incident(ns)) \subseteq S,
         edges' = Tombstone(edges, S),
         nodes' = [n \in DOMAIN nodes |-> IF n \in ns THEN -nodes[n] ELSE nodes[n]]
  PROVE  EndpointsKept'
  <1>1. NodeSlotsAdvance
    BY DEF NodeSlotsAdvance, Advance, LiveNodes
  <1>2. ASSUME NEW e \in LiveEdges' PROVE Kept(e)'
    <2>1. e \in DOMAIN edges
      BY <1>2 DEF LiveEdges, Tombstone
    <2>2. /\ edges'[e].ends = edges[e].ends
          /\ edges'[e].given = edges[e].given
          /\ edges'[e].version = IF e \in S THEN -edges[e].version ELSE edges[e].version
      BY <2>1, TombstoneEntries DEF TypeOK
    <2>3. edges'[e].version > 0
      BY <1>2 DEF LiveEdges
    <2>4. e \notin S
      BY <2>1, <2>2, <2>3, EntryFields DEF LiveEdges, Versions
    <2>5. e \in LiveEdges
      BY <2>1, <2>2, <2>3, <2>4 DEF LiveEdges
    <2>6. e \notin Incident(ns)
      BY <2>4, <2>5 DEF LiveIn, LiveEdges
    <2>7. \A d \in 1..2 : edges[e].ends[d] \in DOMAIN nodes /\ edges[e].ends[d] \notin ns
      BY <2>1, <2>6, EntryFields DEF Incident
    <2>8. \A d \in 1..2 : nodes'[edges[e].ends[d]] = nodes[edges[e].ends[d]]
      BY <2>7
    <2> QED
      BY <1>1, <2>2, <2>5, <2>8, Survivor
  <1> QED
    BY <1>2 DEF EndpointsKept, Kept

(***************************************************************************)
(* Every step keeps the endpoints of the edges that stay alive.            *)
(***************************************************************************)
LEMMA EndpointsStep ==
  ASSUME TypeOK, EndpointsKept, Step
  PROVE  EndpointsKept'
  <1>0. /\ NodeSlotsAdvance
        /\ edges \in Seq(EdgeEntries)
    BY NodesStep DEF TypeOK
  <1>1. CASE AppendNode
    <2>1. /\ nodes' = Append(nodes, 1)
          /\ UNCHANGED edges
      BY <1>1 DEF AppendNode
    <2>2. \A n \in DOMAIN nodes : nodes'[n] = nodes[n]
      BY <2>1, SeqAppend DEF TypeOK, Versions
    <2>3. ASSUME NEW e \in LiveEdges' PROVE Kept(e)'
      <3>1. e \in LiveEdges
        BY <2>1, <2>3 DEF LiveEdges
      <3>2. \A d \in 1..2 : nodes'[edges[e].ends[d]] = nodes[edges[e].ends[d]]
        BY <2>2, <3>1, LiveEnds DEF LiveNodes
      <3> QED
        BY <1>0, <2>1, <3>1, <3>2, Survivor
    <2> QED
      BY <2>3 DEF EndpointsKept, Kept
  <1>2. ASSUME NEW n \in DOMAIN nodes, ReuseNode(n) PROVE EndpointsKept'
    <2>1. /\ n \notin LiveNodes
          /\ nodes' = [nodes EXCEPT ![n] = NextVersion(nodes[n])]
          /\ UNCHANGED edges
      BY <1>2, NodeVersions DEF ReuseNode, IsFirst, DeadNodes, LiveNodes, Versions
    <2>2. ASSUME NEW e \in LiveEdges' PROVE Kept(e)'
      <3>1. e \in LiveEdges
        BY <2>1, <2>2 DEF LiveEdges
      <3>2. \A d \in 1..2 : nodes'[edges[e].ends[d]] = nodes[edges[e].ends[d]]
        BY <2>1, <3>1, LiveEnds
      <3> QED
        BY <1>0, <2>1, <3>1, <3>2, Survivor
    <2> QED
      BY <2>2 DEF EndpointsKept, Kept
  <1>3. ASSUME UNCHANGED nodes, NEW e \in LiveEdges,
               edges'[e] = edges[e]
        PROVE  Kept(e)'
    BY <1>0, <1>3, Survivor
  <1>4. ASSUME NEW tail \in DOMAIN nodes, NEW head \in DOMAIN nodes,
               AppendEdge(tail, head)
        PROVE  EndpointsKept'
    <2>0. PICK new : new = Len(edges) + 1
      OBVIOUS
    <2>1. /\ tail \in LiveNodes /\ head \in LiveNodes
          /\ UNCHANGED nodes
          /\ edges' = Append(edges, NewEdge(tail, head))
      BY <1>4 DEF AppendEdge
    <2>2. /\ DOMAIN edges' = DOMAIN edges \cup {new}
          /\ edges'[new] = NewEdge(tail, head)
          /\ \A e \in DOMAIN edges : edges'[e] = edges[e]
      BY <1>0, <2>0, <2>1, NewEdgeType, SeqAppend
    <2>3. Kept(new)'
      <3>1. /\ edges'[new].ends = <<tail, head>>
            /\ edges'[new].given = <<NodeIx(tail), NodeIx(head)>>
        BY <2>2 DEF NewEdge
      <3> QED
        BY <2>1, <3>1, Newcomer
    <2>4. ASSUME NEW e \in LiveEdges' PROVE Kept(e)'
      <3>1. e # new => e \in LiveEdges /\ edges'[e] = edges[e]
        BY <2>2, <2>4 DEF LiveEdges
      <3> QED
        BY <1>3, <2>1, <2>3, <3>1
    <2> QED
      BY <2>4 DEF EndpointsKept, Kept
  <1>5. ASSUME NEW tail \in DOMAIN nodes, NEW head \in DOMAIN nodes,
               NEW e \in DOMAIN edges, ReuseEdge(e, tail, head)
        PROVE  EndpointsKept'
    <2>1. /\ tail \in LiveNodes /\ head \in LiveNodes
          /\ UNCHANGED nodes
          /\ edges[e].ends = <<tail, head>>
      BY <1>5 DEF ReuseEdge, IsFirst, DeadBetween
    <2>2. /\ DOMAIN edges' = DOMAIN edges
          /\ edges'[e].ends = edges[e].ends
          /\ edges'[e].given = <<NodeIx(tail), NodeIx(head)>>
          /\ \A f \in DOMAIN edges \ {e} : edges'[f] = edges[f]
      BY <1>5, EntryFields DEF ReuseEdge, EdgeEntries
    <2>3. Kept(e)'
      BY <2>1, <2>2, Newcomer
    <2>4. ASSUME NEW f \in LiveEdges' PROVE Kept(f)'
      <3>1. f # e => f \in LiveEdges /\ edges'[f] = edges[f]
        BY <2>2, <2>4 DEF LiveEdges
      <3> QED
        BY <1>3, <2>1, <2>3, <3>1
    <2> QED
      BY <2>4 DEF EndpointsKept, Kept
  <1>6. ASSUME NEW e \in DOMAIN edges, RemoveEdge(e) PROVE EndpointsKept'
    <2>1. nodes' = [n \in DOMAIN nodes |-> IF n \in {} THEN -nodes[n] ELSE nodes[n]]
      BY <1>6, SeqElim DEF RemoveEdge, TypeOK
    <2>2. LiveIn(edges, Incident({})) = {}
      BY DEF LiveIn, Incident
    <2> QED
      BY <1>6, <2>1, <2>2, RemovalKeepsEndpoints DEF RemoveEdge
  <1>7. ASSUME NEW n \in DOMAIN nodes, RemoveNode(n) PROVE EndpointsKept'
    <2>1. nodes' = [k \in DOMAIN nodes |-> IF k \in {n} THEN -nodes[k] ELSE nodes[k]]
      BY <1>7, SeqElim DEF RemoveNode, TypeOK
    <2>2. LiveIn(edges, Incident({n})) \in SUBSET LiveEdges
      BY DEF LiveIn, Incident, LiveEdges
    <2>3. {n} \in SUBSET LiveNodes
      BY <1>7 DEF RemoveNode
    <2> QED
      BY <1>7, <2>1, <2>2, <2>3, RemovalKeepsEndpoints DEF RemoveNode
  <1>8. ASSUME NEW ns \in SUBSET LiveNodes, NEW es \in SUBSET LiveEdges,
               TakeNodesEdges(ns, es)
        PROVE  EndpointsKept'
    <2> DEFINE cascade == LiveIn(Tombstone(edges, es), Incident(ns))
    <2>1. /\ cascade \in SUBSET LiveEdges
          /\ LiveIn(edges, Incident(ns)) \subseteq es \cup cascade
          /\ edges' = Tombstone(edges, es \cup cascade)
      BY <1>8, CascadeCovers DEF TakeNodesEdges
    <2>2. nodes' = [n \in DOMAIN nodes |-> IF n \in ns THEN -nodes[n] ELSE nodes[n]]
      BY <1>8 DEF TakeNodesEdges
    <2> HIDE DEF cascade
    <2>3. es \cup cascade \in SUBSET LiveEdges
      BY <2>1
    <2> QED
      BY <2>1, <2>2, <2>3, RemovalKeepsEndpoints
  <1>9. CASE Reverse
    <2>1. /\ UNCHANGED nodes
          /\ DOMAIN edges' = DOMAIN edges
          /\ \A e \in DOMAIN edges : /\ edges'[e].ends = Flip(edges[e].ends)
                                     /\ edges'[e].given = Flip(edges[e].given)
                                     /\ edges'[e].version = edges[e].version
      BY <1>9, EntryFields DEF Reverse, EdgeEntries
    <2>2. ASSUME NEW e \in LiveEdges' PROVE Kept(e)'
      <3>1. e \in LiveEdges
        BY <2>1, <2>2 DEF LiveEdges
      <3>2. Kept(e)
        BY <3>1 DEF EndpointsKept, Kept
      <3>3. Endpoints(e)' = Flip(Endpoints(e))
        BY <2>1, <3>1 DEF Endpoints, NodeIx, Flip, LiveEdges
      <3>4. Endpoints(e)' = edges'[e].given
        BY <2>1, <3>1, <3>2, <3>3 DEF Kept, LiveEdges
      <3>5. \A d \in 1..2 : ContainsNode(Endpoints(e)[d])'
        <4>1. Endpoints(e)'[1] = Endpoints(e)[2] /\ Endpoints(e)'[2] = Endpoints(e)[1]
          BY <3>3 DEF Flip
        <4>2. ContainsNode(Endpoints(e)[1]) /\ ContainsNode(Endpoints(e)[2])
          BY <3>2 DEF Kept
        <4>3. ASSUME NEW ix, ContainsNode(ix)
              PROVE  ix[2] > 0 /\ ix[1] \in DOMAIN nodes' /\ nodes'[ix[1]] = ix[2]
          BY <2>1, <4>3 DEF ContainsNode
        <4>4. \A d \in 1..2 : Endpoints(e)'[d] = Endpoints(e)[1] \/ Endpoints(e)'[d] = Endpoints(e)[2]
          BY <4>1
        <4> QED
          BY <4>2, <4>3, <4>4 DEF ContainsNode
      <3> QED
        BY <3>4, <3>5 DEF Kept
    <2> QED
      BY <2>2 DEF EndpointsKept, Kept
  <1> QED
    BY <1>1, <1>2, <1>4, <1>5, <1>6, <1>7, <1>8, <1>9 DEF Step

-----------------------------------------------------------------------------
(***************************************************************************)
(* Retired indices stay behind their slots.                                *)
(***************************************************************************)
Behind(v, now) == v < now \/ v <= -now

NodesBehind == \A ix \in retired[1] : /\ ix[1] \in DOMAIN nodes
                                      /\ Behind(ix[2], nodes[ix[1]])

EdgesBehind == \A ix \in retired[2] : /\ ix[1] \in DOMAIN edges
                                      /\ Behind(ix[2], edges[ix[1]].version)

RetiredBehind == NodesBehind /\ EdgesBehind

(***************************************************************************)
(* What is behind a slot stays behind as the slot advances.                *)
(***************************************************************************)
LEMMA StaysBehind ==
  ASSUME NEW v \in Int, NEW old \in Versions, NEW new \in Int,
         Behind(v, old), Advance(old, new)
  PROVE  Behind(v, new)
  BY DEF Behind, Advance, Versions

(***************************************************************************)
(* The version a live slot moves away from is behind it.                   *)
(***************************************************************************)
LEMMA FallsBehind ==
  ASSUME NEW old \in Versions, NEW new \in Int,
         old > 0, new # old, Advance(old, new)
  PROVE  Behind(old, new)
  BY DEF Behind, Advance, Versions

(***************************************************************************)
(* Every step keeps the retired indices behind their slots.                *)
(***************************************************************************)
LEMMA RetiredStep ==
  ASSUME TypeOK, RetiredBehind, Step, Retire
  PROVE  RetiredBehind'
  <1>0. /\ NodeSlotsAdvance /\ EdgeSlotsAdvance
        /\ \A n \in DOMAIN nodes' : nodes'[n] \in Int
        /\ \A e \in DOMAIN edges' : edges'[e].version \in Int
    <2>1. \A n \in DOMAIN nodes' : nodes'[n] \in Versions
      BY NodesStep, SeqElim
    <2>2. \A e \in DOMAIN edges' : edges'[e] \in EdgeEntries'
      BY EdgesStep, SeqElim
    <2>3. \A e \in DOMAIN edges' : edges'[e].version \in Versions
      BY <2>2 DEF EdgeEntries, Versions
    <2> QED
      BY <2>1, <2>3, NodesStep, EdgesStep DEF Versions
  <1>1. NodesBehind'
    <2> SUFFICES ASSUME NEW ix \in retired'[1]
                 PROVE  ix[1] \in DOMAIN nodes' /\ Behind(ix[2], nodes'[ix[1]])
      BY DEF NodesBehind
    <2>1. CASE ix \in retired[1]
      <3>1. /\ ix[1] \in DOMAIN nodes
            /\ Behind(ix[2], nodes[ix[1]])
            /\ ix[2] \in Int
        BY <2>1 DEF RetiredBehind, NodesBehind, TypeOK
      <3>2. ix[1] \in DOMAIN nodes' /\ Advance(nodes[ix[1]], nodes'[ix[1]])
        BY <1>0, <3>1 DEF NodeSlotsAdvance
      <3> QED
        BY <1>0, <3>1, <3>2, StaysBehind, NodeVersions
    <2>2. CASE ix \in NodeIxs \ NodeIxs'
      <3>1. PICK n \in LiveNodes : ix = <<n, nodes[n]>>
        BY <2>2 DEF NodeIxs, NodeIx
      <3>2. /\ n \in DOMAIN nodes' /\ Advance(nodes[n], nodes'[n])
            /\ nodes[n] > 0 /\ nodes[n] \in Versions
        BY <1>0, NodeVersions DEF NodeSlotsAdvance, LiveNodes
      <3>3. nodes'[n] # nodes[n]
        BY <2>2, <3>1, <3>2 DEF NodeIxs, NodeIx, LiveNodes
      <3> QED
        BY <1>0, <3>1, <3>2, <3>3, FallsBehind
    <2> QED
      BY <2>1, <2>2 DEF Retire
  <1>2. EdgesBehind'
    <2> SUFFICES ASSUME NEW ix \in retired'[2]
                 PROVE  ix[1] \in DOMAIN edges' /\ Behind(ix[2], edges'[ix[1]].version)
      BY DEF EdgesBehind
    <2>1. CASE ix \in retired[2]
      <3>1. /\ ix[1] \in DOMAIN edges
            /\ Behind(ix[2], edges[ix[1]].version)
            /\ ix[2] \in Int
        BY <2>1 DEF RetiredBehind, EdgesBehind, TypeOK
      <3>2. /\ ix[1] \in DOMAIN edges'
            /\ Advance(edges[ix[1]].version, edges'[ix[1]].version)
        BY <1>0, <3>1 DEF EdgeSlotsAdvance
      <3> QED
        BY <1>0, <3>1, <3>2, StaysBehind, EntryFields
    <2>2. CASE ix \in EdgeIxs \ EdgeIxs'
      <3>1. PICK e \in LiveEdges : ix = <<e, edges[e].version>>
        BY <2>2 DEF EdgeIxs, EdgeIx
      <3>2. /\ e \in DOMAIN edges' /\ Advance(edges[e].version, edges'[e].version)
            /\ edges[e].version > 0 /\ edges[e].version \in Versions
        BY <1>0, EntryFields DEF EdgeSlotsAdvance, LiveEdges
      <3>3. edges'[e].version # edges[e].version
        BY <2>2, <3>1, <3>2 DEF EdgeIxs, EdgeIx, LiveEdges
      <3> QED
        BY <1>0, <3>1, <3>2, <3>3, FallsBehind
    <2> QED
      BY <2>1, <2>2 DEF Retire
  <1> QED
    BY <1>1, <1>2 DEF RetiredBehind

-----------------------------------------------------------------------------
(***************************************************************************)
(* The counters and the capacity.  First, how many slots there are.        *)
(***************************************************************************)
LEMMA IntervalSize ==
  ASSUME NEW n \in Nat
  PROVE  IsFiniteSet(1..n) /\ Cardinality(1..n) = n
  <1>1. IsFiniteSet(1..n) /\ Cardinality(1..n) = IF 1 > n THEN 0 ELSE n - 1 + 1
    BY FS_Interval
  <1> QED
    BY <1>1

(***************************************************************************)
(* Sets of slots are finite.                                               *)
(***************************************************************************)
LEMMA FiniteSlots ==
  ASSUME TypeOK
  PROVE  /\ \A S \in SUBSET DOMAIN nodes : IsFiniteSet(S) /\ Cardinality(S) \in Nat
         /\ \A S \in SUBSET DOMAIN edges : IsFiniteSet(S) /\ Cardinality(S) \in Nat
  <1>1. /\ Len(nodes) \in Nat /\ DOMAIN nodes = 1..Len(nodes)
        /\ Len(edges) \in Nat /\ DOMAIN edges = 1..Len(edges)
    BY SeqElim DEF TypeOK
  <1>2. IsFiniteSet(DOMAIN nodes) /\ IsFiniteSet(DOMAIN edges)
    BY <1>1, FS_Interval
  <1>3. \A S \in SUBSET DOMAIN nodes : IsFiniteSet(S)
    BY <1>2, FS_Subset
  <1>4. \A S \in SUBSET DOMAIN edges : IsFiniteSet(S)
    BY <1>2, FS_Subset
  <1> QED
    BY <1>3, <1>4, FS_CardinalityType

(***************************************************************************)
(* A capacity stays a natural number or unknown.                           *)
(***************************************************************************)
LEMMA CapacityStep ==
  ASSUME TypeOK, Step
  PROVE  capacity' \in Capacities
  <1>0. /\ capacity \in Capacities
        /\ capacity[1] \in Nat \cup {None} /\ capacity[2] \in Nat \cup {None}
        /\ Len(nodes) \in Nat /\ Len(edges) \in Nat
    BY SeqElim DEF TypeOK, Capacities
  <1>1. \A cap \in Nat \cup {None}, len, max \in Nat :
          Grown(cap, len, max) \subseteq Nat \cup {None}
    BY DEF Grown, None
  <1>2. AppendNode => capacity' \in Capacities
    <2> SUFFICES ASSUME NEW cap \in Grown(capacity[1], Len(nodes), MaxNodes)
                 PROVE  <<cap, capacity[2]>> \in Capacities
      BY DEF AppendNode
    <2> QED
      BY <1>0, <1>1, BoundsAssumption DEF Capacities
  <1>3. \A tail, head : AppendEdge(tail, head) => capacity' \in Capacities
    <2> SUFFICES ASSUME NEW cap \in Grown(capacity[2], Len(edges), MaxEdges)
                 PROVE  <<capacity[1], cap>> \in Capacities
      BY DEF AppendEdge
    <2> QED
      BY <1>0, <1>1, BoundsAssumption DEF Capacities
  <1>4. CASE UNCHANGED capacity
    BY <1>0, <1>4
  <1> QED
    BY <1>2, <1>3, <1>4
       DEF Step, ReuseNode, ReuseEdge, RemoveNode, RemoveEdge, TakeNodesEdges, Reverse

(***************************************************************************)
(* A counter stays an integer.                                             *)
(***************************************************************************)
LEMMA CountersType ==
  ASSUME TypeOK, Step
  PROVE  live_nodes' \in Int /\ live_edges' \in Int
  <1>0. live_nodes \in Int /\ live_edges \in Int
    BY DEF TypeOK
  <1>1. ASSUME NEW n, RemoveNode(n) PROVE live_nodes' \in Int /\ live_edges' \in Int
    <2> DEFINE lost == LiveIn(edges, Incident({n}))
    <2>1. lost \in SUBSET DOMAIN edges
      BY DEF LiveIn, Incident
    <2>2. live_nodes' = live_nodes - 1 /\ live_edges' = live_edges - Cardinality(lost)
      BY <1>1 DEF RemoveNode
    <2> HIDE DEF lost
    <2>3. Cardinality(lost) \in Int
      BY <2>1, FiniteSlots
    <2> QED
      BY <1>0, <2>2, <2>3
  <1>2. ASSUME NEW ns \in SUBSET LiveNodes, NEW es \in SUBSET LiveEdges,
               TakeNodesEdges(ns, es)
        PROVE  live_nodes' \in Int /\ live_edges' \in Int
    <2> DEFINE cascade == LiveIn(Tombstone(edges, es), Incident(ns))
    <2>1. /\ ns \in SUBSET DOMAIN nodes
          /\ es \in SUBSET DOMAIN edges
          /\ cascade \in SUBSET DOMAIN edges
      BY DEF LiveNodes, LiveEdges, LiveIn, Incident
    <2>2. /\ live_nodes' = live_nodes - Cardinality(ns)
          /\ live_edges' = live_edges - Cardinality(es) - Cardinality(cascade)
      BY <1>2 DEF TakeNodesEdges
    <2> HIDE DEF cascade
    <2> QED
      BY <1>0, <2>1, <2>2, FiniteSlots
  <1>3. AppendNode => live_nodes' \in Int /\ live_edges' \in Int
    BY <1>0 DEF AppendNode
  <1>4. \A n : ReuseNode(n) => live_nodes' \in Int /\ live_edges' \in Int
    BY <1>0 DEF ReuseNode
  <1>5. \A tail, head : AppendEdge(tail, head) => live_nodes' \in Int /\ live_edges' \in Int
    BY <1>0 DEF AppendEdge
  <1>6. \A e, tail, head :
          ReuseEdge(e, tail, head) => live_nodes' \in Int /\ live_edges' \in Int
    BY <1>0 DEF ReuseEdge
  <1>7. \A e : RemoveEdge(e) => live_nodes' \in Int /\ live_edges' \in Int
    BY <1>0 DEF RemoveEdge
  <1>8. Reverse => live_nodes' \in Int /\ live_edges' \in Int
    BY <1>0 DEF Reverse
  <1> QED
    BY <1>1, <1>2, <1>3, <1>4, <1>5, <1>6, <1>7, <1>8 DEF Step

(***************************************************************************)
(* The live sets lose what is removed, and the counters with them.         *)
(***************************************************************************)
LEMMA Shrink ==
  ASSUME NEW L, IsFiniteSet(L), NEW S \in SUBSET L
  PROVE  Cardinality(L \ S) = Cardinality(L) - Cardinality(S)
  <1>1. L \cap S = S
    OBVIOUS
  <1> QED
    BY <1>1, FS_Difference

(***************************************************************************)
(* Tombstoning S removes exactly S from the live edges.                    *)
(***************************************************************************)
LEMMA EdgesRemoved ==
  ASSUME TypeOK, NEW S \in SUBSET LiveEdges, edges' = Tombstone(edges, S)
  PROVE  Cardinality(LiveEdges') = Cardinality(LiveEdges) - Cardinality(S)
  <1>1. /\ DOMAIN edges' = DOMAIN edges
        /\ \A e \in DOMAIN edges :
             edges'[e].version = IF e \in S THEN -edges[e].version ELSE edges[e].version
    BY TombstoneEntries DEF TypeOK
  <1>2. LiveEdges' = LiveEdges \ S
    BY <1>1, EntryFields DEF LiveEdges, Versions
  <1>3. IsFiniteSet(LiveEdges)
    BY FiniteSlots DEF LiveEdges
  <1> QED
    BY <1>2, <1>3, Shrink

(***************************************************************************)
(* Flipping ns removes exactly ns from the live nodes.                     *)
(***************************************************************************)
LEMMA NodesRemoved ==
  ASSUME TypeOK, NEW ns \in SUBSET LiveNodes,
         nodes' = [n \in DOMAIN nodes |-> IF n \in ns THEN -nodes[n] ELSE nodes[n]]
  PROVE  Cardinality(LiveNodes') = Cardinality(LiveNodes) - Cardinality(ns)
  <1>1. LiveNodes' = LiveNodes \ ns
    BY NodeVersions DEF LiveNodes, Versions
  <1>2. IsFiniteSet(LiveNodes)
    BY FiniteSlots DEF LiveNodes
  <1> QED
    BY <1>1, <1>2, Shrink

(***************************************************************************)
(* Adding one entry adds one to the count.                                 *)
(***************************************************************************)
LEMMA OneMore ==
  ASSUME NEW L, IsFiniteSet(L), NEW x, x \notin L
  PROVE  Cardinality(L \cup {x}) = Cardinality(L) + 1
  BY FS_AddElement

(***************************************************************************)
(* Every step keeps the counters exact.                                    *)
(***************************************************************************)
LEMMA CountersStep ==
  ASSUME TypeOK, CountersExact, Step
  PROVE  CountersExact'
  <1> DEFINE NodesExact == live_nodes = Cardinality(LiveNodes)
             EdgesExact == live_edges = Cardinality(LiveEdges)
  <1>0. /\ NodesExact /\ EdgesExact
        /\ IsFiniteSet(LiveNodes) /\ IsFiniteSet(LiveEdges)
        /\ edges \in Seq(EdgeEntries)
    BY FiniteSlots DEF CountersExact, LiveNodes, LiveEdges, TypeOK
  <1>1. ASSUME UNCHANGED <<nodes, live_nodes>> PROVE NodesExact'
    BY <1>0, <1>1 DEF LiveNodes
  <1>2. ASSUME UNCHANGED <<edges, live_edges>> PROVE EdgesExact'
    BY <1>0, <1>2 DEF LiveEdges
  <1>3. CASE AppendNode
    <2>1. LiveNodes' = LiveNodes \cup {Len(nodes) + 1}
          /\ Len(nodes) + 1 \notin LiveNodes
      BY <1>3, SeqAppend DEF AppendNode, LiveNodes, TypeOK, Versions
    <2>2. NodesExact'
      BY <1>0, <1>3, <2>1, OneMore DEF AppendNode
    <2> QED
      BY <1>2, <1>3, <2>2 DEF AppendNode, CountersExact
  <1>4. ASSUME NEW n \in DOMAIN nodes, ReuseNode(n) PROVE CountersExact'
    <2>1. /\ nodes[n] < 0
          /\ nodes' = [nodes EXCEPT ![n] = -nodes[n] + 1]
      BY <1>4 DEF ReuseNode, IsFirst, DeadNodes, NextVersion
    <2>2. LiveNodes' = LiveNodes \cup {n} /\ n \notin LiveNodes
      BY <2>1, NodeVersions DEF LiveNodes, Versions
    <2>3. NodesExact'
      BY <1>0, <1>4, <2>2, OneMore DEF ReuseNode
    <2> QED
      BY <1>2, <1>4, <2>3 DEF ReuseNode, CountersExact
  <1>5. ASSUME NEW tail \in DOMAIN nodes, NEW head \in DOMAIN nodes,
               AppendEdge(tail, head)
        PROVE  CountersExact'
    <2>1. edges' = Append(edges, NewEdge(tail, head))
      BY <1>5 DEF AppendEdge
    <2>2. /\ DOMAIN edges' = DOMAIN edges \cup {Len(edges) + 1}
          /\ Len(edges) + 1 \notin DOMAIN edges
          /\ edges'[Len(edges) + 1].version = 1
          /\ \A e \in DOMAIN edges : edges'[e] = edges[e]
      BY <1>0, <2>1, NewEdgeType, SeqAppend DEF NewEdge
    <2>3. LiveEdges' = LiveEdges \cup {Len(edges) + 1}
          /\ Len(edges) + 1 \notin LiveEdges
      BY <2>2 DEF LiveEdges
    <2>4. EdgesExact'
      BY <1>0, <1>5, <2>3, OneMore DEF AppendEdge
    <2> QED
      BY <1>1, <1>5, <2>4 DEF AppendEdge, CountersExact
  <1>6. ASSUME NEW tail \in DOMAIN nodes, NEW head \in DOMAIN nodes,
               NEW e \in DOMAIN edges, ReuseEdge(e, tail, head)
        PROVE  CountersExact'
    <2>1. /\ edges[e].version < 0
          /\ DOMAIN edges' = DOMAIN edges
          /\ edges'[e].version = -edges[e].version + 1
          /\ \A f \in DOMAIN edges \ {e} : edges'[f] = edges[f]
      BY <1>6, EntryFields
         DEF ReuseEdge, IsFirst, DeadBetween, DeadEdges, NextVersion, EdgeEntries
    <2>2. LiveEdges' = LiveEdges \cup {e} /\ e \notin LiveEdges
      BY <2>1, EntryFields DEF LiveEdges, Versions
    <2>3. EdgesExact'
      BY <1>0, <1>6, <2>2, OneMore DEF ReuseEdge
    <2> QED
      BY <1>1, <1>6, <2>3 DEF ReuseEdge, CountersExact
  <1>7. ASSUME NEW e \in DOMAIN edges, RemoveEdge(e) PROVE CountersExact'
    <2>1. Cardinality(LiveEdges') = Cardinality(LiveEdges) - Cardinality({e})
      BY <1>7, EdgesRemoved DEF RemoveEdge
    <2>2. EdgesExact'
      BY <1>0, <1>7, <2>1, FS_Singleton DEF RemoveEdge
    <2> QED
      BY <1>1, <1>7, <2>2 DEF RemoveEdge, CountersExact
  <1>8. ASSUME NEW n \in DOMAIN nodes, RemoveNode(n) PROVE CountersExact'
    <2> DEFINE cascade == LiveIn(edges, Incident({n}))
    <2>1. cascade \in SUBSET LiveEdges
      BY DEF LiveIn, Incident, LiveEdges
    <2>2. EdgesExact'
      BY <1>0, <1>8, <2>1, EdgesRemoved DEF RemoveNode
    <2>3. nodes' = [k \in DOMAIN nodes |-> IF k \in {n} THEN -nodes[k] ELSE nodes[k]]
      BY <1>8, SeqElim DEF RemoveNode, TypeOK
    <2>4. {n} \in SUBSET LiveNodes
      BY <1>8 DEF RemoveNode
    <2>5. Cardinality(LiveNodes') = Cardinality(LiveNodes) - Cardinality({n})
      BY <2>3, <2>4, NodesRemoved
    <2>6. NodesExact'
      BY <1>0, <1>8, <2>5, FS_Singleton DEF RemoveNode
    <2> QED
      BY <2>2, <2>6 DEF CountersExact
  <1>9. ASSUME NEW ns \in SUBSET LiveNodes, NEW es \in SUBSET LiveEdges,
               TakeNodesEdges(ns, es)
        PROVE  CountersExact'
    <2> DEFINE cascade == LiveIn(Tombstone(edges, es), Incident(ns))
    <2>1. /\ cascade \in SUBSET LiveEdges /\ cascade \cap es = {}
          /\ edges' = Tombstone(edges, es \cup cascade)
          /\ live_edges' = live_edges - Cardinality(es) - Cardinality(cascade)
      BY <1>9, CascadeCovers DEF TakeNodesEdges
    <2> HIDE DEF cascade
    <2>2. IsFiniteSet(es) /\ IsFiniteSet(cascade)
      BY <1>0, <2>1, FS_Subset
    <2>3. Cardinality(es \cup cascade) = Cardinality(es) + Cardinality(cascade)
      <3>1. es \cap cascade = {}
        BY <2>1
      <3>2. Cardinality(es \cup cascade)
              = Cardinality(es) + Cardinality(cascade) - Cardinality({})
        BY <2>2, <3>1, FS_Union
      <3>3. Cardinality({}) = 0 /\ Cardinality(es) \in Nat /\ Cardinality(cascade) \in Nat
        BY <2>2, FS_EmptySet, FS_CardinalityType
      <3> QED
        BY <3>2, <3>3
    <2>4. Cardinality(LiveEdges') = Cardinality(LiveEdges) - Cardinality(es \cup cascade)
      BY <2>1, EdgesRemoved
    <2>5. EdgesExact'
      BY <1>0, <2>1, <2>2, <2>3, <2>4, FS_CardinalityType
    <2>6. NodesExact'
      BY <1>0, <1>9, NodesRemoved DEF TakeNodesEdges
    <2> QED
      BY <2>5, <2>6 DEF CountersExact
  <1>10. CASE Reverse
    <2>1. /\ DOMAIN edges' = DOMAIN edges
          /\ \A e \in DOMAIN edges : edges'[e].version = edges[e].version
          /\ UNCHANGED <<nodes, live_nodes, live_edges>>
      BY <1>10, EntryFields DEF Reverse, EdgeEntries
    <2>2. LiveEdges' = LiveEdges
      BY <2>1 DEF LiveEdges
    <2> QED
      BY <1>0, <1>1, <2>1, <2>2 DEF CountersExact
  <1> QED
    BY <1>3, <1>4, <1>5, <1>6, <1>7, <1>8, <1>9, <1>10 DEF Step

-----------------------------------------------------------------------------
(***************************************************************************)
(* The inductive invariant.                                                *)
(***************************************************************************)
IInv == TypeOK /\ CountersExact /\ EndpointsKept /\ RetiredBehind

(***************************************************************************)
(* A freshly stabilized graph satisfies the invariant.                     *)
(***************************************************************************)
LEMMA InitIInv == Init => IInv
  <1> SUFFICES ASSUME Init PROVE IInv
    OBVIOUS
  <1>1. TypeOK
    BY InitType
  <1>2. /\ Len(nodes) \in Nat /\ DOMAIN nodes = 1..Len(nodes)
        /\ Len(edges) \in Nat /\ DOMAIN edges = 1..Len(edges)
    BY <1>1, SeqElim DEF TypeOK
  <1>3. \A n \in DOMAIN nodes : nodes[n] = 1
    BY DEF Init
  <1>4. \A e \in DOMAIN edges : \E tail, head \in DOMAIN nodes :
          edges[e] = NewEdge(tail, head)
    <2>1. PICK m \in 0..MaxEdges : \E ends \in [1..m -> (DOMAIN nodes) \X (DOMAIN nodes)] :
            edges = [e \in 1..m |-> NewEdge(ends[e][1], ends[e][2])]
      BY DEF Init
    <2>2. PICK ends \in [1..m -> (DOMAIN nodes) \X (DOMAIN nodes)] :
            edges = [e \in 1..m |-> NewEdge(ends[e][1], ends[e][2])]
      BY <2>1
    <2> QED
      BY <2>2
  <1>5. CountersExact
    <2>1. LiveNodes = 1..Len(nodes)
      BY <1>2, <1>3 DEF LiveNodes
    <2>2. LiveEdges = 1..Len(edges)
      BY <1>2, <1>4 DEF LiveEdges, NewEdge
    <2> QED
      BY <1>2, <2>1, <2>2, IntervalSize DEF Init, CountersExact
  <1>6. EndpointsKept
    <2> SUFFICES ASSUME NEW e \in LiveEdges PROVE Kept(e)
      BY DEF EndpointsKept, Kept
    <2>1. PICK tail \in DOMAIN nodes, head \in DOMAIN nodes :
            edges[e] = NewEdge(tail, head)
      BY <1>4 DEF LiveEdges
    <2>2. Endpoints(e) = <<NodeIx(tail), NodeIx(head)>> /\ Endpoints(e) = edges[e].given
      BY <2>1 DEF Endpoints, NewEdge
    <2>3. ContainsNode(NodeIx(tail)) /\ ContainsNode(NodeIx(head))
      BY <1>3 DEF ContainsNode, NodeIx
    <2> QED
      BY <2>2, <2>3 DEF Kept, ContainsNode, NodeIx
  <1>7. RetiredBehind
    BY DEF Init, RetiredBehind, NodesBehind, EdgesBehind
  <1> QED
    BY <1>1, <1>5, <1>6, <1>7 DEF IInv

(***************************************************************************)
(* Every step keeps the invariant.                                         *)
(***************************************************************************)
LEMMA NextIInv == IInv /\ [Next]_vars => IInv'
  <1> SUFFICES ASSUME IInv, [Next]_vars PROVE IInv'
    OBVIOUS
  <1>1. CASE Next
    <2>1. TypeOK /\ CountersExact /\ EndpointsKept /\ RetiredBehind /\ Step /\ Retire
      BY <1>1 DEF IInv, Next
    <2>2. \A k \in 1..2 : retired'[k] \subseteq Nat \X Int
      BY <2>1, IndexTypes DEF Retire, TypeOK
    <2>3. TypeOK'
      BY <2>1, <2>2, NodesStep, EdgesStep, CapacityStep, CountersType DEF TypeOK
    <2> QED
      BY <2>1, <2>3, CountersStep, EndpointsStep, RetiredStep DEF IInv
  <1>2. CASE UNCHANGED vars
    <2> USE <1>2 DEF vars, IInv
    <2>1. TypeOK'
      BY DEF TypeOK, EdgeEntries, Ends
    <2>2. CountersExact'
      BY DEF CountersExact, LiveNodes, LiveEdges
    <2>3. EndpointsKept'
      BY DEF EndpointsKept, Endpoints, NodeIx, ContainsNode, LiveEdges
    <2>4. RetiredBehind'
      BY DEF RetiredBehind, NodesBehind, EdgesBehind
    <2> QED
      BY <2>1, <2>2, <2>3, <2>4
  <1> QED
    BY <1>1, <1>2

(***************************************************************************)
(* The invariant holds of every reachable state.                           *)
(***************************************************************************)
THEOREM Invariance == Spec => []IInv
  BY InitIInv, NextIInv, PTL DEF Spec

(***************************************************************************)
(* Versions are never 0, edges point to slots of the inner graph.          *)
(***************************************************************************)
THEOREM TypeCorrect == Spec => []TypeOK
  <1>1. IInv => TypeOK
    BY DEF IInv
  <1> QED
    BY <1>1, Invariance, PTL

(***************************************************************************)
(* len_node and len_edge, maintained by increments and decrements over     *)
(* inserts, reuses, removals, cascades and batches, are exact.             *)
(***************************************************************************)
THEOREM CountersCorrect == Spec => []CountersExact
  <1>1. IInv => CountersExact
    BY DEF IInv
  <1> QED
    BY <1>1, Invariance, PTL

(***************************************************************************)
(* A live edge reports the valid indices of the nodes it was inserted      *)
(* between (swapped by reverse), for as long as it lives.                  *)
(***************************************************************************)
THEOREM EndpointsCorrect == Spec => []EndpointsKept
  <1>1. IInv => EndpointsKept
    BY DEF IInv
  <1> QED
    BY <1>1, Invariance, PTL

(***************************************************************************)
(* No ABA: an index that has become invalid stays invalid.                 *)
(***************************************************************************)
THEOREM ResurrectionFree == Spec => []NoResurrection
  <1>1. IInv => NoResurrection
    <2> SUFFICES ASSUME IInv PROVE NoResurrection
      OBVIOUS
    <2>1. \A ix \in retired[1] : ~ContainsNode(ix)
      BY NodeVersions DEF IInv, RetiredBehind, NodesBehind, Behind, ContainsNode, Versions
    <2>2. \A ix \in retired[2] : ~ContainsEdge(ix)
      BY EntryFields DEF IInv, RetiredBehind, EdgesBehind, Behind, ContainsEdge, Versions
    <2> QED
      BY <2>1, <2>2 DEF NoResurrection
  <1> QED
    BY <1>1, Invariance, PTL

(***************************************************************************)
(* into_inner removes the tombstones and nothing else.                     *)
(***************************************************************************)
THEOREM PurgeCorrect == Spec => []PurgeKeepsLive
  <1>1. IInv => PurgeKeepsLive
    <2> SUFFICES ASSUME IInv PROVE PurgeKeepsLive
      OBVIOUS
    <2>1. DOMAIN nodes \ DeadNodes = LiveNodes
      BY NodeVersions DEF IInv, DeadNodes, LiveNodes, Versions
    <2>2. AfterEdgePass = LiveEdges
      BY EntryFields DEF IInv, AfterEdgePass, DeadEdges, LiveEdges, Versions
    <2>3. \A e \in LiveEdges : e \notin Incident(DeadNodes)
      <3>1. DeadNodes \cap LiveNodes = {}
        BY NodeVersions DEF IInv, DeadNodes, LiveNodes, Versions
      <3>2. \A e \in LiveEdges : \A d \in 1..2 : edges[e].ends[d] \in LiveNodes
        BY LiveEnds DEF IInv
      <3> QED
        BY <3>1, <3>2 DEF Incident
    <2> QED
      BY <2>1, <2>2, <2>3 DEF PurgeKeepsLive, AfterNodePass
  <1> QED
    BY <1>1, Invariance, PTL

(***************************************************************************)
(* When capacity is unknown, the comparison of a length with a counter by  *)
(* which an insertion skips the scan is right: no tombstone is missed.     *)
(***************************************************************************)
THEOREM ScanNeverMissed == Spec => []NoTombstoneSkipped
  <1>1. IInv => NoTombstoneSkipped
    <2> SUFFICES ASSUME IInv PROVE NoTombstoneSkipped
      OBVIOUS
    <2>1. /\ TypeOK /\ CountersExact
          /\ Len(nodes) \in Nat /\ DOMAIN nodes = 1..Len(nodes)
          /\ Len(edges) \in Nat /\ DOMAIN edges = 1..Len(edges)
      BY SeqElim DEF IInv, TypeOK
    <2>2. ASSUME Len(nodes) <= live_nodes PROVE DeadNodes = {}
      <3>1. /\ IsFiniteSet(DOMAIN nodes) /\ Cardinality(DOMAIN nodes) = Len(nodes)
            /\ LiveNodes \in SUBSET DOMAIN nodes
        BY <2>1, IntervalSize DEF LiveNodes
      <3>2. Cardinality(LiveNodes) = Cardinality(DOMAIN nodes)
        BY <2>1, <2>2, <3>1, FS_Subset, FiniteSlots DEF CountersExact
      <3>3. LiveNodes = DOMAIN nodes
        BY <3>1, <3>2, FS_Subset
      <3> QED
        BY <2>1, <3>3, NodeVersions DEF DeadNodes, LiveNodes, Versions
    <2>3. ASSUME Len(edges) <= live_edges PROVE DeadEdges = {}
      <3>1. /\ IsFiniteSet(DOMAIN edges) /\ Cardinality(DOMAIN edges) = Len(edges)
            /\ LiveEdges \in SUBSET DOMAIN edges
        BY <2>1, IntervalSize DEF LiveEdges
      <3>2. Cardinality(LiveEdges) = Cardinality(DOMAIN edges)
        BY <2>1, <2>3, <3>1, FS_Subset, FiniteSlots DEF CountersExact
      <3>3. LiveEdges = DOMAIN edges
        BY <3>1, <3>2, FS_Subset
      <3> QED
        BY <2>1, <3>3, EntryFields DEF DeadEdges, LiveEdges, Versions
    <2> QED
      BY <2>2, <2>3 DEF NoTombstoneSkipped, CanAppendCheaply
  <1> QED
    BY <1>1, Invariance, PTL

-----------------------------------------------------------------------------
(***************************************************************************)
(* The wrapper as a graph of indices.  The bounds of the model are those   *)
(* of the indices it hands out.                                            *)
(***************************************************************************)
Bounded == Len(nodes) <= MaxNodes /\ Len(edges) <= MaxEdges

(***************************************************************************)
(* What the abstract graph sees as the endpoints of its edges.             *)
(***************************************************************************)
Arcs == [ix \in EdgeIxs |-> Endpoints(ix[1])]

(***************************************************************************)
(* The index of a node is valid if it is a live slot with its version.     *)
(***************************************************************************)
LEMMA ValidNode == \A ix : ix \in NodeIxs <=> \E n \in DOMAIN nodes : nodes[n] > 0 /\ ix = <<n, nodes[n]>>
  BY DEF NodeIxs, NodeIx, LiveNodes

(***************************************************************************)
(* So it is with the index of an edge.                                     *)
(***************************************************************************)
LEMMA ValidEdge == \A ix : ix \in EdgeIxs <=> \E e \in LiveEdges : ix = <<e, edges[e].version>>
  BY DEF EdgeIxs, EdgeIx

(***************************************************************************)
(* The endpoints of a valid index are those of its slot.                   *)
(***************************************************************************)
LEMMA ArcOf ==
  ASSUME NEW e \in LiveEdges
  PROVE  EdgeIx(e) \in EdgeIxs /\ Arcs[EdgeIx(e)] = Endpoints(e)
  BY DEF Arcs, EdgeIxs, EdgeIx

(***************************************************************************)
(* An entry comes to life in a node slot, a new one or a tombstone: one    *)
(* more node, and the live ones stay what they are.                        *)
(***************************************************************************)
LEMMA NodeAdded ==
  ASSUME TypeOK, NEW n, NEW v \in Nat, v > 0, n \notin LiveNodes,
         DOMAIN nodes' = DOMAIN nodes \cup {n}, nodes'[n] = v,
         \A m \in DOMAIN nodes : m # n => nodes'[m] = nodes[m]
  PROVE  /\ NodeIxs' = NodeIxs \cup {<<n, v>>}
         /\ <<n, v>> \notin NodeIxs
         /\ \A m \in LiveNodes : nodes'[m] = nodes[m]
  <1>1. <<n, v>> \notin NodeIxs
    BY ValidNode DEF LiveNodes
  <1>2. \A ix : ix \in NodeIxs' <=> \E m \in DOMAIN nodes' : nodes'[m] > 0 /\ ix = <<m, nodes'[m]>>
    BY DEF NodeIxs, NodeIx, LiveNodes
  <1>3. ASSUME NEW ix \in NodeIxs' PROVE ix \in NodeIxs \cup {<<n, v>>}
    <2>1. PICK m \in DOMAIN nodes' : nodes'[m] > 0 /\ ix = <<m, nodes'[m]>>
      BY <1>2
    <2>2. CASE m = n
      BY <2>1, <2>2
    <2>3. CASE m # n
      BY <2>1, <2>3, ValidNode
    <2> QED
      BY <2>2, <2>3
  <1>4. ASSUME NEW ix \in NodeIxs PROVE ix \in NodeIxs'
    <2>1. PICK m \in DOMAIN nodes : nodes[m] > 0 /\ ix = <<m, nodes[m]>>
      BY ValidNode
    <2>2. m # n /\ nodes'[m] = nodes[m] /\ m \in DOMAIN nodes'
      BY <2>1 DEF LiveNodes
    <2> QED
      BY <1>2, <2>1, <2>2
  <1>5. <<n, v>> \in NodeIxs'
    BY <1>2
  <1>6. \A m \in LiveNodes : nodes'[m] = nodes[m]
    BY DEF LiveNodes
  <1> QED
    BY <1>1, <1>3, <1>4, <1>5, <1>6

(***************************************************************************)
(* As long as the edges and the live nodes stay, the endpoints stay.       *)
(***************************************************************************)
LEMMA ArcsStay ==
  ASSUME TypeOK, EndpointsKept, UNCHANGED edges, \A m \in LiveNodes : nodes'[m] = nodes[m]
  PROVE  EdgeIxs' = EdgeIxs /\ Arcs' = Arcs
  <1>1. LiveEdges' = LiveEdges /\ EdgeIxs' = EdgeIxs
    BY DEF LiveEdges, EdgeIxs, EdgeIx
  <1>2. ASSUME NEW e \in LiveEdges PROVE Endpoints(e)' = Endpoints(e)
    BY <1>2, LiveEnds DEF Endpoints, NodeIx
  <1>3. ASSUME NEW ix \in EdgeIxs PROVE ix[1] \in LiveEdges
    BY ValidEdge
  <1>4. \A ix \in EdgeIxs : Endpoints(ix[1])' = Endpoints(ix[1])
    BY <1>2, <1>3
  <1> QED
    BY <1>1, <1>4 DEF Arcs

(***************************************************************************)
(* An entry comes to life in an edge slot.                                 *)
(***************************************************************************)
LEMMA EdgeAdded ==
  ASSUME TypeOK, UNCHANGED nodes, NEW e, NEW v \in Nat, v > 0, e \notin LiveEdges,
         NEW tail, NEW head,
         DOMAIN edges' = DOMAIN edges \cup {e},
         edges'[e].version = v, edges'[e].ends = <<tail, head>>,
         \A f \in DOMAIN edges : f # e => edges'[f] = edges[f]
  PROVE  /\ <<e, v>> \notin EdgeIxs
         /\ Arcs' = [ix \in EdgeIxs \cup {<<e, v>>} |->
                       IF ix = <<e, v>> THEN <<NodeIx(tail), NodeIx(head)>> ELSE Arcs[ix]]
  <1>1. LiveEdges' = LiveEdges \cup {e}
    BY DEF LiveEdges
  <1>2. <<e, v>> \notin EdgeIxs
    BY ValidEdge
  <1>3. \A ix : ix \in EdgeIxs' <=> \E f \in LiveEdges' : ix = <<f, edges'[f].version>>
    BY DEF EdgeIxs, EdgeIx
  <1>4. \A f \in LiveEdges : f # e /\ edges'[f] = edges[f]
    BY DEF LiveEdges
  <1>5. EdgeIxs' = EdgeIxs \cup {<<e, v>>}
    <2>1. ASSUME NEW ix \in EdgeIxs' PROVE ix \in EdgeIxs \cup {<<e, v>>}
      BY <1>1, <1>3, <1>4, ValidEdge
    <2>2. ASSUME NEW ix \in EdgeIxs \cup {<<e, v>>} PROVE ix \in EdgeIxs'
      BY <1>1, <1>3, <1>4, ValidEdge
    <2> QED
      BY <2>1, <2>2
  <1>6. Endpoints(e)' = <<NodeIx(tail), NodeIx(head)>>
    BY DEF Endpoints, NodeIx
  <1>7. \A f \in LiveEdges : Endpoints(f)' = Endpoints(f)
    BY <1>4 DEF Endpoints, NodeIx
  <1>8. ASSUME NEW ix \in EdgeIxs
        PROVE  Endpoints(ix[1])' = Arcs[ix] /\ ix # <<e, v>>
    <2>1. ix[1] \in LiveEdges
      BY ValidEdge
    <2> QED
      BY <1>2, <1>7, <2>1 DEF Arcs
  <1>9. Arcs' = [ix \in EdgeIxs' |-> Endpoints(ix[1])']
    BY DEF Arcs
  <1> QED
    BY <1>2, <1>5, <1>6, <1>8, <1>9

(***************************************************************************)
(* Ascending lists a set of slots, each once.                              *)
(***************************************************************************)
LEMMA AscendingListsAll ==
  ASSUME NEW S \in SUBSET Nat, IsFiniteSet(S)
  PROVE  /\ Cardinality(S) \in Nat
         /\ Ascending(S) \in [1..Cardinality(S) -> S]
         /\ \A i, j \in 1..Cardinality(S) : Ascending(S)[i] = Ascending(S)[j] => i = j
         /\ \A x \in S : \E i \in 1..Cardinality(S) : Ascending(S)[i] = x
  <1>1. PICK s : Rising(s, Cardinality(S), S)
    BY RisingExists
  <1>2. /\ s \in [1..Cardinality(S) -> S]
        /\ \A i, j \in DOMAIN s : i < j => s[i] < s[j]
    BY <1>1 DEF Rising
  <1>3. /\ Ascending(S) \in [1..Cardinality(S) -> S]
        /\ \A i, j \in DOMAIN Ascending(S) : i < j => Ascending(S)[i] < Ascending(S)[j]
    BY <1>2 DEF Ascending
  <1>4. Rising(Ascending(S), Cardinality(S), S)
    BY <1>3 DEF Rising
  <1> QED
    BY <1>3, <1>4, RisingListsAll

(***************************************************************************)
(* A batch is asked for each of its indices once.                          *)
(***************************************************************************)
LEMMA NamedOnce ==
  ASSUME TypeOK, NEW ns \in SUBSET LiveNodes, NEW es \in SUBSET LiveEdges
  PROVE  /\ Abstract!AskedOnce(Named(ns, es))
         /\ Abstract!ToSet(Named(ns, es)[1]) = {NodeIx(n) : n \in ns}
         /\ Abstract!ToSet(Named(ns, es)[2]) = {EdgeIx(e) : e \in es}
  <1> DEFINE an == Ascending(ns)  cn == Cardinality(ns)
             ae == Ascending(es)  ce == Cardinality(es)
             sn == [i \in 1..cn |-> NodeIx(an[i])]
             se == [i \in 1..ce |-> EdgeIx(ae[i])]
  <1>1. /\ ns \subseteq Nat /\ IsFiniteSet(ns)
        /\ es \subseteq Nat /\ IsFiniteSet(es)
    BY FiniteSlots, NodeVersions, SeqElim DEF LiveNodes, LiveEdges, TypeOK
  <1>2. /\ an \in [1..cn -> ns]
        /\ \A i, j \in 1..cn : an[i] = an[j] => i = j
        /\ \A x \in ns : \E i \in 1..cn : an[i] = x
    BY <1>1, AscendingListsAll
  <1>3. /\ ae \in [1..ce -> es]
        /\ \A i, j \in 1..ce : ae[i] = ae[j] => i = j
        /\ \A x \in es : \E i \in 1..ce : ae[i] = x
    BY <1>1, AscendingListsAll
  <1>4. Named(ns, es) = <<sn, se>>
    BY DEF Named
  <1> HIDE DEF an, ae, cn, ce
  <1>5. DOMAIN sn = 1..cn /\ \A i \in 1..cn : sn[i] = NodeIx(an[i])
    OBVIOUS
  <1>6. DOMAIN se = 1..ce /\ \A i \in 1..ce : se[i] = EdgeIx(ae[i])
    OBVIOUS
  <1> HIDE DEF sn, se
  <1>7. Abstract!IsInjective(sn) /\ Abstract!IsInjective(se)
    BY <1>2, <1>3, <1>5, <1>6 DEF Abstract!IsInjective, NodeIx, EdgeIx
  <1>8. Abstract!AskedOnce(Named(ns, es))
    BY <1>4, <1>7 DEF Abstract!AskedOnce
  <1>9. Abstract!ToSet(sn) = {NodeIx(n) : n \in ns}
    <2>1. Abstract!ToSet(sn) = {sn[i] : i \in 1..cn}
      BY <1>5 DEF Abstract!ToSet
    <2> QED
      BY <1>2, <1>5, <2>1
  <1>10. Abstract!ToSet(se) = {EdgeIx(e) : e \in es}
    <2>1. Abstract!ToSet(se) = {se[i] : i \in 1..ce}
      BY <1>6 DEF Abstract!ToSet
    <2> QED
      BY <1>3, <1>6, <2>1
  <1> QED
    BY <1>4, <1>8, <1>9, <1>10

(***************************************************************************)
(* A removal of the nodes ns and the edges es, with the edges incident to  *)
(* ns, is a removal of their indices.                                      *)
(***************************************************************************)
LEMMA Removed ==
  ASSUME TypeOK, EndpointsKept,
         NEW ns \in SUBSET LiveNodes, NEW es \in SUBSET LiveEdges, NEW S \in SUBSET LiveEdges,
         \A e \in LiveEdges : e \in S <=> e \in es \/ (\E d \in 1..2 : edges[e].ends[d] \in ns),
         edges' = Tombstone(edges, S),
         nodes' = [n \in DOMAIN nodes |-> IF n \in ns THEN -nodes[n] ELSE nodes[n]]
  PROVE  /\ NodeIxs' = NodeIxs \ {NodeIx(n) : n \in ns}
         /\ Arcs' = [ix \in {f \in EdgeIxs : /\ f \notin {EdgeIx(e) : e \in es}
                                             /\ \A d \in 1..2 : Arcs[f][d] \notin {NodeIx(n) : n \in ns}}
                       |-> Arcs[ix]]
  <1>1. NodeIxs' = NodeIxs \ {NodeIx(n) : n \in ns}
    <2>1. LiveNodes' = LiveNodes \ ns
      BY NodeVersions DEF LiveNodes, Versions
    <2>2. \A n \in LiveNodes : n \notin ns => NodeIx(n)' = NodeIx(n)
      BY DEF NodeIx, LiveNodes
    <2>3. NodeIxs' = {NodeIx(n)' : n \in LiveNodes'}
      BY DEF NodeIxs
    <2>4. NodeIxs = {NodeIx(n) : n \in LiveNodes}
      BY DEF NodeIxs
    <2>5. \A n, m : NodeIx(n) = NodeIx(m) => n = m
      BY DEF NodeIx
    <2> QED
      BY <2>1, <2>2, <2>3, <2>4, <2>5
  <1>2. /\ DOMAIN edges' = DOMAIN edges
        /\ \A e \in DOMAIN edges :
             /\ edges'[e].ends = edges[e].ends
             /\ edges'[e].version = IF e \in S THEN -edges[e].version ELSE edges[e].version
    BY TombstoneEntries DEF TypeOK
  <1>3. LiveEdges' = LiveEdges \ S
    BY <1>2, EntryFields DEF LiveEdges, Versions
  <1>4. ASSUME NEW e \in LiveEdges, e \notin S
        PROVE  EdgeIx(e)' = EdgeIx(e) /\ Endpoints(e)' = Endpoints(e)
    <2>1. EdgeIx(e)' = EdgeIx(e)
      BY <1>2, <1>4 DEF EdgeIx, LiveEdges
    <2>2. \A d \in 1..2 : edges[e].ends[d] \in LiveNodes /\ edges[e].ends[d] \notin ns
      BY <1>4, LiveEnds
    <2>3. \A d \in 1..2 : nodes'[edges[e].ends[d]] = nodes[edges[e].ends[d]]
      BY <2>2 DEF LiveNodes
    <2> QED
      BY <1>2, <2>1, <2>3 DEF Endpoints, NodeIx, LiveEdges
  <1>5. ASSUME NEW e \in LiveEdges
        PROVE  e \in S <=> EdgeIx(e) \in {EdgeIx(f) : f \in es}
                            \/ (\E d \in 1..2 : Arcs[EdgeIx(e)][d] \in {NodeIx(n) : n \in ns})
    <2>1. EdgeIx(e) \in {EdgeIx(f) : f \in es} <=> e \in es
      BY DEF EdgeIx
    <2>2. \A d \in 1..2 : Arcs[EdgeIx(e)][d] = NodeIx(edges[e].ends[d])
      BY ArcOf DEF Endpoints
    <2>3. \A d \in 1..2 : NodeIx(edges[e].ends[d]) \in {NodeIx(n) : n \in ns}
                          <=> edges[e].ends[d] \in ns
      BY DEF NodeIx
    <2> QED
      BY <2>1, <2>2, <2>3
  <1> DEFINE kept == {f \in EdgeIxs : /\ f \notin {EdgeIx(e) : e \in es}
                                      /\ \A d \in 1..2 : Arcs[f][d] \notin {NodeIx(n) : n \in ns}}
  <1>6. \A e \in LiveEdges : EdgeIx(e) \in kept <=> e \notin S
    BY <1>5, ArcOf
  <1>7. \A ix : ix \in EdgeIxs <=> \E e \in LiveEdges : ix = EdgeIx(e)
    BY DEF EdgeIxs
  <1>8. \A ix : ix \in EdgeIxs' <=> \E e \in LiveEdges' : ix = EdgeIx(e)'
    BY DEF EdgeIxs
  <1>9. \A ix \in kept : ix \in EdgeIxs
    OBVIOUS
  <1> HIDE DEF kept
  <1>10. EdgeIxs' = kept
    <2>1. ASSUME NEW ix \in EdgeIxs' PROVE ix \in kept
      <3>1. PICK e \in LiveEdges' : ix = EdgeIx(e)'
        BY <1>8
      <3>2. e \in LiveEdges /\ e \notin S
        BY <1>3
      <3> QED
        BY <1>4, <1>6, <3>1, <3>2
    <2>2. ASSUME NEW ix \in kept PROVE ix \in EdgeIxs'
      <3>1. PICK e \in LiveEdges : ix = EdgeIx(e)
        BY <1>7, <1>9
      <3>2. e \notin S
        BY <1>6, <3>1
      <3>3. e \in LiveEdges' /\ EdgeIx(e)' = EdgeIx(e)
        BY <1>3, <1>4, <3>2
      <3> QED
        BY <1>8, <3>1, <3>3
    <2> QED
      BY <2>1, <2>2
  <1>11. ASSUME NEW ix \in kept PROVE Endpoints(ix[1])' = Arcs[ix]
    <2>1. PICK e \in LiveEdges : ix = EdgeIx(e)
      BY <1>7, <1>9
    <2>2. e \notin S /\ ix[1] = e
      BY <1>6, <2>1 DEF EdgeIx
    <2> QED
      BY <1>4, <2>1, <2>2, ArcOf
  <1>12. Arcs' = [ix \in EdgeIxs' |-> Endpoints(ix[1])']
    BY DEF Arcs
  <1>13. Arcs' = [ix \in kept |-> Arcs[ix]]
    BY <1>10, <1>11, <1>12
  <1> QED
    BY <1>1, <1>13 DEF kept

-----------------------------------------------------------------------------
(***************************************************************************)
(* The sizes stay within the bounds of the model.                          *)
(***************************************************************************)
LEMMA BoundedStep ==
  ASSUME TypeOK, Bounded, Step
  PROVE  Bounded'
  <1>0. /\ nodes \in Seq(Versions) /\ edges \in Seq(EdgeEntries)
        /\ nodes' \in Seq(Versions) /\ edges' \in Seq(EdgeEntries')
        /\ Len(nodes) <= MaxNodes /\ Len(edges) <= MaxEdges
    BY NodesStep, EdgesStep DEF TypeOK, Bounded
  <1>1. Len(nodes) \in Nat /\ Len(nodes') \in Nat /\ Len(edges) \in Nat /\ Len(edges') \in Nat
    BY <1>0, SeqElim
  <1>2. ASSUME DOMAIN nodes' = DOMAIN nodes PROVE Len(nodes') <= MaxNodes
    <2>1. 1..Len(nodes') = 1..Len(nodes)
      BY <1>0, <1>2, SeqElim
    <2>2. Len(nodes') = Len(nodes)
      BY <1>1, <2>1, IntervalSize
    <2> QED
      BY <1>0, <2>2
  <1>3. ASSUME DOMAIN edges' = DOMAIN edges PROVE Len(edges') <= MaxEdges
    <2>1. 1..Len(edges') = 1..Len(edges)
      BY <1>0, <1>3, SeqElim
    <2>2. Len(edges') = Len(edges)
      BY <1>1, <2>1, IntervalSize
    <2> QED
      BY <1>0, <2>2
  <1>4. Len(nodes') <= MaxNodes
    <2>1. CASE AppendNode
      <3>1. nodes' = Append(nodes, 1) /\ Len(nodes) < MaxNodes /\ 1 \in Versions
        BY <2>1 DEF AppendNode, Versions
      <3>2. Len(nodes') = Len(nodes) + 1
        BY <1>0, <3>1
      <3> QED
        BY <1>1, <3>1, <3>2
    <2>2. CASE ~AppendNode
      <3>1. DOMAIN nodes' = DOMAIN nodes
        BY <2>2 DEF Step, ReuseNode, RemoveNode, AppendEdge, ReuseEdge, RemoveEdge,
                    TakeNodesEdges, Reverse
      <3> QED
        BY <1>2, <3>1
    <2> QED
      BY <2>1, <2>2
  <1>5. Len(edges') <= MaxEdges
    <2>1. ASSUME NEW tail \in DOMAIN nodes, NEW head \in DOMAIN nodes, AppendEdge(tail, head)
          PROVE  Len(edges') <= MaxEdges
      <3>1. /\ edges' = Append(edges, NewEdge(tail, head)) /\ Len(edges) < MaxEdges
            /\ NewEdge(tail, head) \in EdgeEntries
        BY <2>1, NewEdgeType DEF AppendEdge
      <3>2. Len(edges') = Len(edges) + 1
        BY <1>0, <3>1
      <3> QED
        BY <1>1, <3>1, <3>2
    <2>2. CASE ~\E tail, head \in DOMAIN nodes : AppendEdge(tail, head)
      <3>1. DOMAIN edges' = DOMAIN edges
        BY <2>2 DEF Step, AppendNode, ReuseNode, RemoveNode, ReuseEdge, RemoveEdge,
                    TakeNodesEdges, Reverse, Tombstone
      <3> QED
        BY <1>3, <3>1
    <2> QED
      BY <2>1, <2>2
  <1> QED
    BY <1>4, <1>5 DEF Bounded

(***************************************************************************)
(* Each step of the wrapper is a step of the graph of indices.             *)
(***************************************************************************)
LEMMA RefineAppendNode ==
  ASSUME TypeOK, EndpointsKept, Bounded, AppendNode
  PROVE  Abstract!Next
  <1> DEFINE n == Len(nodes) + 1
  <1>1. /\ nodes \in Seq(Versions) /\ 1 \in Versions /\ nodes' = Append(nodes, 1)
        /\ UNCHANGED edges /\ answer' = Inserted("insert_node", <<<<n, 1>>>>)
        /\ Len(nodes) < MaxNodes
    BY DEF AppendNode, TypeOK, Versions
  <1>2. /\ DOMAIN nodes' = DOMAIN nodes \cup {n} /\ n \notin DOMAIN nodes
        /\ nodes'[n] = 1 /\ \A m \in DOMAIN nodes : nodes'[m] = nodes[m]
    BY <1>1, SeqAppend
  <1>3. <<n, 1>> \in (1..MaxNodes) \X (1..MaxVersion)
    BY <1>1, NodeVersions
  <1> HIDE DEF n
  <1>4. /\ NodeIxs' = NodeIxs \cup {<<n, 1>>} /\ <<n, 1>> \notin NodeIxs
        /\ \A m \in LiveNodes : nodes'[m] = nodes[m]
    BY <1>2, NodeAdded DEF LiveNodes
  <1>5. Arcs' = Arcs
    BY <1>1, <1>4, ArcsStay
  <1>6. Abstract!InsertNode(<<n, 1>>)
    BY <1>1, <1>4, <1>5 DEF Abstract!InsertNode, Abstract!Answer, Inserted, Answer, Arcs
  <1> QED
    BY <1>3, <1>6 DEF Abstract!Next

(***************************************************************************)
(* A node that reuses a tombstone is a new node, too.                      *)
(***************************************************************************)
LEMMA RefineReuseNode ==
  ASSUME TypeOK, EndpointsKept, Bounded, NEW n \in DOMAIN nodes, ReuseNode(n)
  PROVE  Abstract!Next
  <1> DEFINE v == NextVersion(nodes[n])
  <1>1. n \in DeadNodes /\ v <= MaxVersion
    BY DEF ReuseNode, IsFirst
  <1>2. nodes[n] \in Versions /\ nodes[n] < 0 /\ n \notin LiveNodes
    BY <1>1, NodeVersions DEF DeadNodes, LiveNodes, Versions
  <1>3. v \in Nat /\ v > 0
    BY <1>2 DEF NextVersion, Versions
  <1>4. <<n, v>> \in (1..MaxNodes) \X (1..MaxVersion)
    BY <1>1, <1>3, NodeVersions DEF Bounded
  <1>5. /\ nodes' = [nodes EXCEPT ![n] = v] /\ UNCHANGED edges
        /\ answer' = Inserted("insert_node", <<<<n, v>>>>)
    BY DEF ReuseNode
  <1> HIDE DEF v
  <1>6. /\ DOMAIN nodes' = DOMAIN nodes \cup {n} /\ nodes'[n] = v
        /\ \A m \in DOMAIN nodes : m # n => nodes'[m] = nodes[m]
    BY <1>5
  <1>7. /\ NodeIxs' = NodeIxs \cup {<<n, v>>} /\ <<n, v>> \notin NodeIxs
        /\ \A m \in LiveNodes : nodes'[m] = nodes[m]
    BY <1>2, <1>3, <1>6, NodeAdded
  <1>8. Arcs' = Arcs
    BY <1>5, <1>7, ArcsStay
  <1>9. Abstract!InsertNode(<<n, v>>)
    BY <1>5, <1>7, <1>8 DEF Abstract!InsertNode, Abstract!Answer, Inserted, Answer, Arcs
  <1> QED
    BY <1>4, <1>9 DEF Abstract!Next

(***************************************************************************)
(* What an edge slot that comes to life means, appended or reused.         *)
(***************************************************************************)
LEMMA RefineInsertEdge ==
  ASSUME TypeOK, EndpointsKept, NEW e \in 1..MaxEdges, NEW v \in 1..MaxVersion,
         NEW tail \in LiveNodes, NEW head \in LiveNodes,
         UNCHANGED nodes, e \notin LiveEdges,
         DOMAIN edges' = DOMAIN edges \cup {e},
         edges'[e].version = v, edges'[e].ends = <<tail, head>>,
         \A f \in DOMAIN edges : f # e => edges'[f] = edges[f],
         answer' = Inserted("insert_edge", <<<<e, v>>, NodeIx(tail), NodeIx(head)>>)
  PROVE  Abstract!Next
  <1>1. v \in Nat /\ v > 0 /\ <<e, v>> \in (1..MaxEdges) \X (1..MaxVersion)
    OBVIOUS
  <1>2. /\ <<e, v>> \notin EdgeIxs
        /\ Arcs' = [ix \in EdgeIxs \cup {<<e, v>>} |->
                      IF ix = <<e, v>> THEN <<NodeIx(tail), NodeIx(head)>> ELSE Arcs[ix]]
    BY <1>1, EdgeAdded
  <1>3. NodeIxs' = NodeIxs
    BY DEF NodeIxs, NodeIx, LiveNodes
  <1>4. NodeIx(tail) \in NodeIxs /\ NodeIx(head) \in NodeIxs
    BY DEF NodeIxs
  <1>5. DOMAIN Arcs = EdgeIxs
    BY DEF Arcs
  <1>6. Abstract!InsertEdge(<<e, v>>, NodeIx(tail), NodeIx(head))
    BY <1>2, <1>3, <1>4, <1>5 DEF Abstract!InsertEdge, Abstract!Answer, Inserted, Answer, Arcs
  <1> QED
    BY <1>1, <1>4, <1>6 DEF Abstract!Next

(***************************************************************************)
(* An appended edge.                                                       *)
(***************************************************************************)
LEMMA RefineAppendEdge ==
  ASSUME TypeOK, EndpointsKept, NEW tail \in DOMAIN nodes, NEW head \in DOMAIN nodes,
         AppendEdge(tail, head)
  PROVE  Abstract!Next
  <1> DEFINE e == Len(edges) + 1
  <1>1. /\ edges \in Seq(EdgeEntries) /\ NewEdge(tail, head) \in EdgeEntries
        /\ edges' = Append(edges, NewEdge(tail, head))
        /\ UNCHANGED nodes /\ tail \in LiveNodes /\ head \in LiveNodes
        /\ answer' = Inserted("insert_edge", <<<<e, 1>>, NodeIx(tail), NodeIx(head)>>)
        /\ Len(edges) < MaxEdges
    BY NewEdgeType DEF AppendEdge, TypeOK
  <1>2. /\ DOMAIN edges' = DOMAIN edges \cup {e} /\ e \notin DOMAIN edges
        /\ edges'[e] = NewEdge(tail, head) /\ \A f \in DOMAIN edges : edges'[f] = edges[f]
    BY <1>1, SeqAppend
  <1>3. edges'[e].version = 1 /\ edges'[e].ends = <<tail, head>>
    BY <1>2 DEF NewEdge
  <1>4. e \in 1..MaxEdges /\ 1 \in 1..MaxVersion
    BY <1>1, SeqElim
  <1> HIDE DEF e
  <1>5. e \notin LiveEdges
    BY <1>2 DEF LiveEdges
  <1> QED
    BY <1>1, <1>2, <1>3, <1>4, <1>5, RefineInsertEdge

(***************************************************************************)
(* An edge that reuses a tombstone between the same slots.                 *)
(***************************************************************************)
LEMMA RefineReuseEdge ==
  ASSUME TypeOK, EndpointsKept, Bounded, NEW e \in DOMAIN edges,
         NEW tail \in DOMAIN nodes, NEW head \in DOMAIN nodes, ReuseEdge(e, tail, head)
  PROVE  Abstract!Next
  <1> DEFINE v == NextVersion(edges[e].version)
             g == <<NodeIx(tail), NodeIx(head)>>
  <1>1. /\ e \in DeadEdges /\ edges[e].ends = <<tail, head>> /\ v <= MaxVersion
        /\ tail \in LiveNodes /\ head \in LiveNodes
    BY DEF ReuseEdge, IsFirst, DeadBetween
  <1>2. edges[e].version \in Versions /\ edges[e].version < 0 /\ e \notin LiveEdges
    BY <1>1, EntryFields DEF DeadEdges, LiveEdges, Versions
  <1>3. v \in 1..MaxVersion
    BY <1>1, <1>2 DEF NextVersion, Versions
  <1>4. e \in 1..MaxEdges
    BY SeqElim DEF Bounded, TypeOK
  <1>5. /\ edges' = [edges EXCEPT ![e].version = v, ![e].given = g]
        /\ UNCHANGED nodes
        /\ answer' = Inserted("insert_edge", <<<<e, v>>, NodeIx(tail), NodeIx(head)>>)
    BY DEF ReuseEdge
  <1>6. edges[e] \in EdgeEntries
    BY EntryFields
  <1> HIDE DEF v, g
  <1>7. /\ DOMAIN edges' = DOMAIN edges \cup {e}
        /\ edges'[e].version = v /\ edges'[e].ends = <<tail, head>>
        /\ \A f \in DOMAIN edges : f # e => edges'[f] = edges[f]
    BY <1>1, <1>5, <1>6 DEF EdgeEntries
  <1> QED
    BY <1>1, <1>2, <1>3, <1>4, <1>5, <1>7, RefineInsertEdge

(***************************************************************************)
(* A removal whose answer lists the indices of ns and of es, each once.    *)
(***************************************************************************)
LEMMA RefineRemoved ==
  ASSUME TypeOK, EndpointsKept,
         NEW ns \in SUBSET LiveNodes, NEW es \in SUBSET LiveEdges, NEW S \in SUBSET LiveEdges,
         \A e \in LiveEdges : e \in S <=> e \in es \/ (\E d \in 1..2 : edges[e].ends[d] \in ns),
         edges' = Tombstone(edges, S),
         nodes' = [n \in DOMAIN nodes |-> IF n \in ns THEN -nodes[n] ELSE nodes[n]],
         NEW asked, asked = <<asked[1], asked[2]>>,
         Abstract!AskedOnce(asked),
         Abstract!ToSet(asked[1]) = {NodeIx(n) : n \in ns},
         Abstract!ToSet(asked[2]) = {EdgeIx(e) : e \in es},
         answer' = Answer("take", asked, asked)
  PROVE  Abstract!Next
  <1> DEFINE N == {NodeIx(n) : n \in ns}  E == {EdgeIx(e) : e \in es}
  <1>1. N \subseteq NodeIxs /\ E \subseteq EdgeIxs
    BY DEF NodeIxs, EdgeIxs
  <1>2. /\ NodeIxs' = NodeIxs \ N
        /\ Arcs' = [ix \in {f \in EdgeIxs : f \notin E /\ \A d \in 1..2 : Arcs[f][d] \notin N} |-> Arcs[ix]]
    BY Removed
  <1>3. Abstract!ToSet(asked[1]) = N /\ Abstract!ToSet(asked[2]) = E
    OBVIOUS
  <1> HIDE DEF N, E
  <1>4. DOMAIN Arcs = EdgeIxs
    BY DEF Arcs
  <1>5. Arcs' = Abstract!Without(N, E)
    BY <1>2, <1>4 DEF Abstract!Without, Arcs
  <1>6. answer'.call = "take" /\ answer'.asked = asked /\ answer'.got = asked
    BY DEF Answer
  <1>7. answer' = Abstract!Answer("take", <<asked[1], asked[2]>>, <<asked[1], asked[2]>>)
    BY DEF Answer, Abstract!Answer
  <1>8. Abstract!TakeNodesEdges(asked[1], asked[2])
    BY <1>1, <1>2, <1>3, <1>4, <1>5, <1>7 DEF Abstract!TakeNodesEdges, Arcs
  <1> QED
    BY <1>6, <1>8 DEF Abstract!Next

(***************************************************************************)
(* The three removals.                                                     *)
(***************************************************************************)
LEMMA RefineRemoveEdge ==
  ASSUME TypeOK, EndpointsKept, NEW e \in DOMAIN edges, RemoveEdge(e)
  PROVE  Abstract!Next
  <1> DEFINE asked == <<<<>>, <<EdgeIx(e)>>>>
  <1>1. /\ e \in LiveEdges /\ edges' = Tombstone(edges, {e}) /\ nodes' = nodes
        /\ answer' = Answer("take", asked, asked)
    BY DEF RemoveEdge
  <1>2. nodes' = [n \in DOMAIN nodes |-> IF n \in {} THEN -nodes[n] ELSE nodes[n]]
    BY <1>1, SeqElim DEF TypeOK
  <1>3. Abstract!AskedOnce(asked)
    BY DEF Abstract!AskedOnce, Abstract!IsInjective
  <1>4. Abstract!ToSet(asked[1]) = {} /\ Abstract!ToSet(asked[2]) = {EdgeIx(e)}
    BY DEF Abstract!ToSet
  <1>5. asked = <<asked[1], asked[2]>>
    OBVIOUS
  <1> HIDE DEF asked
  <1>6. {NodeIx(n) : n \in {}} = {} /\ {EdgeIx(f) : f \in {e}} = {EdgeIx(e)}
    OBVIOUS
  <1>7. {} \in SUBSET LiveNodes /\ {e} \in SUBSET LiveEdges
    BY <1>1
  <1>8. \A f \in LiveEdges : f \in {e} <=> f \in {e} \/ (\E d \in 1..2 : edges[f].ends[d] \in {})
    OBVIOUS
  <1> QED
    BY <1>1, <1>2, <1>3, <1>4, <1>5, <1>6, <1>7, <1>8, RefineRemoved

(***************************************************************************)
(* A node goes with its live incident edges.                               *)
(***************************************************************************)
LEMMA RefineRemoveNode ==
  ASSUME TypeOK, EndpointsKept, NEW n \in DOMAIN nodes, RemoveNode(n)
  PROVE  Abstract!Next
  <1> DEFINE asked == <<<<NodeIx(n)>>, <<>>>>
             S == LiveIn(edges, Incident({n}))
  <1>1. /\ n \in LiveNodes /\ edges' = Tombstone(edges, S)
        /\ nodes' = [nodes EXCEPT ![n] = -nodes[n]]
        /\ answer' = Answer("take", asked, asked)
    BY DEF RemoveNode
  <1>2. nodes' = [m \in DOMAIN nodes |-> IF m \in {n} THEN -nodes[m] ELSE nodes[m]]
    BY <1>1
  <1>3. Abstract!AskedOnce(asked)
    BY DEF Abstract!AskedOnce, Abstract!IsInjective
  <1>4. Abstract!ToSet(asked[1]) = {NodeIx(n)} /\ Abstract!ToSet(asked[2]) = {}
    BY DEF Abstract!ToSet
  <1>5. asked = <<asked[1], asked[2]>>
    OBVIOUS
  <1>6. S \in SUBSET LiveEdges
    BY DEF LiveIn, Incident, LiveEdges
  <1>7. \A f \in LiveEdges : f \in S <=> f \in {} \/ (\E d \in 1..2 : edges[f].ends[d] \in {n})
    BY DEF LiveIn, Incident, LiveEdges
  <1> HIDE DEF asked, S
  <1>8. {NodeIx(m) : m \in {n}} = {NodeIx(n)} /\ {EdgeIx(f) : f \in {}} = {}
    OBVIOUS
  <1>9. {n} \in SUBSET LiveNodes /\ {} \in SUBSET LiveEdges
    BY <1>1
  <1> QED
    BY <1>1, <1>2, <1>3, <1>4, <1>5, <1>6, <1>7, <1>8, <1>9, RefineRemoved

(***************************************************************************)
(* A batch, whose two rounds of tombstones are one.                        *)
(***************************************************************************)
LEMMA RefineTakeNodesEdges ==
  ASSUME TypeOK, EndpointsKept, NEW ns \in SUBSET LiveNodes, NEW es \in SUBSET LiveEdges,
         TakeNodesEdges(ns, es)
  PROVE  Abstract!Next
  <1> DEFINE cascade == LiveIn(Tombstone(edges, es), Incident(ns))
             S == es \cup cascade
             asked == Named(ns, es)
  <1>1. /\ cascade \in SUBSET LiveEdges
        /\ LiveIn(edges, Incident(ns)) \subseteq S
        /\ edges' = Tombstone(edges, S)
        /\ nodes' = [n \in DOMAIN nodes |-> IF n \in ns THEN -nodes[n] ELSE nodes[n]]
        /\ answer' = Answer("take", asked, asked)
    BY CascadeCovers DEF TakeNodesEdges
  <1>2. cascade \subseteq Incident(ns)
    BY DEF LiveIn
  <1>3. asked = <<asked[1], asked[2]>>
    BY DEF Named
  <1>4. /\ Abstract!AskedOnce(asked)
        /\ Abstract!ToSet(asked[1]) = {NodeIx(n) : n \in ns}
        /\ Abstract!ToSet(asked[2]) = {EdgeIx(e) : e \in es}
    BY NamedOnce
  <1> HIDE DEF cascade, asked
  <1>5. S \in SUBSET LiveEdges
    BY <1>1
  <1>6. \A e \in LiveEdges : e \in S <=> e \in es \/ (\E d \in 1..2 : edges[e].ends[d] \in ns)
    <2>1. \A e \in LiveEdges : e \in LiveIn(edges, Incident(ns)) <=> \E d \in 1..2 : edges[e].ends[d] \in ns
      BY DEF LiveIn, Incident, LiveEdges
    <2>2. \A e \in cascade : \E d \in 1..2 : edges[e].ends[d] \in ns
      BY <1>2 DEF Incident
    <2> QED
      BY <1>1, <2>1, <2>2
  <1> HIDE DEF S
  <1> QED
    BY <1>1, <1>3, <1>4, <1>5, <1>6, RefineRemoved

(***************************************************************************)
(* reverse.                                                                *)
(***************************************************************************)
LEMMA RefineReverse ==
  ASSUME TypeOK, EndpointsKept, Reverse
  PROVE  Abstract!Next
  <1>1. /\ DOMAIN edges' = DOMAIN edges /\ UNCHANGED nodes
        /\ \A e \in DOMAIN edges : /\ edges'[e].version = edges[e].version
                                   /\ edges'[e].ends = Flip(edges[e].ends)
        /\ answer' = Answer("reverse", <<>>, <<>>)
    <2>1. \A e \in DOMAIN edges : edges[e] \in EdgeEntries
      BY EntryFields
    <2> QED
      BY <2>1 DEF Reverse, EdgeEntries
  <1>2. NodeIxs' = NodeIxs
    BY <1>1 DEF NodeIxs, NodeIx, LiveNodes
  <1>3. LiveEdges' = LiveEdges
    BY <1>1 DEF LiveEdges
  <1>4. EdgeIxs' = EdgeIxs
    BY <1>1, <1>3 DEF EdgeIxs, EdgeIx, LiveEdges
  <1>5. ASSUME NEW ix \in EdgeIxs
        PROVE  Endpoints(ix[1])' = <<Arcs[ix][2], Arcs[ix][1]>>
    <2>1. ix[1] \in LiveEdges
      BY ValidEdge
    <2> QED
      BY <1>1, <2>1 DEF Arcs, Endpoints, NodeIx, Flip, LiveEdges
  <1>6. Arcs' = [ix \in EdgeIxs' |-> Endpoints(ix[1])']
    BY DEF Arcs
  <1>7. Arcs' = [ix \in DOMAIN Arcs |-> <<Arcs[ix][2], Arcs[ix][1]>>]
    BY <1>4, <1>5, <1>6 DEF Arcs
  <1>8. Abstract!ReverseEdges
    BY <1>1, <1>2, <1>7 DEF Abstract!ReverseEdges, Abstract!Answer, Answer, Arcs
  <1> QED
    BY <1>8 DEF Abstract!Next

(***************************************************************************)
(* Every step of the wrapper is one of the graph of indices.               *)
(***************************************************************************)
LEMMA RefineStep ==
  ASSUME TypeOK, EndpointsKept, Bounded, Step
  PROVE  Abstract!Next
  BY RefineAppendNode, RefineReuseNode, RefineAppendEdge, RefineReuseEdge, RefineRemoveEdge,
     RefineRemoveNode, RefineTakeNodesEdges, RefineReverse DEF Step

(***************************************************************************)
(* The endpoints of a valid edge are valid.                                *)
(***************************************************************************)
LEMMA EndpointsValid ==
  ASSUME TypeOK, EndpointsKept
  PROVE  Abstract!NoDanglingArc
  <1>1. ASSUME NEW ix \in EdgeIxs, NEW d \in 1..2
        PROVE  Arcs[ix][d] \in NodeIxs
    <2>1. ix[1] \in LiveEdges
      BY ValidEdge
    <2>2. edges[ix[1]].ends[d] \in LiveNodes
      BY <2>1, LiveEnds
    <2>3. Arcs[ix][d] = NodeIx(edges[ix[1]].ends[d])
      BY DEF Arcs, Endpoints
    <2> QED
      BY <2>2, <2>3 DEF NodeIxs
  <1>2. DOMAIN Arcs = EdgeIxs
    BY DEF Arcs
  <1> QED
    BY <1>1, <1>2 DEF Abstract!NoDanglingArc, Arcs

(***************************************************************************)
(* Stabilized is a graph of the indices it hands out: an insertion adds an *)
(* index that was not valid, a removal takes away exactly what it was      *)
(* asked for and the edges of the removed nodes, and nothing else about    *)
(* which indices are valid, or what they join, ever changes.               *)
(***************************************************************************)
THEOREM WrapperIsGraph == Spec => RefinesMultigraph
  <1>1. Init => Bounded
    BY InitType, SeqElim, IntervalSize DEF Init, Bounded, TypeOK
  <1>2. IInv /\ Bounded /\ [Next]_vars => Bounded'
    BY BoundedStep DEF IInv, Next, vars, Bounded
  <1>3. IInv /\ Bounded /\ [Next]_vars => [Abstract!Next]_(Abstract!vars)
    <2> SUFFICES ASSUME IInv, Bounded, [Next]_vars
                 PROVE  [Abstract!Next]_(Abstract!vars)
      OBVIOUS
    <2>1. CASE Next
      BY <2>1, RefineStep DEF IInv, Next
    <2>2. CASE UNCHANGED vars
      BY <2>2 DEF vars, Abstract!vars, NodeIxs, NodeIx, LiveNodes, EdgeIxs, EdgeIx, LiveEdges,
                  Endpoints
    <2> QED
      BY <2>1, <2>2
  <1>4. IInv => Abstract!NoDanglingArc
    BY EndpointsValid DEF IInv
  <1>5. Init => IInv
    BY InitIInv
  <1> QED
    BY <1>1, <1>2, <1>3, <1>4, <1>5, Invariance, PTL DEF Spec, RefinesMultigraph, Abstract!GrownSpec
=============================================================================
