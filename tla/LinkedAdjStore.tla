--------------------------- MODULE LinkedAdjStore ---------------------------
(***************************************************************************)
(* The data structure of LinkedAdjEdgeGraph (raw_graph/linked_adj_edge.rs) *)
(* and its operations, as functions from graphs to graphs.  A graph is a   *)
(* record of two collections:                                              *)
(*                                                                         *)
(*   nodes[n] = [val, next]         next[d]: head of n's chain d           *)
(*   edges[e] = [val, next, node]   next[d]: successor of e in chain d     *)
(*                                  node[OUTGOING] tail, node[INCOMING] head *)
(*                                                                         *)
(* Every edge is threaded through the OUTGOING chain of its tail and the   *)
(* INCOMING chain of its head.                                             *)
(***************************************************************************)
EXTENDS Collections, SequencesExt

CONSTANTS DenseNodes,   \* the node collection is a Vec, not a map
          DenseEdges,   \* the edge collection is a Vec, not a map
          Sentinel      \* the slot that ends a chain: u32::MAX, or None for maps

ASSUME FamiliesAssumption == DenseNodes \in BOOLEAN /\ DenseEdges \in BOOLEAN

OUTGOING == 0
INCOMING == 1
Dirs == {OUTGOING, INCOMING}
Other(dir) == 1 - dir

EmptyGraph == [nodes |-> <<>>, edges |-> <<>>]

(***************************************************************************)
(* from_slot: a slot holds an index unless it is the sentinel.             *)
(***************************************************************************)
IsIndex(slot) == slot # Sentinel

TakeEdgeEntry(g, e) == [g EXCEPT !.edges = Take(DenseEdges, @, e)]
TakeNodeEntry(g, n) == [g EXCEPT !.nodes = Take(DenseNodes, @, n)]

-----------------------------------------------------------------------------
(***************************************************************************)
(* Links(g, n, dir)[k] is the slot reached from n's head pointer after     *)
(* following k successor pointers of chain dir.  The walk is cut after as  *)
(* many hops as there are edges, so that it is defined on a broken chain   *)
(* too.                                                                    *)
(***************************************************************************)
Links(g, n, dir) ==
  LET slot[k \in 0..Size(g.edges)] ==
        IF k = 0 THEN g.nodes[n].next[dir]
        ELSE IF slot[k - 1] \in DOMAIN g.edges
               THEN g.edges[slot[k - 1]].next[dir]
               ELSE Sentinel
  IN slot

(***************************************************************************)
(* The edges of a chain, head first: the walk ends at the first slot that  *)
(* is not an edge.                                                         *)
(***************************************************************************)
Chain(g, n, dir) ==
  LET slot   == Links(g, n, dir)
      linked == {k \in 0..Size(g.edges) - 1 : slot[k] \in DOMAIN g.edges}
  IN [k \in 1..Cardinality(linked) |-> slot[k - 1]]

(***************************************************************************)
(* replace_in_list: the pointer to target in chain dir of n, which is the  *)
(* head pointer or the successor pointer of an edge met on the way, now    *)
(* holds new.                                                              *)
(***************************************************************************)
ReplaceInList(g, n, dir, target, new) ==
  LET slot == Links(g, n, dir)
      IsPred(p) == /\ g.edges[p].next[dir] = target
                   /\ \E k \in DOMAIN slot : slot[k] = p
  IN IF slot[0] = target
       THEN [g EXCEPT !.nodes[n].next[dir] = new]
       ELSE [g EXCEPT !.edges =
               [p \in DOMAIN g.edges |-> IF IsPred(p)
                                           THEN [g.edges[p] EXCEPT !.next[dir] = new]
                                           ELSE g.edges[p]]]

-----------------------------------------------------------------------------
(***************************************************************************)
(* insert_node_unchecked and insert_edge_unchecked.  A new edge becomes    *)
(* the head of both its chains.                                            *)
(***************************************************************************)
InsertNode(g, v) ==
  [g EXCEPT !.nodes = Insert(DenseNodes, @,
                             [val |-> v, next |-> [d \in Dirs |-> Sentinel]])]

InsertEdge(g, v, from, to) ==
  LET node == [d \in Dirs |-> IF d = OUTGOING THEN from ELSE to]
      e    == IndexOfNew(DenseEdges, g.edges, v)
      entry == [val  |-> v, node |-> node,
                next |-> [d \in Dirs |-> g.nodes[node[d]].next[d]]]
  IN [g EXCEPT !.edges = Insert(DenseEdges, @, entry),
               !.nodes[from].next[OUTGOING] = e,
               !.nodes[to].next[INCOMING] = e]

(***************************************************************************)
(* Take an edge no chain links to any more; if the last edge moved into    *)
(* its position, redirect the two pointers that still hold the old one.    *)
(***************************************************************************)
TakeAndRelink(g, e) ==
  LET h == TakeEdgeEntry(g, e)
      Relink(k, d) == ReplaceInList(k, h.edges[e].node[d], d,
                                    LastIndex(g.edges), e)
  IN IF Relocates(DenseEdges, g.edges, e)
       THEN Relink(Relink(h, OUTGOING), INCOMING)
       ELSE h

(***************************************************************************)
(* take_edge_unchecked: unlink from the tail's and the head's chain, take. *)
(***************************************************************************)
TakeEdge(g, e) ==
  LET edge == g.edges[e]
      Unlink(k, d) == ReplaceInList(k, edge.node[d], d, e, edge.next[d])
  IN TakeAndRelink(Unlink(Unlink(g, OUTGOING), INCOMING), e)

(***************************************************************************)
(* One turn of the loop of take_node_unchecked: the head of n's chain dir  *)
(* is advanced past, unlinked from its peer's other chain, and taken.      *)
(***************************************************************************)
DrainHead(g, n, dir) ==
  LET e    == g.nodes[n].next[dir]
      edge == g.edges[e]
      advanced == [g EXCEPT !.nodes[n].next[dir] = edge.next[dir]]
  IN TakeAndRelink(ReplaceInList(advanced, edge.node[Other(dir)], Other(dir),
                                 e, edge.next[Other(dir)]),
                   e)

DrainTurn(g, n, dir) ==
  IF IsIndex(g.nodes[n].next[dir]) THEN DrainHead(g, n, dir) ELSE g

DrainChain(g, n, dir) ==
  LET After[k \in 0..Size(g.edges)] ==
        IF k = 0 THEN g ELSE DrainTurn(After[k - 1], n, dir)
  IN After[Size(g.edges)]

(***************************************************************************)
(* Mutant: only the tails of the edges are rewritten.                      *)
(***************************************************************************)
ReattachTails(g, n) ==
  LET out == ToSet(Chain(g, n, OUTGOING))
  IN [g EXCEPT !.edges =
        [e \in DOMAIN g.edges |-> IF e \in out THEN [g.edges[e] EXCEPT !.node[OUTGOING] = n]
                                               ELSE g.edges[e]]]

(***************************************************************************)
(* Rewrite endpoint dir of every edge on chain dir of n to n itself.       *)
(***************************************************************************)
Reattach(g, n) ==
  LET on == [d \in Dirs |-> ToSet(Chain(g, n, d))]
      ends(e) == [d \in Dirs |-> IF e \in on[d] THEN n ELSE g.edges[e].node[d]]
  IN [g EXCEPT !.edges =
        [e \in DOMAIN g.edges |-> [g.edges[e] EXCEPT !.node = ends(e)]]]

(***************************************************************************)
(* Mutant: the edges of the moved node keep its old index.                 *)
(***************************************************************************)
RemoveNodeInnerStale(g, n) == TakeNodeEntry(g, n)

(***************************************************************************)
(* remove_node_inner and take_node_unchecked.                              *)
(***************************************************************************)
RemoveNodeInner(g, n) ==
  LET h == TakeNodeEntry(g, n)
  IN IF Relocates(DenseNodes, g.nodes, n) THEN Reattach(h, n) ELSE h

TakeNode(g, n) ==
  RemoveNodeInner(DrainChain(DrainChain(g, n, OUTGOING), n, INCOMING), n)

(***************************************************************************)
(* reverse: every node swaps its heads, every edge its links and its ends. *)
(***************************************************************************)
Swapped(pair) == [d \in Dirs |-> pair[Other(d)]]

ReverseEdges(g) ==
  [nodes |-> [n \in DOMAIN g.nodes |-> [g.nodes[n] EXCEPT !.next = Swapped(@)]],
   edges |-> [e \in DOMAIN g.edges |-> [g.edges[e] EXCEPT !.next = Swapped(@),
                                                          !.node = Swapped(@)]]]
=============================================================================
