------------------------------ MODULE Matching ------------------------------
(***************************************************************************)
(* Matchings (algo/matching.rs): the greedy one, and the one that grows    *)
(* from it along alternating paths found by a depth-first search.          *)
(***************************************************************************)
EXTENDS Digraphs, SequencesExt

Ends(g, e)      == {Tail_(g, e), Head_(g, e)}
Covered(g, M)   == UNION {Ends(g, e) : e \in M}
Partnered(g, n) == {e \in EdgeIxs(g) : n \in Ends(g, e) /\ Cardinality(Ends(g, e)) = 2}

\* Edges in order, a self-loop never.
GreedyMatching(g) ==
  LET Upto[e \in 0..Len(g.edges)] ==
        IF e = 0 THEN {}
        ELSE IF Cardinality(Ends(g, e)) = 2 /\ Ends(g, e) \cap Covered(g, Upto[e - 1]) = {}
               THEN Upto[e - 1] \cup {e} ELSE Upto[e - 1]
  IN Upto[Len(g.edges)]

Neighborhood(g, n) == SelectSeq(EdgeSeq(g), LAMBDA e : e \in Partnered(g, n))

(***************************************************************************)
(* find_augmenting_path: a frame per node of the path, with the edges left *)
(* to try; from one frame to the next, free and matched edges alternate.   *)
(* A node stays visited when its frame is given up.                        *)
(***************************************************************************)
\* Mutant: the search does not alternate.
AlternatesNot(M, depth, e) == e \notin M

\* The first edge is free, the next one matched, and so on.
Alternates(M, depth, e) == (e \in M) = (depth % 2 = 0)

RECURSIVE Augmenting(_, _, _)
Augmenting(g, M, run) ==
  LET depth == Len(run.stack)
      top   == Last(run.stack)
      e     == Head(top.rest)
      to    == OtherEnd(g, e, top.node)
      tried == [run EXCEPT !.stack[depth].rest = Tail(@)]
  IN IF depth = 0 THEN {}
     ELSE IF top.rest = <<>> THEN
       Augmenting(g, M, [run EXCEPT !.stack = Front(@),
                                    !.path  = IF @ = <<>> THEN @ ELSE Front(@)])
     ELSE IF ~Alternates(M, depth, e) \/ to \in run.visited THEN
       Augmenting(g, M, tried)
     ELSE IF e \notin M /\ to \notin Covered(g, M) THEN ToSet(run.path) \cup {e}
     ELSE Augmenting(g, M,
            [tried EXCEPT !.path = Append(@, e), !.visited = @ \cup {to},
                          !.stack = Append(@, [node |-> to, rest |-> Neighborhood(g, to)])])

\* The edges of an augmenting path from n, or none.
FindAugmentingPath(g, M, n) ==
  Augmenting(g, M, [path |-> <<>>, visited |-> {n},
                    stack |-> <<[node |-> n, rest |-> Neighborhood(g, n)]>>])

Toggle(M, path) == (M \ path) \cup (path \ M)

\* One round over the nodes that are free when it begins.
AugmentRound(g, M) ==
  LET free == SelectSeq([n \in Nodes(g) |-> n], LAMBDA n : n \notin Covered(g, M))
      Upto[i \in 0..Len(free)] ==
        IF i = 0 THEN M
        ELSE IF free[i] \in Covered(g, Upto[i - 1]) THEN Upto[i - 1]
             ELSE Toggle(Upto[i - 1], FindAugmentingPath(g, Upto[i - 1], free[i]))
  IN Upto[Len(free)]

RECURSIVE Augment(_, _)
Augment(g, M) ==
  LET next == AugmentRound(g, M) IN IF next = M THEN M ELSE Augment(g, next)

MaxMatching(g) == Augment(g, GreedyMatching(g))

-----------------------------------------------------------------------------
IsMatching(g, M) ==
  \A e \in M : /\ Cardinality(Ends(g, e)) = 2
               /\ \A f \in M \ {e} : Ends(g, e) \cap Ends(g, f) = {}

TwoColorable(g) ==
  \E side \in SUBSET Nodes(g) : \A a \in Arcs(g) : (a[1] \in side) # (a[2] \in side)

(***************************************************************************)
(* The greedy matching cannot be extended.  Augmenting keeps a matching,   *)
(* never loses an edge's worth, leaves no pair of free neighbours, and     *)
(* ends with a largest matching if the graph is bipartite; the search      *)
(* marks nodes once and does not contract odd cycles, so that it may miss  *)
(* a larger one elsewhere.                                                 *)
(***************************************************************************)
MatchingsGrow(g) ==
  LET greedy == GreedyMatching(g)
      M      == MaxMatching(g)
  IN /\ \A N \in {greedy, M} :
          /\ IsMatching(g, N)
          /\ \A e \in EdgeIxs(g) : Cardinality(Ends(g, e)) = 2 =>
               Ends(g, e) \cap Covered(g, N) # {}
     /\ Cardinality(greedy) <= Cardinality(M)
     /\ TwoColorable(g) => \A N \in SUBSET EdgeIxs(g) :
          IsMatching(g, N) => Cardinality(N) <= Cardinality(M)
=============================================================================
