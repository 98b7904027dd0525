---------------------------- MODULE FeedbackArcs ----------------------------
(***************************************************************************)
(* The greedy feedback arc set of Eades, Lin and Smyth                     *)
(* (algo/feedback_arc_set.rs).  Nodes are taken out of a HashSet, in any   *)
(* order; among nodes that are sinks (or sources) at the same time there   *)
(* are no edges, so that their order decides nothing, but any node with    *)
(* the largest surplus of outgoing edges may come next.                    *)
(***************************************************************************)
EXTENDS Digraphs, SequencesExt, FiniteSetsExt

Proper(g) == {e \in EdgeIxs(g) : Tail_(g, e) # Head_(g, e)}

\* The counters of nodes still in remaining, decreased by the edges to or
\* from the nodes that leave it.
CountDown(g, run, leaving, countIn, countOut) ==
  LET remaining == run.remaining \ leaving
      Lost(n, Near(_), Far(_)) ==
        Cardinality({e \in Proper(g) : Near(e) = n /\ Far(e) \in leaving})
      T(e) == Tail_(g, e)
      H(e) == Head_(g, e)
  IN [run EXCEPT
        !.remaining = remaining,
        !.in  = [n \in Nodes(g) |-> IF countIn /\ n \in remaining
                                      THEN @[n] - Lost(n, H, T) ELSE @[n]],
        !.out = [n \in Nodes(g) |-> IF countOut /\ n \in remaining
                                      THEN @[n] - Lost(n, T, H) ELSE @[n]]]

SinksOut(g, run) ==
  LET sinks == {n \in run.remaining : run.out[n] = 0}
  IN [CountDown(g, run, sinks, FALSE, TRUE) EXCEPT !.right = SetToSeq(sinks) \o @]

SourcesOut(g, run) ==
  LET sources == {n \in run.remaining : run.in[n] = 0}
  IN [CountDown(g, run, sources, TRUE, FALSE) EXCEPT !.left = @ \o SetToSeq(sources)]

RECURSIVE Strip(_, _)
Strip(g, run) ==
  LET next == SourcesOut(g, SinksOut(g, run))
  IN IF next = run THEN run ELSE Strip(g, next)

\* Mutant: the node with the smallest surplus.
BestSmallest(run) ==
  {n \in run.remaining : \A m \in run.remaining :
     run.out[n] - run.in[n] <= run.out[m] - run.in[m]}

Best(run) ==
  {n \in run.remaining : \A m \in run.remaining :
     run.out[n] - run.in[n] >= run.out[m] - run.in[m]}

RECURSIVE Orderings(_, _)
Orderings(g, run) ==
  LET bare == Strip(g, run)
  IN IF bare.remaining = {} THEN {bare.left \o bare.right}
     ELSE UNION {Orderings(g, [CountDown(g, bare, {n}, TRUE, TRUE) EXCEPT
                                 !.left = Append(@, n)]) : n \in Best(bare)}

\* The edges that go back in the ordering, and the self-loops.
Backward(g, order) ==
  LET Position(n) == CHOOSE i \in DOMAIN order : order[i] = n
  IN {e \in EdgeIxs(g) : Position(Tail_(g, e)) >= Position(Head_(g, e))}

GreedyFeedbackArcSets(g) ==
  {Backward(g, order) : order \in
     Orderings(g, [remaining |-> Nodes(g), left |-> <<>>, right |-> <<>>,
        in  |-> [n \in Nodes(g) |-> Cardinality({e \in Proper(g) : Head_(g, e) = n})],
        out |-> [n \in Nodes(g) |-> Cardinality({e \in Proper(g) : Tail_(g, e) = n})]])}

-----------------------------------------------------------------------------
(***************************************************************************)
(* Whichever ordering is found, without the feedback arcs no cycle is      *)
(* left; an acyclic graph has none, and of the edges that are no           *)
(* self-loops at most half are taken.                                      *)
(***************************************************************************)
FeedbackArcsBounded(g) ==
  \A arcs \in GreedyFeedbackArcSets(g) :
    /\ Acyclic(Without(g, arcs))
    /\ Acyclic(g) => arcs = {}
    /\ 2 * Cardinality(arcs \cap Proper(g)) <= Cardinality(Proper(g))
=============================================================================
