---------------------------- MODULE SimplePaths -----------------------------
(***************************************************************************)
(* All simple paths between two nodes (algo/simple_paths.rs): a search     *)
(* that keeps the nodes of the current path marked and, per node of the    *)
(* path, the successors still to be tried.                                 *)
(***************************************************************************)
EXTENDS Digraphs, SequencesExt

Unlimited == 99   \* usize::MAX

RECURSIVE SearchPaths(_, _, _)
SearchPaths(g, q, run) ==
  LET depth == Len(run.path)
      succ  == Head(run.rests[depth])
      tried == [run EXCEPT !.rests[depth] = Tail(@)]
  IN IF depth = 0 THEN run.yields
     ELSE SearchPaths(g, q,
       CASE run.rests[depth] = <<>> ->
              [run EXCEPT !.path = Front(@), !.rests = Front(@)]
         [] run.rests[depth] # <<>> /\ succ = q.target ->
              [tried EXCEPT !.yields = IF depth + 1 >= q.min
                                         THEN Append(@, Append(run.path, succ)) ELSE @]
         [] run.rests[depth] # <<>> /\ succ # q.target ->
              IF depth + 1 >= q.max \/ succ \in ToSet(run.path) THEN tried
              ELSE [tried EXCEPT !.path  = Append(@, succ),
                                 !.rests = Append(@, NeighborsFrom(g, succ))])

AllSimplePaths(g, from, to, minInner, maxInner) ==
  SearchPaths(g, [target |-> to, min |-> minInner + 2, max |-> maxInner + 2],
              [path |-> <<from>>, rests |-> <<NeighborsFrom(g, from)>>, yields |-> <<>>])

-----------------------------------------------------------------------------
InjectiveSeqs(S) == UNION {{f \in [1..k -> S] : IsInjective(f)} : k \in 0..Cardinality(S)}

SimplePathsBetween(g, s, t) ==
  {p \in {<<s>> \o inner \o <<t>> : inner \in InjectiveSeqs(Nodes(g) \ {s, t})} :
     \A i \in 1..(Len(p) - 1) : <<p[i], p[i + 1]>> \in Arcs(g)}

\* In how many ways parallel edges make up the path p from its i-th node on.
Ways(g, p) ==
  LET From[i \in 1..Len(p)] ==
        IF i = Len(p) THEN 1
        ELSE From[i + 1] * Cardinality({e \in EdgeIxs(g) :
               Tail_(g, e) = p[i] /\ Head_(g, e) = p[i + 1]})
  IN From[1]

(***************************************************************************)
(* Exactly the paths with an admitted number of inner nodes are yielded,   *)
(* once for each choice among parallel edges; from a node to itself, the   *)
(* cycles through it.                                                      *)
(***************************************************************************)
SimplePathsExact(g) ==
  \A s, t \in Nodes(g) :
    LET all == SimplePathsBetween(g, s, t)
    IN \A range \in {<<0, Unlimited>>, <<1, Unlimited>>, <<0, 0>>, <<0, 1>>, <<1, 1>>} :
         LET yields == AllSimplePaths(g, s, t, range[1], range[2])
             asked  == {p \in all : Len(p) - 2 \in range[1]..range[2]}
         IN /\ ToSet(yields) = asked
            /\ \A p \in asked :
                 Cardinality({i \in DOMAIN yields : yields[i] = p}) = Ways(g, p)
=============================================================================
