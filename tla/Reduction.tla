----------------------------- MODULE Reduction ------------------------------
(***************************************************************************)
(* Transitive reduction and closure of acyclic graphs (algo/tred.rs).  The *)
(* order in which their searches take nodes off the stack decides nothing. *)
(***************************************************************************)
EXTENDS Digraphs, SequencesExt

RECURSIVE Flood(_, _, _)
Flood(g, todo, visited) ==
  IF todo = {} THEN visited
  ELSE LET n     == CHOOSE n \in todo : TRUE
           fresh == ToSet(NeighborsFrom(g, n)) \ visited
       IN Flood(g, (todo \ {n}) \cup fresh, visited \cup fresh)

\* Mutant: only the successors of source are looked at.
CanReachDirectly(g, source, target) ==
  source = target \/ target \in ToSet(NeighborsFrom(g, source))

CanReach(g, source, target) ==
  source = target \/ target \in Flood(g, {source}, {source})

\* An edge is kept unless another edge of its tail leads to its head.
DagTransitiveReduction(g) ==
  SelectSeq(EdgeSeq(g), LAMBDA e :
    \A f \in ToSet(EdgeIndicesFrom(g, Tail_(g, e))) \ {e} :
      ~CanReach(g, Head_(g, f), Head_(g, e)))

DagTransitiveClosure(g) ==
  UNION {{<<s, t>> : t \in Flood(g, {s}, {s}) \ {s}} : s \in Nodes(g)}

-----------------------------------------------------------------------------
NoParallelEdges(g) == Cardinality(Arcs(g)) = Len(g.edges)

(***************************************************************************)
(* On an acyclic graph the closure has every pair joined by a path.  The   *)
(* reduction keeps all paths and no edge it could do without, provided     *)
(* that no edges are parallel: of parallel edges, each is dropped for the  *)
(* sake of the other.                                                      *)
(***************************************************************************)
ReductionExact(g) ==
  LET kept == ToSet(DagTransitiveReduction(g))
      With(es) == ReachMap(Without(g, EdgeIxs(g) \ es))
      reach == ReachMap(g)
  IN Acyclic(g) =>
       /\ DagTransitiveClosure(g) =
            {p \in Nodes(g) \X Nodes(g) : p[1] # p[2] /\ p[2] \in reach[p[1]]}
       /\ NoParallelEdges(g) =>
            /\ With(kept) = reach
            /\ \A e \in kept : With(kept \ {e}) # reach
=============================================================================
