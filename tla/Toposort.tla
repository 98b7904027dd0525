------------------------------ MODULE Toposort ------------------------------
(***************************************************************************)
(* Topological sorts (algo/toposort.rs).                                   *)
(***************************************************************************)
EXTENDS Digraphs, SequencesExt

NoNode == 0   \* no CycleError

(***************************************************************************)
(* reverse_toposort: a depth-first search whose frames keep the successors *)
(* still to be looked at.  A node is unvisited, in progress while it has a *)
(* frame, then finished; an edge to a node in progress closes a cycle.     *)
(***************************************************************************)
Enter(g, run, n) ==
  [run EXCEPT !.state[n] = "in progress",
              !.stack = Append(@, [node |-> n, rest |-> NeighborsFrom(g, n)])]

Finish(run) ==
  LET n == Last(run.stack).node
  IN [run EXCEPT !.state[n] = "finished", !.order = Append(@, n), !.stack = Front(@)]

\* Mutant: an edge to a node that is already finished counts as a cycle.
LookAtFinishedToo(g, run) ==
  LET succ == Head(Last(run.stack).rest)
      rest == [run EXCEPT !.stack[Len(run.stack)].rest = Tail(@)]
  IN IF run.state[succ] = "unvisited" THEN Enter(g, rest, succ)
     ELSE [rest EXCEPT !.cycle = succ]

LookAt(g, run) ==
  LET succ == Head(Last(run.stack).rest)
      rest == [run EXCEPT !.stack[Len(run.stack)].rest = Tail(@)]
  IN CASE run.state[succ] = "unvisited"   -> Enter(g, rest, succ)
       [] run.state[succ] = "in progress" -> [rest EXCEPT !.cycle = succ]
       [] run.state[succ] = "finished"    -> rest

RECURSIVE Search(_, _)
Search(g, run) ==
  LET fresh == {n \in Nodes(g) : run.state[n] = "unvisited"}
  IN IF run.cycle # NoNode THEN run
     ELSE IF run.stack # <<>> THEN
       Search(g, IF Last(run.stack).rest = <<>> THEN Finish(run) ELSE LookAt(g, run))
     ELSE IF fresh # {} THEN
       Search(g, Enter(g, run, CHOOSE n \in fresh : \A m \in fresh : n <= m))
     ELSE run

ReverseToposort(g) ==
  Search(g, [state |-> [n \in Nodes(g) |-> "unvisited"],
             stack |-> <<>>, order |-> <<>>, cycle |-> NoNode])

SortOrder(g) == Reverse(ReverseToposort(g).order)

IsCyclicDirected(g) == ReverseToposort(g).cycle # NoNode

(***************************************************************************)
(* toposort_kahn.  The nodes without predecessors are queued in the order  *)
(* of a HashMap, any; on failure the error names any node that still       *)
(* counts a predecessor.                                                   *)
(***************************************************************************)
RECURSIVE Discount(_, _)
Discount(run, succs) ==
  IF succs = <<>> THEN run
  ELSE LET succ  == Head(succs)
           left  == run.degree[succ] - 1
       IN Discount([run EXCEPT !.degree[succ] = left,
                               !.queue = IF left = 0 THEN Append(@, succ) ELSE @],
                   Tail(succs))

RECURSIVE Drain(_, _)
Drain(g, run) ==
  IF run.queue = <<>> THEN run
  ELSE LET n == Head(run.queue)
       IN Drain(g, Discount([run EXCEPT !.order = Append(@, n), !.queue = Tail(@)],
                            NeighborsFrom(g, n)))

InDegrees(g) == [n \in Nodes(g) |-> Len(EdgeIndicesTo(g, n))]

KahnRuns(g) ==
  {Drain(g, [degree |-> InDegrees(g), queue |-> queue, order |-> <<>>]) :
     queue \in SetToSeqs({n \in Nodes(g) : InDegrees(g)[n] = 0})}

KahnErrors(g, run) ==
  IF Len(run.order) = g.size THEN {} ELSE {n \in Nodes(g) : run.degree[n] > 0}

-----------------------------------------------------------------------------
IsTopological(g, order) ==
  /\ Len(order) = g.size /\ ToSet(order) = Nodes(g)
  /\ \A i, j \in DOMAIN order : <<order[i], order[j]>> \in Arcs(g) => i < j

(***************************************************************************)
(* Both sorts succeed exactly on acyclic graphs, and then respect every    *)
(* edge.  The search blames a node of a cycle; Kahn's sort only one that   *)
(* a cycle leads to.                                                       *)
(***************************************************************************)
SortsExact(g) ==
  LET acyclic == Acyclic(g)
      search  == ReverseToposort(g)
  IN /\ IsCyclicDirected(g) = ~acyclic
     /\ IF acyclic THEN IsTopological(g, SortOrder(g)) ELSE OnCycle(g, search.cycle)
     /\ \A run \in KahnRuns(g) :
          IF acyclic THEN IsTopological(g, run.order) /\ KahnErrors(g, run) = {}
          ELSE /\ KahnErrors(g, run) # {}
               /\ KahnErrors(g, run) \subseteq
                    Reachable(g, {n \in Nodes(g) : OnCycle(g, n)})
=============================================================================
