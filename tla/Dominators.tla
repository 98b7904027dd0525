----------------------------- MODULE Dominators -----------------------------
(***************************************************************************)
(* Immediate dominators (algo/dominators.rs), by Cooper, Harvey and        *)
(* Kennedy.  The order the nodes are numbered in is no post-order: a node  *)
(* is marked when it is pushed, so that a successor it shares with a       *)
(* sibling may be numbered before one of the two.                          *)
(***************************************************************************)
EXTENDS Digraphs, SequencesExt

Undefined == 0

RECURSIVE PushFresh(_, _)
PushFresh(run, succs) ==
  IF succs = <<>> THEN run
  ELSE LET s == Head(succs)
       IN PushFresh(IF s \in run.visited THEN run
                    ELSE [run EXCEPT !.visited = @ \cup {s},
                                     !.stack = Append(@, [node |-> s, expanded |-> FALSE])],
                    Tail(succs))

RECURSIVE Number(_, _)
Number(g, run) ==
  IF run.stack = <<>> THEN Reverse(run.rpo)
  ELSE LET n == Last(run.stack).node
       IN Number(g, IF Last(run.stack).expanded
                      THEN [run EXCEPT !.rpo = Append(@, n), !.stack = Front(@)]
                      ELSE PushFresh([run EXCEPT !.stack[Len(run.stack)].expanded = TRUE],
                                     Reverse(NeighborsFrom(g, n))))

\* The nodes reached from start, start first.
Numbering(g, start) ==
  Number(g, [visited |-> {start}, rpo |-> <<>>,
             stack |-> <<[node |-> start, expanded |-> FALSE]>>])

RECURSIVE Intersect(_, _, _)
Intersect(idom, a, b) ==
  CASE a = b -> a
    [] a > b -> Intersect(idom, idom[a], b)
    [] a < b -> Intersect(idom, a, idom[b])

\* The common dominator of the positions preds, met from the left.
Meet(idom, preds) ==
  LET Fold[i \in 1..Len(preds)] ==
        IF i = 1 THEN preds[1] ELSE Intersect(idom, Fold[i - 1], preds[i])
  IN Fold[Len(preds)]

\* One round over the positions from the second on, in order.
Round(g, rpo, idom) ==
  LET IndexOf(n) == CHOOSE i \in DOMAIN rpo : rpo[i] = n
      Upto[i \in 1..Len(rpo)] ==
        IF i = 1 THEN idom
        ELSE LET before == Upto[i - 1]
                 known  == SelectSeq(NeighborsTo(g, rpo[i]), LAMBDA p :
                             p \in ToSet(rpo) /\ before[IndexOf(p)] # Undefined)
             IN [before EXCEPT ![i] =
                   IF known = <<>> THEN Undefined
                   ELSE Meet(before, [k \in DOMAIN known |-> IndexOf(known[k])])]
  IN Upto[Len(rpo)]

RECURSIVE Fixpoint(_, _, _)
Fixpoint(g, rpo, idom) ==
  LET next == Round(g, rpo, idom)
  IN IF next = idom THEN idom ELSE Fixpoint(g, rpo, next)

\* The immediate dominator of every node reached; start is its own.
ImmediateDominators(g, start) ==
  LET rpo  == Numbering(g, start)
      idom == Fixpoint(g, rpo, [i \in DOMAIN rpo |-> IF i = 1 THEN 1 ELSE Undefined])
      IndexOf(n) == CHOOSE i \in DOMAIN rpo : rpo[i] = n
  IN [n \in {rpo[i] : i \in {j \in DOMAIN rpo : idom[j] # Undefined}} |->
        rpo[idom[IndexOf(n)]]]

-----------------------------------------------------------------------------
\* The nodes on every path from start to n.
DominatorsOf(g, start, n) ==
  {d \in Nodes(g) : \/ d = n
                    \/ d = start
                    \/ n \notin Closure({a \in Arcs(g) : a[1] # d /\ a[2] # d}, {start})}

(***************************************************************************)
(* Although the numbering is not the one the algorithm asks for, the       *)
(* fixpoint is reached and yields, for every node that start reaches, the  *)
(* strict dominator that all others dominate.                              *)
(***************************************************************************)
DominatorsExact(g) ==
  \A start \in Nodes(g) :
    LET idom == ImmediateDominators(g, start)
        dom  == [n \in Reachable(g, {start}) |-> DominatorsOf(g, start, n)]
    IN /\ DOMAIN idom = DOMAIN dom
       /\ idom[start] = start
       /\ \A n \in DOMAIN idom \ {start} :
            idom[n] # n /\ dom[n] = dom[idom[n]] \cup {n}
=============================================================================
