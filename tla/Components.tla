----------------------------- MODULE Components -----------------------------
(***************************************************************************)
(* Strongly and weakly connected components (algo/connectivity.rs).        *)
(***************************************************************************)
EXTENDS Digraphs, SequencesExt

Unseen == -1

(***************************************************************************)
(* tarjan_scc.  index is the order of discovery, low the lowlink; a frame  *)
(* keeps the successors still to be looked at.                             *)
(***************************************************************************)
Discover(g, run, n) ==
  [run EXCEPT !.index[n] = run.counter, !.low[n] = run.counter,
              !.counter  = @ + 1,
              !.scc      = Append(@, n),
              !.stack    = Append(@, [node |-> n, rest |-> NeighborsFrom(g, n)])]

Lower(run, n, to) == [run EXCEPT !.low[n] = IF to < @ THEN to ELSE @]

\* Mutant: a successor whose component is complete lowers the lowlink too.
FollowAnyway(g, run) ==
  LET n    == Last(run.stack).node
      succ == Head(Last(run.stack).rest)
      rest == [run EXCEPT !.stack[Len(run.stack)].rest = Tail(@)]
  IN IF run.index[succ] = Unseen THEN Discover(g, rest, succ)
     ELSE Lower(rest, n, run.index[succ])

Follow(g, run) ==
  LET n    == Last(run.stack).node
      succ == Head(Last(run.stack).rest)
      rest == [run EXCEPT !.stack[Len(run.stack)].rest = Tail(@)]
  IN CASE run.index[succ] = Unseen      -> Discover(g, rest, succ)
       [] succ \in ToSet(run.scc)       -> Lower(rest, n, run.index[succ])
       [] run.index[succ] # Unseen /\ succ \notin ToSet(run.scc) -> rest

\* A frame is done: its lowlink goes to its parent, and a root takes its
\* component off the stack.
Leave(run) ==
  LET n      == Last(run.stack).node
      passed == IF Len(run.stack) = 1 THEN run
                ELSE Lower(run, run.stack[Len(run.stack) - 1].node, run.low[n])
      popped == [passed EXCEPT !.stack = Front(@)]
      at     == CHOOSE i \in DOMAIN run.scc : run.scc[i] = n
  IN IF run.low[n] # run.index[n] THEN popped
     ELSE [popped EXCEPT !.scc = SubSeq(@, 1, at - 1),
             !.yields = Append(@, Reverse(SubSeq(run.scc, at, Len(run.scc))))]

RECURSIVE TarjanLoop(_, _)
TarjanLoop(g, run) ==
  LET fresh == {n \in Nodes(g) : run.index[n] = Unseen}
  IN IF run.stack # <<>> THEN
       TarjanLoop(g, IF Last(run.stack).rest = <<>> THEN Leave(run) ELSE Follow(g, run))
     ELSE IF fresh # {} THEN
       TarjanLoop(g, Discover(g, run, CHOOSE n \in fresh : \A m \in fresh : n <= m))
     ELSE run

TarjanScc(g) ==
  TarjanLoop(g, [counter |-> 0, scc |-> <<>>, stack |-> <<>>, yields |-> <<>>,
                 index |-> [n \in Nodes(g) |-> Unseen],
                 low   |-> [n \in Nodes(g) |-> Unseen]]).yields

(***************************************************************************)
(* kosaraju_scc.  Phase 1 marks a node visited when it is pushed, not when *)
(* its turn comes.                                                         *)
(***************************************************************************)
RECURSIVE PushUnvisited(_, _)
PushUnvisited(run, succs) ==
  IF succs = <<>> THEN run
  ELSE PushUnvisited(
         IF Head(succs) \in run.visited THEN run
         ELSE [run EXCEPT !.visited = @ \cup {Head(succs)},
                          !.stack = Append(@, [node |-> Head(succs), expanded |-> FALSE])],
         Tail(succs))

RECURSIVE FinishLoop(_, _)
FinishLoop(g, run) ==
  LET fresh == Nodes(g) \ run.visited
      n     == Last(run.stack).node
  IN IF run.stack # <<>> THEN
       FinishLoop(g, IF Last(run.stack).expanded
                       THEN [run EXCEPT !.order = Append(@, n), !.stack = Front(@)]
                       ELSE PushUnvisited([run EXCEPT !.stack[Len(run.stack)].expanded = TRUE],
                                          Reverse(NeighborsFrom(g, n))))
     ELSE IF fresh # {} THEN
       FinishLoop(g, PushUnvisited(run, <<CHOOSE m \in fresh : \A k \in fresh : m <= k>>))
     ELSE run

FinishOrder(g) ==
  FinishLoop(g, [visited |-> {}, stack |-> <<>>, order |-> <<>>]).order

\* Phase 2: what leads to n and has not been assigned yet.
Preceding(g, n, assigned) ==
  Closure({p \in {<<q[2], q[1]>> : q \in Arcs(g)} : p[2] \notin assigned}, {n})

\* Components are taken in that order, each from its first node left.
Assign(g, order) ==
  LET Take[i \in 0..Len(order)] ==
        IF i = 0 THEN [assigned |-> {}, yields |-> <<>>]
        ELSE LET done == Take[i - 1]
                 scc  == Preceding(g, order[i], done.assigned)
             IN IF order[i] \in done.assigned THEN done
                ELSE [assigned |-> done.assigned \cup scc,
                      yields   |-> Append(done.yields, scc)]
  IN Take[Len(order)].yields

KosarajuScc(g) == Assign(g, Reverse(FinishOrder(g)))

(***************************************************************************)
(* connected_components, has_path_connecting and condensation.             *)
(***************************************************************************)
ConnectedComponents(g) ==
  LET Count[left \in SUBSET Nodes(g)] ==
        IF left = {} THEN 0
        ELSE LET n == CHOOSE n \in left : \A m \in left : n <= m
                 around == {<<m, k>> \in Nodes(g) \X Nodes(g) : k \in ToSet(NeighborsOf(g, m))}
             IN 1 + Count[left \ Closure(around, {n})]
  IN Count[Nodes(g)]

RECURSIVE Breadth(_, _, _)
Breadth(g, queue, visited) ==
  IF queue = <<>> THEN visited
  ELSE LET found == ToSet(NeighborsFrom(g, Head(queue))) \ visited
       IN Breadth(g, Tail(queue) \o SetToSeq(found), visited \cup found)

HasPathConnecting(g, source, target) ==
  source = target \/ target \in Breadth(g, <<source>>, {source})

\* The first edge between two components stands for all of them.
Condensation(g, makeAcyclic) ==
  LET sccs  == TarjanScc(g)
      SccOf(n) == CHOOSE i \in DOMAIN sccs : n \in ToSet(sccs[i])
      Pair(e)  == <<SccOf(Tail_(g, e)), SccOf(Head_(g, e))>>
      kept  == SelectSeq(EdgeSeq(g), LAMBDA e :
                 /\ ~(makeAcyclic /\ Pair(e)[1] = Pair(e)[2])
                 /\ \A f \in 1..(e - 1) : Pair(f) # Pair(e))
  IN [nodes |-> sccs,
      graph |-> [size  |-> Len(sccs),
                 edges |-> [i \in DOMAIN kept |->
                   [tail |-> Pair(kept[i])[1], head |-> Pair(kept[i])[2], weight |-> 0]]]]
-----------------------------------------------------------------------------
(***************************************************************************)
(* Tarjan yields every strong component once, and none before those that   *)
(* it leads to; the condensation has its edges, once, and no others.       *)
(***************************************************************************)
TarjanExact(g) ==
  LET sccs == TarjanScc(g)
      SccOf(n) == CHOOSE i \in DOMAIN sccs : n \in ToSet(sccs[i])
      strong == StrongComponents(g)
      crossing == {<<SccOf(a[1]), SccOf(a[2])>> : a \in Arcs(g)}
  IN /\ {ToSet(sccs[i]) : i \in DOMAIN sccs} = strong
     /\ \A i \in DOMAIN sccs : IsInjective(sccs[i])
     /\ Len(sccs) = Cardinality(strong)
     /\ \A p \in crossing : p[1] >= p[2]
     /\ \A acyclic \in BOOLEAN :
          LET dag == Condensation(g, acyclic).graph
          IN /\ Arcs(dag) = {p \in crossing : acyclic => p[1] # p[2]}
             /\ Len(dag.edges) = Cardinality(Arcs(dag))
             /\ acyclic => Acyclic(dag)

(***************************************************************************)
(* What is true of kosaraju_scc: it partitions the nodes and never splits  *)
(* a strong component, though it may join several.                         *)
(***************************************************************************)
KosarajuNeverSplits(g) ==
  LET sccs == KosarajuScc(g)
  IN /\ UNION ToSet(sccs) = Nodes(g)
     /\ \A i, j \in DOMAIN sccs : i # j => sccs[i] \cap sccs[j] = {}
     /\ \A scc \in StrongComponents(g) : \E i \in DOMAIN sccs : scc \subseteq sccs[i]

\* What its documentation says: it yields the strongly connected components.
KosarajuExact(g) == ToSet(KosarajuScc(g)) = StrongComponents(g)

\* The two questions about reachability that the module answers directly.
PathsExact(g) ==
  LET reach == ReachMap(g)
  IN /\ ConnectedComponents(g) = Cardinality(WeakComponents(g))
     /\ \A s, t \in Nodes(g) : HasPathConnecting(g, s, t) <=> t \in reach[s]
=============================================================================
