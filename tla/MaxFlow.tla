------------------------------ MODULE MaxFlow ------------------------------
(***************************************************************************)
(* Edmonds-Karp (algo/max_flow.rs).  EdmondsKarpFlows is an iterator; the  *)
(* caller, finish, advances it until it is done.  One action per node that *)
(* the breadth-first search takes from its queue, one for the augmentation *)
(* when that node is the sink, and one for the search that finds no path.  *)
(*                                                                         *)
(* What the code knows of flow is a residual capacity per EDGE and a       *)
(* cancellable amount per PAIR of nodes, so parallel edges share the       *)
(* latter.                                                                 *)
(***************************************************************************)
EXTENDS Integers, Sequences, FiniteSets, SequencesExt, FiniteSetsExt

CONSTANTS
  Node,
  Source, Sink,
  Networks    \* sequences of edges [tail, head, capacity], in the order in
              \* which the graph lists the edges of a node

\* With Source = Sink the path is empty and its bottleneck an unwrapped None.
ASSUME NetworkAssumption ==
  /\ Source \in Node /\ Sink \in Node /\ Source # Sink
  /\ \A net \in Networks :
       net \in Seq([tail : Node, head : Node, capacity : Nat])

VARIABLES
  network,    \* the graph, borrowed for the iterator's lifetime
  residual,   \* edge -> capacity left
  reverse,    \* <<head, tail>> -> flow from tail to head that can be cancelled
  total,      \* total_flow
  done,
  queue,      \* the nodes that the search has found and not yet expanded
  visited,    \* node other than Source -> the step by which it was found
  shortest    \* history: the length of the last augmenting path

vars == <<network, residual, reverse, total, done, queue, visited, shortest>>

EdgeIndices == DOMAIN network

\* The steps of a path: along an edge, or against the flow of a pair of nodes.
Forward(e)        == [from |-> network[e].tail, to |-> network[e].head, edge |-> e]
Backward(from, to) == [from |-> from, to |-> to, edge |-> 0]

TypeOK ==
  /\ residual \in [EdgeIndices -> Nat]
  /\ reverse \in [Node \X Node -> Nat]
  /\ total \in Nat /\ shortest \in Nat /\ done \in BOOLEAN
  /\ queue \in Seq(Node)
  /\ DOMAIN visited \subseteq Node \ {Source}
  /\ \A n \in DOMAIN visited : visited[n].to = n

-----------------------------------------------------------------------------
(* The search                                                              *)

\* Mutant: found nodes go to the front of the queue.
FindDepthFirst(search, step) ==
  IF step.to \in {Source} \cup DOMAIN search.visited THEN search
  ELSE [queue   |-> <<step.to>> \o search.queue,
        visited |-> [n \in DOMAIN search.visited \cup {step.to} |->
                       IF n = step.to THEN step ELSE search.visited[n]]]

\* A search is a queue with the steps taken; a node is queued when first found.
Find(search, step) ==
  IF step.to \in {Source} \cup DOMAIN search.visited THEN search
  ELSE [queue   |-> Append(search.queue, step.to),
        visited |-> [n \in DOMAIN search.visited \cup {step.to} |->
                       IF n = step.to THEN step ELSE search.visited[n]]]

FindForward(search, e) ==
  IF residual[e] > 0 THEN Find(search, Forward(e)) ELSE search

\* Mutant: the pair is looked up the wrong way round.
FindBackwardSwapped(search, e) ==
  LET tail == network[e].tail
      head == network[e].head
  IN IF tail # head /\ reverse[<<tail, head>>] > 0
     THEN Find(search, Backward(head, tail)) ELSE search

FindBackward(search, e) ==
  LET tail == network[e].tail
      head == network[e].head
  IN IF tail # head /\ reverse[<<head, tail>>] > 0
     THEN Find(search, Backward(head, tail)) ELSE search

\* The edges in the order in which the graph lists them.
EdgeSeq == [e \in EdgeIndices |-> e]

\* First along the edges that leave the node, then back along those that enter.
Expand(search, n) ==
  LET Along(s, e)   == IF network[e].tail = n THEN FindForward(s, e) ELSE s
      Against(s, e) == IF network[e].head = n THEN FindBackward(s, e) ELSE s
  IN FoldLeft(Against, FoldLeft(Along, search, EdgeSeq), EdgeSeq)

\* The steps from Source to a node that was found.
Path ==
  LET to[n \in {Source} \cup DOMAIN visited] ==
        IF n = Source THEN <<>> ELSE Append(to[visited[n].from], visited[n])
  IN to[Sink]

-----------------------------------------------------------------------------
(* The augmentation.  A path meets a node once, so that no two of its      *)
(* steps touch the same entry and their order is of no account.            *)

StepCapacity(step) ==
  IF step.edge = 0 THEN reverse[<<step.from, step.to>>] ELSE residual[step.edge]

\* Mutant: the last step decides.
BottleneckLast(path) == StepCapacity(path[Len(path)])

Bottleneck(path) == Min({StepCapacity(path[i]) : i \in DOMAIN path})

\* Mutant: any edge out of the tail is taken.
FirstEdgeOut(tail, head) == Min({e \in EdgeIndices : network[e].tail = tail})

\* Cancelled flow is given back to the first edge between the two nodes.
FirstEdge(tail, head) ==
  Min({e \in EdgeIndices : network[e].tail = tail /\ network[e].head = head})

\* Mutant: no break after the first edge.
GainsAll(step, e) ==
  step.edge = 0 /\ network[e].tail = step.to /\ network[e].head = step.from

Gains(step, e) == step.edge = 0 /\ e = FirstEdge(step.to, step.from)

PushResidual(path, amount) ==
  [e \in EdgeIndices |->
     CASE \E i \in DOMAIN path : path[i].edge = e   -> residual[e] - amount
       [] \E i \in DOMAIN path : Gains(path[i], e)  -> residual[e] + amount
       [] OTHER                                     -> residual[e]]

PushReverse(path, amount) ==
  [pair \in Node \X Node |->
     CASE \E i \in DOMAIN path :
            path[i].edge # 0 /\ pair = <<path[i].to, path[i].from>>
            -> reverse[pair] + amount
       [] \E i \in DOMAIN path :
            path[i].edge = 0 /\ pair = <<path[i].from, path[i].to>>
            -> reverse[pair] - amount
       [] OTHER -> reverse[pair]]

-----------------------------------------------------------------------------
\* edmonds_karp_with_flows_unchecked
Init ==
  /\ network \in Networks
  /\ residual = [e \in EdgeIndices |-> network[e].capacity]
  /\ reverse = [pair \in Node \X Node |-> 0]
  /\ total = 0
  /\ done = FALSE
  /\ queue = <<Source>>
  /\ visited = <<>>
  /\ shortest = 0

\* Mutant: the queue is peeked at.
VisitPeek ==
  /\ ~done
  /\ queue # <<>>
  /\ Head(queue) # Sink
  /\ LET found == Expand([queue |-> queue, visited |-> visited], Head(queue))
     IN queue' = found.queue /\ visited' = found.visited
  /\ UNCHANGED <<network, residual, reverse, total, done, shortest>>

\* The search takes a node that is not the sink.
Visit ==
  /\ ~done
  /\ queue # <<>>
  /\ Head(queue) # Sink
  /\ LET found == Expand([queue |-> Tail(queue), visited |-> visited], Head(queue))
     IN queue' = found.queue /\ visited' = found.visited
  /\ UNCHANGED <<network, residual, reverse, total, done, shortest>>

\* It takes the sink; the next call of next starts another search.
Augment ==
  /\ ~done
  /\ queue # <<>>
  /\ Head(queue) = Sink
  /\ LET path   == Path
         amount == Bottleneck(path)
     IN /\ residual' = PushResidual(path, amount)
        /\ reverse' = PushReverse(path, amount)
        /\ total' = total + amount
        /\ done' = (amount = 0)
        /\ shortest' = Len(path)
  /\ queue' = <<Source>>
  /\ visited' = <<>>
  /\ UNCHANGED network

\* The search ends without having found the sink.
NoPath ==
  /\ ~done
  /\ queue = <<>>
  /\ done' = TRUE
  /\ UNCHANGED <<network, residual, reverse, total, queue, visited, shortest>>

\* Every later call returns None at once.
Exhausted == done /\ UNCHANGED vars

Next == Visit \/ Augment \/ NoPath \/ Exhausted

\* finish: while self.next().is_some() {}
Spec == Init /\ [][Next]_vars /\ WF_vars(Next)

-----------------------------------------------------------------------------
(* Properties                                                              *)

\* What finish returns for an edge: orig - residual.
EdgeFlow(e) == network[e].capacity - residual[e]

\* The sum of amount over those of the edges 1..last that are in edges.
SumOf(last, edges, amount) ==
  LET upTo[e \in 0..last] ==
        IF e = 0 THEN 0
        ELSE upTo[e - 1] + (IF e \in edges THEN amount[e] ELSE 0)
  IN upTo[last]

FlowOf(edges) ==
  SumOf(Len(network), edges, [e \in EdgeIndices |-> EdgeFlow(e)])
CapacityOf(edges) ==
  SumOf(Len(network), edges, [e \in EdgeIndices |-> network[e].capacity])

Between(U, V) == {e \in EdgeIndices : network[e].tail \in U /\ network[e].head \in V}

\* The amount that can be cancelled between two nodes is the flow that the
\* edges between them carry together, although it is kept per pair while the
\* residuals are kept per edge; it never exceeds what the edges can carry.
CancellableIsPairFlow ==
  \A u, v \in Node : u # v =>
    /\ reverse[<<v, u>>] = FlowOf(Between({u}, {v}))
    /\ reverse[<<v, u>>] <= CapacityOf(Between({u}, {v}))

\* The flow that leaves a node less the flow that enters it is zero, except at
\* the ends, where it is the total: cancelling loses and creates nothing.
Conserved ==
  \A n \in Node :
    FlowOf(Between({n}, Node)) - FlowOf(Between(Node, {n}))
      = CASE n = Source -> total
          [] n = Sink   -> -total
          [] OTHER      -> 0

\* max_flow.rs:3, "Computes the maximum flow": the result is the capacity of
\* a minimum cut, by whichever paths the listing order leads the searches.
Maximum ==
  done => LET cuts == {S \in SUBSET Node : Source \in S /\ Sink \notin S}
          IN total = Min({CapacityOf(Between(S, Node \ S)) : S \in cuts})

\* No augmenting path is shorter than the one before: on this rests the bound
\* O(VE^2) that the documentation gives (max_flow.rs:7).
PathsNeverShrink == [][shortest' >= shortest]_vars

\* The iterator comes to its end.
Terminates == <>done

\* max_flow.rs:109-110: "`flow_map` maps each edge index to the amount of flow
\* passing through it".  Not so between parallel edges (see the findings).
FlowWithinCapacity ==
  done => \A e \in EdgeIndices : EdgeFlow(e) \in 0..network[e].capacity

=============================================================================
