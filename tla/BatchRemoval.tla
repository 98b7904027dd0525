---------------------------- MODULE BatchRemoval ----------------------------
(***************************************************************************)
(* take_nodes_edges on LinkedAdjEdgeGraph: the removal of many nodes and   *)
(* edges by one call (take_nodes_edges_unchecked), next to the calls of    *)
(* LinkedAdjEdge.                                                          *)
(*                                                                         *)
(* Two shortcuts loop over the one-at-a-time removals, highest index       *)
(* first.  Otherwise the call works in phases, and the variable job holds  *)
(* what it has computed so far:                                            *)
(*   unlink   splice the dying edges out of the chains of surviving nodes, *)
(*            then take them out, noting where surviving edges move to     *)
(*   patch    redirect the pointers to edges that moved, then take the     *)
(*            nodes out, noting where surviving nodes move to              *)
(*   rewrite  correct the endpoints of the edges of nodes that moved       *)
(* Within a phase the chains are visited in the iteration order of a       *)
(* HashMap, that is in any order: each visit is a step.                    *)
(***************************************************************************)
EXTENDS LinkedAdjEdge

CONSTANTS ScalarNodeMaxAvgDegree,  \* gate of the second shortcut, 16 in the code
          MaxAsked                 \* bound: nodes and edges named in one call

ASSUME BatchAssumption == ScalarNodeMaxAvgDegree \in Nat /\ MaxAsked \in Nat

(***************************************************************************)
(* Indices are ordered (Ord): those of maps, which are the keys, are       *)
(* numbers.                                                                *)
(***************************************************************************)
ASSUME KeysAssumption == /\ DenseNodes \/ NodeVals \subseteq Int
                         /\ DenseEdges \/ EdgeVals \subseteq Int

VARIABLE job

bvars == <<graph, answer, job>>

Idle == [pc |-> "idle"]
Pending == Answer("pending", <<>>, <<>>)

BInit == Init /\ job = Idle

-----------------------------------------------------------------------------
(***************************************************************************)
(* The lists a caller passes: assert_valid_batch lets through indices that *)
(* are in the graph and do not repeat.                                     *)
(***************************************************************************)
Batches(S) == UNION {SetToSeqs(T) : T \in {U \in SUBSET S : Cardinality(U) <= MaxAsked}}

Descending(S) ==
  CHOOSE s \in SetToSeqs(S) : \A i, j \in DOMAIN s : i < j => s[i] > s[j]

(***************************************************************************)
(* insert of a HashMap: f with x mapped to y.                              *)
(***************************************************************************)
With(f, x, y) == [i \in DOMAIN f \cup {x} |-> IF i = x THEN y ELSE f[i]]

(***************************************************************************)
(* Mutant: the payloads come back in the order they were taken.            *)
(***************************************************************************)
OutBufferAsTaken(asked, taken) ==
  LET order == Descending(ToSet(asked))
  IN [k \in DOMAIN asked |-> taken[order[k]]]

(***************************************************************************)
(* An out buffer has a slot per index asked for, filled with the payload   *)
(* taken at that index; a slot not filled is uninitialised memory.         *)
(***************************************************************************)
OutBuffer(asked, taken) ==
  [k \in DOMAIN asked |-> IF asked[k] \in DOMAIN taken THEN taken[asked[k]]
                                                       ELSE "uninitialised"]

(***************************************************************************)
(* The two shortcuts: one-at-a-time removals, highest index first.         *)
(***************************************************************************)
TakeEdgesScalar(g, es) ==
  LET Turn(s, e) == [g     |-> TakeEdge(s.g, e),
                     taken |-> With(s.taken, e, s.g.edges[e].val)]
  IN FoldLeft(Turn, [g |-> g, taken |-> <<>>], Descending(ToSet(es)))

TakeNodesScalar(g, ns) ==
  LET Turn(s, n) == [g     |-> TakeNode(s.g, n),
                     taken |-> With(s.taken, n, s.g.nodes[n].val)]
  IN FoldLeft(Turn, [g |-> g, taken |-> <<>>], Descending(ToSet(ns)))

ScalarNodesPay(g) ==
  /\ DenseNodes /\ DenseEdges
  /\ Size(g.edges) * 2 <= ScalarNodeMaxAvgDegree * Size(g.nodes)

(***************************************************************************)
(* Mutant: the edges into a dying node are forgotten.                      *)
(***************************************************************************)
DyingOutgoing(g, ns, es) ==
  ToSet(es) \cup UNION {ToSet(Chain(g, n, OUTGOING)) : n \in ToSet(ns)}

-----------------------------------------------------------------------------
(***************************************************************************)
(* Phase 1: the edges asked for and those on a chain of a dying node.      *)
(***************************************************************************)
Dying(g, ns, es) ==
  ToSet(es) \cup UNION {ToSet(Chain(g, n, dir)) : n \in ToSet(ns), dir \in Dirs}

(***************************************************************************)
(* Mutant: an edge counts on both chains of each of its ends.              *)
(***************************************************************************)
ChainCountsBothWays(g, es, skip) ==
  LET on(n) == {e \in es : \E d \in Dirs : g.edges[e].node[d] = n}
  IN [c \in {d \in (DOMAIN g.nodes \ skip) \X Dirs : on(d[1]) # {}} |->
        Cardinality(on(c[1]))]

(***************************************************************************)
(* How many of the edges es are on each chain; nodes in skip are left out. *)
(***************************************************************************)
ChainCounts(g, es, skip) ==
  LET on(n, dir) == {e \in DOMAIN g.edges : e \in es /\ g.edges[e].node[dir] = n}
  IN [c \in {d \in (DOMAIN g.nodes \ skip) \X Dirs : on(d[1], d[2]) # {}} |->
        Cardinality(on(c[1], c[2]))]

(***************************************************************************)
(* A sweep goes along chain dir of n until it has met left links it looks  *)
(* for.  pred tells whose pointer it reads next: an edge's, or at first    *)
(* the node's.                                                             *)
(***************************************************************************)
SlotAfter(g, n, dir, pred) ==
  IF pred = Sentinel THEN g.nodes[n].next[dir] ELSE g.edges[pred].next[dir]

SetSlotAfter(g, n, dir, pred, new) ==
  IF pred = Sentinel THEN [g EXCEPT !.nodes[n].next[dir] = new]
                     ELSE [g EXCEPT !.edges[pred].next[dir] = new]

Sweep(Turn(_, _), g, expected) ==
  FoldLeft(Turn, [g |-> g, pred |-> Sentinel, left |-> expected],
           [k \in 1..Size(g.edges) |-> k])

(***************************************************************************)
(* unlink_dying_edges.                                                     *)
(***************************************************************************)
UnlinkDying(g, n, dir, dying, expected) ==
  LET Turn(s, k) ==
        LET cur == SlotAfter(s.g, n, dir, s.pred) IN
        IF s.left = 0 \/ cur \notin DOMAIN s.g.edges THEN s
        ELSE IF cur \in dying
          THEN [s EXCEPT !.g = SetSlotAfter(@, n, dir, s.pred, @.edges[cur].next[dir]),
                         !.left = @ - 1]
          ELSE [s EXCEPT !.pred = cur]
  IN Sweep(Turn, g, expected)

(***************************************************************************)
(* patch_moved_edges: a stale pointer is replaced and then followed.       *)
(***************************************************************************)
PatchMoved(g, n, dir, moved, expected) ==
  LET Turn(s, k) ==
        LET cur == SlotAfter(s.g, n, dir, s.pred) IN
        IF s.left = 0 \/ cur \notin DOMAIN s.g.edges \cup DOMAIN moved THEN s
        ELSE IF cur \in DOMAIN moved
          THEN [g    |-> SetSlotAfter(s.g, n, dir, s.pred, moved[cur]),
                pred |-> moved[cur],
                left |-> s.left - 1]
          ELSE [s EXCEPT !.pred = cur]
  IN Sweep(Turn, g, expected)

(***************************************************************************)
(* Mutant: a second move of an entry is not composed with its first.       *)
(***************************************************************************)
TakeNotingLastMove(dense, s, ix) ==
  LET last == LastIndex(s.c)
      shorter == [s EXCEPT !.c = Take(dense, @, ix),
                           !.taken = With(@, ix, s.c[ix].val)]
  IN IF Relocates(dense, s.c, ix)
       THEN [shorter EXCEPT !.moves = With(@, last, ix)]
       ELSE shorter

(***************************************************************************)
(* Phases 3 and 5: take the victims out of a collection, highest first.    *)
(* moves maps the position a survivor had at the start to the one it has   *)
(* now; origin is the inverse, by which a second move of the same entry is *)
(* composed with its first.                                                *)
(***************************************************************************)
TakeNoting(dense, s, ix) ==
  LET last == LastIndex(s.c)
      src  == IF last \in DOMAIN s.origin THEN s.origin[last] ELSE last
      rest == [i \in DOMAIN s.origin \ {last} |-> s.origin[i]]
      shorter == [s EXCEPT !.c = Take(dense, @, ix),
                           !.taken = With(@, ix, s.c[ix].val)]
  IN IF Relocates(dense, s.c, ix)
       THEN [shorter EXCEPT !.moves = With(@, src, ix), !.origin = With(rest, ix, src)]
       ELSE shorter

TakeAll(dense, c, victims) ==
  LET Turn(s, ix) == TakeNoting(dense, s, ix)
  IN FoldLeft(Turn, [c |-> c, moves |-> <<>>, origin |-> <<>>, taken |-> <<>>],
              Descending(victims))

-----------------------------------------------------------------------------
Vals(ns, es) == <<[k \in DOMAIN ns |-> NodeVal(ns[k])],
                  [k \in DOMAIN es |-> EdgeVal(es[k])]>>

(***************************************************************************)
(* A call that takes a shortcut.                                           *)
(***************************************************************************)
TakeEdgesOnly(es) ==
  LET t == TakeEdgesScalar(graph, es) IN
  /\ job = Idle
  /\ graph' = t.g
  /\ answer' = Answer("take", Vals(<<>>, es), <<<<>>, OutBuffer(es, t.taken)>>)
  /\ UNCHANGED job

TakeNodesOnly(ns) ==
  LET t == TakeNodesScalar(graph, ns) IN
  /\ job = Idle
  /\ ns # <<>> /\ ScalarNodesPay(graph)
  /\ graph' = t.g
  /\ answer' = Answer("take", Vals(ns, <<>>), <<OutBuffer(ns, t.taken), <<>>>>)
  /\ UNCHANGED job

(***************************************************************************)
(* A call that goes through the phases.                                    *)
(***************************************************************************)
BeginPhases(ns, es) ==
  /\ job = Idle
  /\ ns # <<>> /\ Len(ns) + Len(es) <= MaxAsked
  /\ es = <<>> => ~ScalarNodesPay(graph)
  /\ LET dying == Dying(graph, ns, es) IN
     job' = [pc     |-> "unlink",
             ns     |-> ns,
             es     |-> es,
             vals   |-> Vals(ns, es),
             before |-> [verts |-> Verts, arcs |-> Arcs],
             dying  |-> dying,
             chains |-> ChainCounts(graph, dying, ToSet(ns)),
             moves  |-> <<>>,
             out    |-> <<<<>>, <<>>>>,
             short  |-> FALSE]
  /\ answer' = Pending
  /\ UNCHANGED graph

Visited(c) == [d \in DOMAIN job.chains \ {c} |-> job.chains[d]]

(***************************************************************************)
(* Phase 2 visits a chain; when none is left, phase 3.                     *)
(***************************************************************************)
UnlinkChain(c) ==
  LET s == UnlinkDying(graph, c[1], c[2], job.dying, job.chains[c]) IN
  /\ job.pc = "unlink"
  /\ graph' = s.g
  /\ job' = [job EXCEPT !.chains = Visited(c), !.short = @ \/ s.left > 0]
  /\ UNCHANGED answer

TakeDyingEdges ==
  LET t == TakeAll(DenseEdges, graph.edges, job.dying) IN
  /\ job.pc = "unlink" /\ job.chains = <<>>
  /\ graph' = [graph EXCEPT !.edges = t.c]
  /\ job' = [job EXCEPT !.pc = "patch",
                        !.moves = t.moves,
                        !.chains = ChainCounts(graph', Range(t.moves), {}),
                        !.out[2] = OutBuffer(job.es, t.taken)]
  /\ UNCHANGED answer

(***************************************************************************)
(* Phase 4 visits a chain; when none is left, phase 5.                     *)
(***************************************************************************)
PatchChain(c) ==
  LET s == PatchMoved(graph, c[1], c[2], job.moves, job.chains[c]) IN
  /\ job.pc = "patch"
  /\ graph' = s.g
  /\ job' = [job EXCEPT !.chains = Visited(c), !.short = @ \/ s.left > 0]
  /\ UNCHANGED answer

TakeDyingNodes ==
  LET t == TakeAll(DenseNodes, graph.nodes, ToSet(job.ns)) IN
  /\ job.pc = "patch" /\ job.chains = <<>>
  /\ graph' = [graph EXCEPT !.nodes = t.c]
  /\ job' = [job EXCEPT !.pc = "rewrite",
                        !.moves = t.moves,
                        !.out[1] = OutBuffer(job.ns, t.taken)]
  /\ UNCHANGED answer

(***************************************************************************)
(* Phase 6 visits a node that moved; when none is left, the call returns.  *)
(***************************************************************************)
RewriteEndpoints(origin) ==
  /\ job.pc = "rewrite"
  /\ graph' = Reattach(graph, job.moves[origin])
  /\ job' = [job EXCEPT !.moves = [n \in DOMAIN @ \ {origin} |-> @[n]]]
  /\ UNCHANGED answer

Return ==
  /\ job.pc = "rewrite" /\ job.moves = <<>>
  /\ answer' = Answer("take", job.vals, job.out)
  /\ job' = Idle
  /\ UNCHANGED graph

Phases ==
  \/ \E c \in DOMAIN job.chains : UnlinkChain(c) \/ PatchChain(c)
  \/ TakeDyingEdges
  \/ TakeDyingNodes
  \/ \E origin \in DOMAIN job.moves : RewriteEndpoints(origin)
  \/ Return

BNext ==
  \/ job = Idle /\ Next /\ UNCHANGED job
  \/ \E es \in Batches(Edges) : TakeEdgesOnly(es)
  \/ \E ns \in Batches(Nodes) : TakeNodesOnly(ns)
  \/ \E ns \in Batches(Nodes), es \in Batches(Edges) : BeginPhases(ns, es)
  \/ job # Idle /\ Phases

BSpec == BInit /\ [][BNext]_bvars

-----------------------------------------------------------------------------
(***************************************************************************)
(* Between calls the chains are intact, whatever the batches before did    *)
(* and in whatever order they visited the chains.                          *)
(***************************************************************************)
ThreadedOnceWhenIdle == job = Idle => TypeOK /\ ThreadedOnce

(***************************************************************************)
(* Between calls, the iteration over the edges of a node meets each        *)
(* incident edge, a self-loop too, exactly once.                           *)
(***************************************************************************)
IncidentOnceWhenIdle == job = Idle => IncidentOnce

(***************************************************************************)
(* A sweep counts in advance how many links it must meet; it never runs    *)
(* off the end of the chain before (the debug_assert and unwrap_unchecked  *)
(* in unlink_dying_edges and patch_moved_edges).                           *)
(***************************************************************************)
SweepsMeetAll == job # Idle => ~job.short

(***************************************************************************)
(* "Original and current positions never collide" (comment on phase 4): a  *)
(* pointer found stale is never one that has already been redirected.      *)
(***************************************************************************)
PositionsNeverCollide ==
  job # Idle => DOMAIN job.moves \cap Range(job.moves) = {}

(***************************************************************************)
(* In phase 6 a node that moved, perhaps several times, is where the map   *)
(* says, and every edge on its chains still stores the node's original     *)
(* index (debug_assert in the loop), although phases 3 and 4 moved edges   *)
(* and rewrote pointers in between.                                        *)
(***************************************************************************)
RewriteSeesOrigin ==
  job # Idle /\ job.pc = "rewrite" =>
    \A origin \in DOMAIN job.moves :
      /\ job.moves[origin] \in Nodes
      /\ \A dir \in Dirs : \A e \in ToSet(Chain(graph, job.moves[origin], dir)) :
           graph.edges[e].node[dir] = origin

(***************************************************************************)
(* While a batch is under way the graph is still the one from before it.   *)
(***************************************************************************)
AbstractBatch ==
  INSTANCE Multigraph WITH
    verts <- IF job = Idle THEN Verts ELSE job.before.verts,
    arcs  <- IF job = Idle THEN Arcs ELSE job.before.arcs

(***************************************************************************)
(* Every call does to the graph what the interface promises, to the node   *)
(* or edge it was asked for and to no other, although entries move between *)
(* positions.  A batch call is one removal of all that was asked for, with *)
(* the edges incident to removed nodes, and returns the payloads in the    *)
(* order they were asked for, every slot of its out buffers filled.        *)
(***************************************************************************)
BatchRefinesMultigraph == AbstractBatch!Spec
=============================================================================
