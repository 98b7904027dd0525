# safegraph in TLA+

A verification project for [safegraph], a Rust library of graph containers and graph
algorithms. It consists of TLA+ modules translated from the source under `src/`, TLC
configurations that model-check them on small instances, and theorems about them that the
TLA+ proof system checks for all sizes.

[safegraph]: ../src/README.md

safegraph runs on one thread: a mutating call holds `&mut self` from start to end, and the
library has no locks, callbacks or I/O of its own. What is hard in it is *index
bookkeeping*. Vec-backed graphs remove by `swap_remove`, so every removal may move an
entry, and whoever holds that entry's old index, a link of an adjacency chain, an endpoint,
a reverse index, a list of what is still to be removed, holds the index of something else or
of nothing. Much of the code then reads through that index with `get_unchecked`. Most of the
properties here are about that; the others are about the graph algorithms, whose stacks, heaps
and counters must come to the result that a definition says, on parallel edges, self-loops and
ties too.

## 1. Inventory

| Component (source) | State | Operations | Hard behaviour | What makes it correct |
|---|---|---|---|---|
| Collections (`collection.rs`) | entries by index; Vec positions or map keys | `insert`, `take_unchecked` | `swap_remove` moves the last entry; maps refuse a taken key | callers are told of each move |
| LinkedAdjEdgeGraph (`raw_graph/linked_adj_edge.rs`) | nodes with two chain heads; edges with two links and two ends | insert, take (edge, node), reverse | relinking after moves, self-loops on two chains of one node, draining a chain while its edges move | every edge on exactly its two chains; the interface's promise |
| its batch removal (same file, 681-774, 914-1190) | dying set, counts per chain, composed moves, out buffers | `take_nodes_edges` | three strategies; hash-map order; moves of moved entries; uninitialised out buffers | equal to one simultaneous removal, in the caller's order |
| FlatAdjEdgeGraph (`raw_graph/flat_adj_edge.rs`) | nodes owning outgoing collections; optional incoming sets | insert, take, batch, reverse | edge indices contain node indices; removal from a snapshot; reinsertion on reverse | incoming sets exact; index stability where promised |
| HyperGraph (`raw_graph/hyper_edge.rs`) | two tables of sets that mirror each other | insert, take, batch, clear | the set is read again after each removal; batch order | both tables agree; batches do what they were asked |
| Stabilized (`graph/stabilized.rs`) | an inner graph whose payloads carry versions; two counters | insert (append or reuse), take, cascade, batch, reverse, `into_inner` | ABA on reused slots; counters steer the reuse; dead edges at reused nodes | an index never comes back to life; endpoints kept; counters exact |
| Graph facade (`graph.rs`) | none | validation and forwarding, `clear`, `extend_graph`, `get_or_insert_*`, `stabilize` | unchecked unwraps, the order of batches it composes | panics instead of undefined behaviour |
| Capability traits (`graph/capability.rs`, `operation.rs`) | none | contracts | | the abstract specifications |
| Contexts (`graph/context.rs`) | indices branded by a scope | insertion, reverse, one removal that ends the scope | indices trusted without checks; a removal that trusts `size_hint` | no index of a scope goes stale while it lasts (see findings) |
| Views (`undirected.rs`, `as_ref.rs`, `assert_stable.rs`) | none | forwarding | self-loops listed once | same behaviour as the graph beneath, edges in both directions |
| Matrix backend (`raw_graph/matrix.rs`) | Vec of nodes, compressed sparse matrix | construction, listings, reverse; nothing is inserted or taken | coordinates and values laid out anew | holds exactly the triplets given, transposed or not |
| Maximum flow (`algo/max_flow.rs`) | residual per edge, cancellable flow per pair of nodes, total | iterator: one augmentation per `next`; `finish` | cancellation; parallel and antiparallel edges; termination | conservation, a minimum cut reached |
| Traversals (`algo/bfs.rs`, `dfs.rs`, `toposort.rs`, `simple_paths.rs`) | queue or stack, visited set | `next`, `add_start` | lazily advanced; roots added on the way; nodes marked when pushed | everything in reach, once, in order, and an end |
| Connectivity (`connectivity.rs`, `bridges.rs`, `dominators.rs`, `bipartite.rs`, `tred.rs`) | stacks, lowlinks, colours | one call each | parallel edges, self-loops, the root of a search | results equal their definitions |
| Optimisation (`shortest_path.rs`, `min_spanning_tree.rs`, `matching.rs`, `feedback_arc_set.rs`) | heaps, distances, counters | one call each; Yen's is an iterator | stale heap entries, ties, negative weights, orders of hash sets | optimal, or within the bound they promise |
| PageRank (`pagerank.rs`) | floating-point ranks | iteration | rounding | |
| Text drawing (`convert/aa.rs`) | layers, rows, canvas | arrange, route, draw | cycles, reciprocal edges, the order of components | every node in one layer, edges downwards |
| Other conversions (`convert/`), `graph!` macro | | printing; parsing at compile time | | not a matter of state |

The layers call downwards: the facade validates indices and calls a capability trait, the
storage layout behind it calls collections and is told of moves. `Stabilized` is a client of
another graph's traits, a context of the facade's. The algorithms read a graph through its
listings of nodes and edges and keep nothing from one call to the next, except for the iterators
that their caller advances. Nothing calls back up, but for the closure of a scope, which owns the
graph while it runs.

## 2. Modules

| Module | Models | Notes |
|---|---|---|
| `Collections` | `insert`, `take_unchecked` | operators; a flag tells Vec (dense) from map (keyed) |
| `Multigraph` | what a directed graph promises | abstract: payloads, no indices |
| `LinkedAdjStore` | data structure and operations of LinkedAdjEdgeGraph | operators from graphs to graphs |
| `LinkedAdjEdge` | the facade's one-at-a-time calls on it | one action per call; part of the next-state relation of `BatchRemoval` |
| `BatchRemoval` | those calls and `take_nodes_edges_unchecked` | one action per chain visited; implements `Multigraph` |
| `FlatAdjEdge` | FlatAdjEdgeGraph, all calls | implements `Multigraph` |
| `Facade` | `extend_graph`, `get_or_insert_node` and scopes, over `FlatAdjEdge` | extends it: a call in a scope is a call of the layout that also hands out indices; implements `Multigraph` |
| `Hypergraph`, `HyperEdge` | the promise and the layout of hypergraphs | `HyperEdge` implements `Hypergraph`, in part (see findings) |
| `Stabilized` | the tombstone wrapper | implements `Multigraph` with indices as payloads |
| `MaxFlow` | Edmonds-Karp | one action per node the search visits and per augmentation; checked against minimum cuts |
| `Digraphs` | what an algorithm sees of a graph, and what a path, a distance, a component is | the reference definitions of the modules below |
| `Traversal` | building a graph; `Bfs`, `Dfs`, `DfsPostOrder`, on directed and undirected graphs | one action per `next` and `add_start` |
| `Toposort`, `SimplePaths` | both topological sorts; all simple paths | operators on graphs |
| `Components`, `CutEdges`, `Dominators`, `Bipartite`, `Reduction` | Tarjan, Kosaraju, weak components, paths; bridges, articulation points; dominators; colouring; transitive reduction and closure | the same |
| `ShortestPaths`, `SpanningTree`, `Matching`, `FeedbackArcs` | Dijkstra, A*, Bellman-Ford, Floyd-Warshall, Yen; Prim; matchings; Eades-Lin-Smyth | the same; the set of all outcomes where a heap or a hash set decides |
| `Layering` | the arrangement of the text drawing | the same |
| `Views` | CsMatGraph; the listings of `Undirected` | the same |
| `Algorithms` | | puts the operators on every graph that `Traversal` builds |
| `Groundwork` | | lemmas only: induction in a form the provers can use, finite sets, sorted and fold-like listings; what an insertion and a removal leave behind, dense or keyed |
| `Stabilized_proofs`, `LinkedAdjEdge_proofs`, `BatchRemoval_proofs`, `Facade_proofs`, `HyperEdge_proofs`, `MaxFlow_proofs`, `Traversal_proofs` | | theorems and proofs; `Facade_proofs` covers `FlatAdjEdge` |
| `MC*` | | small instances and symmetry sets for TLC |

**Indices and payloads.** A collection is a function from its current indices to entries. A
dense one has domain `0..len-1` and `Take` fills the gap with the last entry. A keyed one uses
the payload as index. In a refinement, nodes and edges are known by payload, so
`RefinesMultigraph` states that a call given an index acted on the payload that the index
addressed, and on no other. A Vec accepts equal payloads; the models give each entry of a Vec
its own (in `FlatAdjEdge`, where edges of equal key are the point, a history field `id`
distinguishes them) so that a confusion of entries is visible; `PayloadsDiffer` is part of the
proofs' inductive invariant, and of what is assumed of a graph to extend by.

**Calls.** Each facade call is one action. `answer` is a history variable: the call, the
payloads it was asked about and what it returned. Calls that would panic (invalid or repeated
index) change nothing and are left out, but for the one in a scope, which ends it.
`BatchRemoval` splits a batch into steps only because
the code visits chains in the order of a `HashMap`; in between no other call runs, and the
abstract graph is the one from before the batch until it returns. The counts of phases 2 and 4
are computed from the edges' ends, as the code does. The keys of maps are numbers
(`KeysAssumption`) here too: entries are taken in the order of their indices, the highest first.

**Stabilized.** Its inner graph is abstracted to two tables of slots with versions: the
wrapper only appends to it, changes payloads in place and reverses it. This is what
LinkedAdjEdgeGraph provides (its indices survive all three). Over FlatAdjEdgeGraph it is not,
because `reverse` gives edges new indices there (see findings). The capacity of each
inner collection is part of the state: a number, which grows by any amount the allocator may
choose, or none for collections without capacities. The mutable walks, which
would hand out indices of version 0 (`stabilized.rs:102`), are not modelled: those of every
backend are empty.

**FlatAdjEdge.** `Maintained` is the profile with incoming sets; it exists for Vec nodes only
(`ProfileAssumption`, from the trait bounds). The keys of maps are numbers (`KeysAssumption`), since
batches are sorted by index. A drained map yields its entries in any
order, so `ReverseCall` has one outcome per order. `Consistent` is the type invariant with the
exact reverse index, of which neither means much without the other.

**Facade.** A scope is the set of indices that it has handed out, each with the payload it named
first: `contains_node_index` and `contains_edge_index` say yes to all of them without looking, and
nothing but the end of the scope takes one away. A closure may list all indices at any time, so the
model hands out all there are when the scope opens and after each call. `reverse` is forwarded like
any other call, and the edge indices of before stay in the scope although they may have no edge, or
another one, from then on (`ScopeIndicesLive` is violated, section 5). What a removal does with an
index that has no edge is undefined in the code and left out; one that has another edge takes that
one. `scope.since` is a history variable for `LiveUntilReverse`. Whether an iterator announces that
it is short is up to safe code: `ScopedTakeSingle` is the short way, open to calls with at most one
index on either side, and the batch is open to all. An index passed twice makes the batch panic,
with the graph as it was and the scope gone (`ScopedTakeTwice`); `clear` in a scope is the batch of
everything. `extend_graph` unwraps its insertions unchecked. Its guard is therefore that the graph
holds none of the keys; what it does to a graph that does is undefined. The graphs to extend by are
states that the layout can be in (`OthersAssumption`). `get_or_insert_node` applies to graphs whose
node index is the payload, that is, to maps.

**Algorithms.** A graph is a sequence of edges, in the order in which it lists those of a node,
oldest first; parallel edges and self-loops are ordinary edges. Except for the traversals, the
algorithms are operators that go through the steps of the code (stack frames, lowlinks, heap
entries) and return its result. Where the code asks a heap with ties, or a hash set, for the next
entry, the operator yields the set of all outcomes and the property is about every one of them.
Weights are integers; those for Dijkstra, A* and Yen are not negative, as their contracts
demand. The recursion is that of the code's loops, and these modules are for TLC only.

**Views.** `CsMatGraph` is read-only once constructed, but for `reverse`: `from_triplets`, the
listings and the transposition by counting sort are modelled, for row-major matrices. The code takes
rows for tails, which its documentation calls heads; the operators and `ViewsExact` follow the code,
which also says what the documentation's convention comes to: the reversed graph (section 5).
`Undirected` lists at a node what the graph beneath lists there in both directions. Its `reverse`
does nothing, and its other calls are those of the graph beneath.

**HyperEdge.** Incidence sets are HashSets and `iter().next()` may return any element:
`TakeNode` yields the set of all outcomes. Both collections are Vecs, as in the crate's alias
`HyperGraph`; `insert_edge` requires Vec nodes and `take_node` Vec edges. Keyed edges, which
never move and are refused when their key is taken, are not modelled.

**MaxFlow.** The graph is a sequence of edges, in the order in which it lists the edges of a
node (a linked graph lists the newest first, a Vec-backed flat graph the oldest). The maps
`visited` and `source_visited` are one function. The steps of an augmenting path touch
different entries, as the path meets a node once, so `Augment` updates them at once. A source
that is its own sink makes `next` unwrap the bottleneck of an empty path; it is excluded by
assumption. Weights are natural numbers. The early return for a bottleneck of zero is the
value given to `done'` in `Augment`.

## 3. Runs

| Run | Instance | Shows |
|---|---|---|
| `batch_vec` | Vecs; 3 nodes, 3 edges, batches of up to 2, gate 1 | chain integrity, incidence and refinement under all calls; all three batch strategies in all orders of chains; the code's own `debug_assert`s |
| `batch_mixed` | Vec nodes, map edges with 2 keys; batches of up to 3, gate 16 | the same where only nodes move and equal keys are refused |
| `stabilized` | 2 + 2 slots, versions to 2, with and without capacity | all safety properties of the wrapper and its refinement |
| `flat_vec` | Vecs, incoming sets; 3 nodes, 3 edges; graphs of 2 nodes and 1 or 2 edges to extend by | exact reverse index; scope indices live, those of edges until the scope reverses the graph; refinement by every call in and out of scopes |
| `flat_map` | maps, no incoming sets; 3 keys for nodes, 2 for edges; the same graphs to extend by | refinement and index stability for every call but reverse; what reverse loses |
| `hyper_vec` | 3 nodes, 3 edges, all endpoint sets | both tables agree; exact calls |
| `max_flow` | 11 edges on 8 nodes, capacities to 2 on 6 of them and 1 on the others, two listing orders | conservation, maximality, monotone path lengths, termination |
| `algorithms` | every sequence of up to 3 edges on up to 3 nodes, every simple graph with up to 7 edges on 4 nodes; traversals with up to 2 roots | every algorithm agrees with its definition; traversals cover, keep their order and end; matrix and undirected listings are exact |
| `flat_scope`, `hyper_clear`, `max_flow_edges`, `kosaraju` | as `flat_map` with 2 edges; as `hyper_vec`; as `max_flow`; 3 nodes | the findings of section 5 |

**Bounds.** `MaxNodes`, `MaxEdges` bound the graph, `MaxAsked` a batch, `MaxVersion` the version of
a slot. Moves need an entry, a removed entry and a last entry: three of each kind give removal of
the first, a middle and the last one; relocation of an edge that shares none, one or both chains
with the removed edge; self-loops, parallel and antiparallel edges. Two removals in one batch give
moves of moved nodes and, through their incident edges, of moved edges; `batch_mixed` goes up to
three. Version 2 gives a slot that is reused once, by which an index could come back to life; the
theorems cover every version. `ScalarNodeMaxAvgDegree` is 16 in the code; with graphs this small it
would hide the phases, so `batch_vec` uses 1, which lets both the shortcut and the phases happen,
and `batch_mixed` keeps 16. The payloads of Vecs are interchangeable and symmetric; the keys of
ordered maps are numbers and are not. `flat_map` identifies states that differ only in what the
indices of the open scope once named (`VIEW WhatCallsSee`): a scope is handed all indices after each
call, so that the calls open to it depend on the graph alone, and the properties of that run are
about the calls.

The network of `max_flow` has a short path over a pair of parallel edges, blocked for a longer
one unless its flow is cancelled, and an antiparallel edge that competes with the cancellation;
capacity 0 removes an edge, so the smaller networks are included.

In `algorithms`, four nodes without parallel edges or self-loops give the shapes that need
four: a diamond, a diamond with a rung in both directions, two disjoint edges, a cycle with a
tail, a tournament. Three nodes carry everything else: parallel edges, self-loops, two-cycles,
with any order of insertion. Weights are -1, 1 and 2 on up to three nodes, and on four for the
diamond with a rung, where detours tie with or beat direct edges; the arc against the rung, if
there is one, weighs -1 there, so that the cycle they make is negative, zero or positive.
Dijkstra, A* and Yen see the weights raised by 1, which makes one of them 0. The same weights
are the labels of the text drawing, for which `LabelsKept` looks at two nodes. Traversals start
on four edges of the diamond with a rung and on three edges of two or three nodes, at most one
of them a self-loop; at least one edge leaves the first node, which on three nodes is only a
choice of names. They get a second root at any time. The properties of a graph are checked as invariants of the
states in which it is being built (`Unweighted`, `Weighted`).

**Deadlock** is checked in every run but `algorithms` and `kosaraju`: there a graph that has
reached its bound, or a traversal that has yielded everything, has nothing left to do.
**Fairness and liveness:** a call of the storage layers runs
to its end on the caller's thread, and a caller need not make another, so nothing there
must happen eventually. That the loops end is part of the safety
properties: chains are finite (`ThreadedOnceWhenIdle`), sweeps meet what they count (`SweepsMeetAll`).
`MaxFlow` assumes weak fairness of its next-state relation: `finish` advances the iterator in a
loop that nothing else interrupts, and `Terminates` says that the loop ends. `Traversal` assumes
weak fairness of `next`: its caller is a `for` loop, whose body may add roots as often as the
bound allows; `TraversalEnds` says that it gets to `None`, whatever cycles the graph has.

## 4. Theorems

All theorems hold for every value of the constants that satisfies the named assumptions: graphs of
any size, any payloads, batches of any length, and each family of collections.

| Module | Theorem | States | Assumptions |
|---|---|---|---|
| `Stabilized_proofs` | `TypeCorrect`, `CountersCorrect`, `EndpointsCorrect`, `ResurrectionFree`, `PurgeCorrect`, `ScanNeverMissed` | `Spec => []P` for `TypeOK`, `CountersExact`, `EndpointsKept`, `NoResurrection`, `PurgeKeepsLive`, `NoTombstoneSkipped` | `BoundsAssumption` |
| | `WrapperIsGraph` | `Spec => RefinesMultigraph` | the same |
| `LinkedAdjEdge_proofs` | `ChainsIntact` | `Spec => [](TypeOK /\ ThreadedOnce)` | `SizesAssumption`, `FamiliesAssumption`, `SentinelAssumption` |
| `BatchRemoval_proofs` | `BatchesKeepChains`, `IterationMeetsEachOnce` | `BSpec => []P` for `ThreadedOnceWhenIdle`, `IncidentOnceWhenIdle` | the same and `KeysAssumption` |
| | `SweepsNeverFallShort`, `PositionsApart`, `RewritesMeetOrigin` | `BSpec => []P` for `SweepsMeetAll`, `PositionsNeverCollide`, `RewriteSeesOrigin` | the same |
| `Facade_proofs` | `FlatIndexExact` | `FacadeSpec => []Consistent` | `ProfileAssumption`, `KeysAssumption`, `OthersAssumption` |
| | `ScopesLiveUntilReverse` | `FacadeSpec => []LiveUntilReverse` | the same |
| | `IndicesStable` | `FacadeSpec => StableUnlessReversed`, maps at both levels | the same |
| | `ReverseKeeps` | `FacadeSpec => ReverseLosesOnlyClashes` | the same |
| | `CallsImplement` | `FacadeSpec => CallsRefine` | the same |
| | `VecsImplement` | `FacadeSpec => RefinesMultigraph` | the same and `DenseEdges` |
| `HyperEdge_proofs` | `TablesAgree` | `Spec => []Consistent` | `SizesAssumption` |
| | `ExactCallsImplement` | `Spec => ExactCallsRefine` | the same |
| `MaxFlow_proofs` | `ResidualsStayNatural`, `BooksAgree`, `FlowConserved`, `MaxFlowMinCut` | `Spec => []P` for `TypeOK`, `CancellableIsPairFlow`, `Conserved`, `Maximum` | `NetworkAssumption` |
| `Traversal_proofs` | `TraversalsCover`, `TraversalsKeepOrder` | `TSpec => []P` for `TraversalCovers`, `TraversalOrdered` | `SizesAssumption` |

**How loops are handled.** The provers cannot instantiate an induction theorem that takes a
predicate, and TLA+'s folds and iterated choices are defined by recursive functions over sets or
numbers. `Groundwork` goes around this with *sets* instead of predicates: `RoundInduction` says that
a set of rounds that contains the first one, and with each round the next, contains them all, and is
proved from the least counterexample in `Nat`. A proof about a loop then names the set of rounds
after which the claim holds. `FoldLeft` is defined through a fold over the positions that are left;
`Facade_proofs`, `BatchRemoval_proofs` and `Traversal_proofs` first show that such a fold is a
*run* (`Runs`: the outcome of the first k turns, for every k), and argue about runs from there on. The models avoid `RECURSIVE` in the modules that
are proved about: a chain is followed, and a search advanced, by a recursive function.

**Stabilized.** `NoResurrection` is not inductive: that a retired index is invalid now does not say
that its slot will not come back to its version. `IInv` states instead that every retired index is
*behind* its slot: the slot's version exceeds it in absolute value, or is its negation. Every step
moves a version only forwards along v, -v, v + 1, -(v + 1), ... (`NodesStep`, `EdgesStep`: a slot
stays or advances), what is behind stays behind (`StaysBehind`), and what a step retires falls
behind (`FallsBehind`). `EndpointsKept` needs that a removal covers the live edges of the removed
nodes (`CascadeCovers`) so that an end of a live edge is live and its slot is never reused under it.
`CountersExact` needs the cascade to be disjoint from the named edges of a batch, which is the same
lemma, and counts by cardinalities of the sets that a step adds and removes. `PurgeKeepsLive`
follows from `EndpointsKept`, `NoTombstoneSkipped` from `CountersExact`: if as many are live as
there are slots, none is dead. `WrapperIsGraph` has one lemma per action (`RefineAppendNode` to
`RefineReverse`): an insertion adds an index that was not valid, by appending a slot or by reuse of
a dead one; a removal takes away what it names and the cascade, each once, in the order in which the
answer lists it (`NamedOnce`). Without `EndpointsKept` the endpoints of an abstract edge could
change under it.

**LinkedAdjEdge.** `ThreadedOnce` computes each chain by following links, which says nothing about a
graph half way through a call. The inductive invariant is `Linked`, the shape of the two collections
and `Threaded(graph, EIx(graph))`. `Threaded(g, S)` says that in each direction there are *ranks* of
the edges in `S`, their age, such that the head pointer of a node is the youngest of its edges in
`S`, the link of an edge the next younger one of the same node, and the sentinel is older than all.
`S` leaves room for what is already unlinked but still there: `Redirected` and `Unlinked` take an
edge off one chain, `Relinked` follows the relocation of the last edge into the gap, and `EdgeTaken`
puts both together for both directions, self-loops included. `NodeRemoved` is about the relocation
of a node. A chain is drained in a round per edge (`ChainDrained`). `ChainDescends` and `ChainLists`
give back `ThreadedOnce`: along a chain ranks fall, so that following it ends and lists each edge of
the node once.

**Batch removal.** Between calls the invariant `BatchInv` is `Linked`. Inside a batch it says, per
phase, how the graph differs from one with threaded edges; these differences are what the
code's comments argue with. In `Unlinks`, chains already visited are threaded by the edges that
stay, and the others by all edges (`Still`): visiting one moves it from the second kind to the
first, whatever the order of the map. In `Patches` there is a threaded graph `v`, of which the
stored one differs only in the pointers of chains not yet visited: they are where the edge was
before the removal (`Now(origin, ...)`). In `Rewrites` the chains are those of `v`, and the
endpoints that edges store are the nodes' old indices. `Compacting` is the invariant of the loop
that takes entries out of a collection and composes the moves: a position holds what `origin`
says, `moves` and `origin` are each other's inverse however often an entry has moved, and since
removals go down from the highest index, no position is both left and arrived at. A sweep is followed turn by turn,
youngest edge first (`Unlinking`, `Patching`). It holds a predecessor that is already right and
a count of the links it has still to meet, and these lie behind it in rank: it cannot fall off the
chain. That `v` is threaded again comes from relabelling, of edges by `EdgesMoved` and of nodes by
`NodesMoved`. The shortcuts take edges and nodes one by one; the indices that are still to come are
lower than those taken and stay where they are (`LowerStay`). `LinkedIncidentOnce` follows the
listing of a node's edges, which passes over loops on the incoming chain, as a run as well.

**FlatAdjEdge and Facade.** The inductive invariant is `FacadeInv`, `Whole(graph)` with
`LiveUntilReverse`. `Whole` has five parts: the shape of the entries, every edge leads to a node,
ids name edges, payloads name nodes, and the incoming sets record exactly the edges that lead there.
A removal of one edge moves at most one other of the same tail (`TakeEdgeTakes`) and renames it in
the set of the node it leads to. A batch goes through its edges in descending order, and so each
removal moves only an edge that is not to be removed: `LeftOver` says of every turn which edges are
gone (`NextEdgeTaken`), and `EdgesInTurn` that each removal finds at its index what was there when
the batch began (`EdgesTakenInTurn`); the same for nodes (`NodeTaken`, `NodesTakenInTurn`), whose
relocation renames their edges everywhere (`RenumberRenames`). `reverse` puts back the drained edges
one by one: `KeptOrClashed` says of each that it was put back or that one of equal key was.
`extend_graph` is about two graphs at a time (`Offered` says what the other one offers,
`AddNodesAdds` and `AddEdgesAdds` what has been taken over after each turn). Of every call of the
facade the proof then keeps only that it adds, removes or reverses (`StepsOfTheGraph`: `Grows`,
`Shrinks`, `Reverses`), which gives stability and the life of a scope's indices: what grows keeps
every entry at its index (`HandOutKeepsLive`), and what shrinks ends the scope. That the node
indices of a scope are live, after a reversal too, is also what makes its removals defined
(`StepsRefine`).

That the layout implements the interface rests on what can be seen of the collections without
indices: `Holds`, that there is a node of that payload, and `Joins`, that the edge of that id leads
from the node of one payload to that of another. `StandsFor` says that these two are all that
`VertsOf` and `ArcsOf` contain, so that every step is settled by how it changes them: `Loses` for
removals (`EdgesLost`, `NodeLost`, `TakenBoth`), `JoinsToo` and `JoinsBoth` for insertions and
`extend_graph`, `JoinsBack` for `reverse`. What a batch returns is, turn by turn, what its indices
named (`BatchReturns`, from `EdgesInTurn` and `NodesInTurn`), in the order in which the call lists
it and each once (`BatchNamesOnce`). With keyed edges this holds but for two answers (`Promised`): an
edge refused because its key is taken, and `reverse`, of which `ReverseKeeps` says what it may lose.

**HyperEdge.** `IInv` says that the pair of tables is in `Graphs`: well shaped, with each incidence
entered on both sides and a payload of its own for every entry. Every operation is described once by what can be observed of the graph before
and after it (`RecordFacts` to `TakeAloneFacts`). A node is drained by taking an edge of its set
until none is left; the set read again after each removal is smaller by one (`DegreeFalls`),
whatever edge was relocated, so that the loop ends. Batches in any order stay in `Graphs`
(`TakeNodesEdgesGood`).

`ExactCallsImplement` is argued with payloads. `Loses(g, h, L, M)` says that h has lost the nodes of
payloads L and the edges of payloads M, and that those it kept join what they joined, less the nodes
lost. Losses add up (`LosesMore`), so that one removal (`TakeEdgeLoses`, `TakeAloneLoses`), the loop
that drains a node, which loses the edges at that node and no other, in whatever order the set gives
them (`DrainedFacts`), and a batch (`BatchTakes`) are all described by it. In a descending list the
positions below the one just taken are as they were, because only the last entry moves, and what
is taken next is what its index named when the call was made (`EdgeTurnsLead`, `NodeTurnsLead`).
In any other order this fails, and the property does not speak of those calls: they are the second
finding.

**MaxFlow.** The inductive invariant is `Flowing`. For the search it says that ranks exist by which
every node found was reached from one found earlier over a step with room (`Sound`), and that a node
that is no longer queued has offered all its steps (`Covered`). The path read off backwards
therefore descends in rank: it ends, is simple, and has room on every step (`PathLeads`,
`PathSimple`), so that no residual goes below zero. What an augmentation changes is a sum over the
edges that it uses and those that it gives back to (`Used`, `GivenBack`, `FlowShifts`): between two
nodes the flow changes by what the path takes along or against it (`PairLifts`), which is what
`reverse` books, and at a node of the path what comes in goes out (`BalanceKept`). When the search
finds no sink, the nodes it found are a cut with no residual out of it and nothing to cancel into
it. `CutsBound` sums conservation node by node, from the source to all of the cut (`NetIsTotal`),
and the flow back over the cut pair by pair (`FlowByPairs`). No cut has less capacity than the
total, and this one has exactly as much.

**Traversals.** The inductive invariant is `TraversalSound`, a conjunction of predicates on what is
visited, pending and yielded. `Once`: a visited node is pending or yielded, and once. `Reached`: the
roots are visited, and what is visited is reached from them. `Done`: what comes next after a yielded
or expanded node is visited. When nothing is pending these three make the yielded nodes a set closed
under the steps of the graph, and `ClosureLeast` says that the nodes reached are the least such set:
that is `TraversalCovers`. The order needs one predicate per kind. `Near`: every node that a
depth-first traversal holds, roots apart, has a yielded node that leads to it. `Layered`: a
breadth-first queue holds the rest of one layer of `Remoteness` and then the part of the next one
found so far; it is kept as long as no root comes late (`RemoteFacts` unfolds the recursive function
that computes the distance). `Behind`: until a post-order traversal expands a node, it has visited
nothing that only this node leads to; what lies below an expanded node on the stack can be reached
without it; and so can, once it is yielded, all that is visited and was not yielded before it.
`ExpandTop`, the loop inside one `next` of `DfsPostOrder`, is a recursive function whose domain has
no end; it is defined because each turn expands a node more and a node is expanded once
(`LoopExists`, `LoopEnds`).

**Only model-checked.**

- That the linked layout and its batches implement `Multigraph` (`BatchRefinesMultigraph`):
  the theorems give the invariants that such a proof would start from.
- Algorithms and views: their operators are recursive, which the prover does not accept.
- Liveness (`Terminates`, `TraversalEnds`), out of the prover's reach, and `PathsNeverShrink`, an
  action property of the flow that needs distances.

## 5. Findings

1. `flat_scope`: a scope claims stable edges for any graph (`context.rs:953-954`), forwards
   `reverse`, and keeps answering true to the edge indices of before, with which its safe calls read
   the graph unchecked. The flat layout gives every edge a new index in `reverse`, although over maps
   it claims `StableEdge` itself (`flat_adj_edge.rs:906`): with a single edge the old index has none
   afterwards, and with an edge of the same key in the other direction it has that one. The run uses
   maps; over Vecs the same happens. `flat_map` shows that no other call moves an edge to another
   index there, and `flat_vec` what is left of the claim, which `ScopesLiveUntilReverse` proves: node
   indices are live throughout, edge indices until the scope reverses the graph.
2. `hyper_clear`: on Vecs, a hypergraph's batch removal goes through the caller's list in order
   and skips what its own removals moved, and `clear` lists everything from the lowest index up:
   it leaves nodes behind. `hyper_vec` shows that descending lists are served exactly, and that
   the two tables agree even after the others.
3. `max_flow_edges`: what can be cancelled is kept per pair of nodes, residuals per edge, and
   cancelled flow is given back to the first edge between the two nodes. Of two parallel edges
   the first may then report a negative flow; unsigned weights underflow when `finish`
   computes it, also for `edmonds_karp`, which wants only the total. `max_flow` shows that the
   total and the flow per pair of nodes are right all the same.
4. `kosaraju`: the first pass of `kosaraju_scc` marks a node when it is pushed. With
   s -> a, s -> b, a -> b, where s lists a before b, a is finished before b and both come out as
   one component of a graph without cycles. `algorithms` shows that it never splits a component
   and that `tarjan_scc` is exact.

Remarks, of which no run is a counterexample. The properties hold of the code as it is.

- With keyed edges, `reverse` drops an edge when two edges of equal key come to share a tail
  (`let _ =` in `flat_adj_edge.rs:559`). `ReverseLosesOnlyClashes` says that nothing else is lost.
- The header of `stabilized.rs` says that edges are always appended; an insertion reuses the slot
  of a removed edge with the same endpoints (`stabilized.rs:785`).
- `DfsPostOrder` is said to emit nodes "after all their descendants" (`dfs.rs:158-160`). A node is
  marked when it is pushed, so one may come before a descendant that a sibling leads to too;
  `TraversalOrdered` says what holds. For the same reason `Dfs` yields no true preorder. Of the
  three, only `Bfs` asserts that a root exists.
- The error of `toposort_kahn` names a node that a cycle leads to, not always one of a cycle.
- `max_matching` does not contract odd cycles and marks a node once per search, so that it can miss
  a larger matching of a graph that is not bipartite (six nodes are needed). `MatchingsAndColorings`
  claims a largest one for bipartite graphs.
- A* finishes a node once; with an estimate that is admissible but not consistent it may return a
  path that is not shortest. `WeightsOptimal` uses consistent estimates.
- `dag_transitive_reduction` drops both of two parallel edges; `PathsEnumerated` is about what the
  remaining paths join. On graphs with parallel edges, Yen's costs count the first of them.
- `graph.rs:317-319` says that `walks_from` skips self-loops; `operation.rs:172-176` lists them.
- `matrix.rs` documents rows as heads, columns as tails, `EdgeIx(head, tail)` and triplets
  `(head, tail, data)` (lines 8-13, 29, 89). Its ends and listings take the row for the tail (lines
  186-201, 395, 399), which is the source of an edge everywhere else (`capability.rs:189`), and so do
  the tests. A matrix built by the documentation is therefore the reversed graph; `ViewsExact` says
  this, and that one whose rows are tails is exact.
- `CsMatGraph::from_parts` accepts a column-major matrix, whose rows are then columns. The matrix
  claims stable edges too, and its `reverse` exchanges the coordinates that are their indices.
- `UniqueEdge` speaks of one edge per key (`capability.rs:170`); the keyed flat layout keeps one per
  key and tail.

## 6. Not modelled

The parts marked *not modelled* in `PROJECT.json`, each with its reason: forwarding wrappers, the
prelude and the macro keep no state, PageRank is numeric. Within the modelled
parts: in-place updates of payloads and `map`, `get_or_insert_edge`, read-only iterators beyond
listings, incidence, neighbours and reported endpoints, and `LinkedList`, which is no
random-access collection. Keyed edges and array endpoint sets of hypergraphs. DOT output, and the
canvas, the routing of edges and the labels of the text drawing, which are layout. The width of a
Vec index (`len as u32`, sentinel `u32::MAX`) is not modelled: the wrap-around needs 2^32
entries. Floating-point and overflowing weights are not: the algorithms are generic, and
their models compute with integers and a largest value that no sum reaches.

## 7. Plan

Done: the collections, three storage layouts with batches, the wrapper, the facade with scopes and
`extend_graph`, views, the matrix backend, and the algorithms; the theorems of section 4. Next:

1. **Refinement.** `LinkedAdjEdge` implements `Multigraph`, from `ChainsIntact` in the way of
   `CallsImplement` and `ExactCallsImplement`, and then its batches.
2. **Flow.** `PathsNeverShrink`, from distances in the residual network.
3. **Keyed edges of `HyperEdge`**, and scopes over the linked layout.
