------------------------------ MODULE Layering ------------------------------
(***************************************************************************)
(* How the text drawing arranges a graph (convert/aa.rs): reciprocal edges *)
(* become one, each weak component is cut into layers, the layers are      *)
(* sorted and packed into rows.  The label of an edge is its weight.       *)
(***************************************************************************)
EXTENDS Components

RECURSIVE Unify(_, _)
Unify(edges, directed) ==
  IF edges = <<>> THEN <<>>
  ELSE LET e == Head(edges)
           back == {i \in 2..Len(edges) :
                      /\ directed /\ e.tail # e.head
                      /\ edges[i] = [tail |-> e.head, head |-> e.tail, weight |-> e.weight]}
           first == CHOOSE i \in back : \A j \in back : i <= j
       IN <<[from |-> e.tail, to |-> e.head, label |-> e.weight,
             bidirectional |-> back # {}]>>
          \o Unify(Tail(IF back = {} THEN edges ELSE RemoveAt(edges, first)), directed)

SortedBefore(e, f) ==
  \/ e.tail < f.tail
  \/ e.tail = f.tail /\ e.head < f.head
  \/ e.tail = f.tail /\ e.head = f.head /\ e.weight < f.weight

UnifyReciprocalEdges(g, directed) == Unify(SortSeq(g.edges, SortedBefore), directed)

\* The render edges as a graph again, both ways where they are bidirectional.
ArcsDrawn(n, drawn) ==
  LET Ways(i) == LET d == drawn[i]
                     Arc(t, h) == [tail |-> t, head |-> h, weight |-> d.label]
                 IN IF d.bidirectional THEN <<Arc(d.from, d.to), Arc(d.to, d.from)>>
                    ELSE <<Arc(d.from, d.to)>>
  IN [size |-> n, edges |-> FlattenSeq([i \in DOMAIN drawn |-> Ways(i)])]

Adjacency(g) ==
  [n \in Nodes(g) |-> SetToSortSeq({m \in Nodes(g) : <<n, m>> \in Symmetric(Arcs(g))},
                                   LAMBDA a, b : a < b)]

\* The node of S with most neighbours, the first of several.
Busiest(adj, S) ==
  CHOOSE n \in S : \A m \in S \ {n} :
    Len(adj[n]) > Len(adj[m]) \/ (Len(adj[n]) = Len(adj[m]) /\ n < m)

RECURSIVE Spread(_, _, _)
Spread(adj, queue, at) ==
  IF at > Len(queue) THEN queue
  ELSE Spread(adj, queue \o SelectSeq(adj[queue[at]], LAMBDA m : m \notin ToSet(queue)),
              at + 1)

RECURSIVE WeakParts(_, _)
WeakParts(adj, left) ==
  IF left = {} THEN <<>>
  ELSE LET part == Spread(adj, <<Busiest(adj, left)>>, 1)
       IN <<part>> \o WeakParts(adj, left \ ToSet(part))

IsStronglyConnected(g) ==
  /\ Closure(Arcs(g), {1}) = Nodes(g)
  /\ Closure({<<a[2], a[1]>> : a \in Arcs(g)}, {1}) = Nodes(g)
-----------------------------------------------------------------------------
LevelsFromAssignment(part, level) ==
  LET top == CHOOSE l \in {level[n] : n \in ToSet(part)} :
                \A n \in ToSet(part) : level[n] <= l
  IN [l \in 1..(top + 1) |-> SelectSeq(part, LAMBDA n : level[n] = l - 1)]

RECURSIVE Distances(_, _, _)
Distances(adj, level, queue) ==
  IF queue = <<>> THEN level
  ELSE LET n   == Head(queue)
           new == SelectSeq(adj[n], LAMBDA m : m \notin DOMAIN level)
       IN Distances(adj, level @@ [m \in ToSet(new) |-> level[n] + 1], Tail(queue) \o new)

UndirectedLayers(part, adj) ==
  LET root == Busiest(adj, ToSet(part))
  IN LevelsFromAssignment(part, Distances(adj, root :> 0, <<root>>))

\* A depth-first search that finishes a node after all that it discovers.
RECURSIVE FinishSearch(_, _, _)
FinishSearch(g, run, starts) ==
  LET top  == Last(run.stack)
      next == Head(top.rest)
      past == [run EXCEPT !.stack[Len(run.stack)].rest = Tail(@)]
      Open(r, n) == [r EXCEPT !.seen = @ \cup {n},
                       !.stack = Append(@, [node |-> n, rest |-> NeighborsFrom(g, n)])]
  IN IF run.stack # <<>> THEN
       FinishSearch(g,
         IF top.rest = <<>> THEN [run EXCEPT !.stack = Front(@), !.order = Append(@, top.node)]
         ELSE IF next \in run.seen THEN past ELSE Open(past, next),
         starts)
     ELSE IF starts = <<>> THEN run.order
     ELSE FinishSearch(g, IF Head(starts) \in run.seen THEN run ELSE Open(run, Head(starts)),
                       Tail(starts))

\* The longest way to each strong component; which of those without
\* predecessors left comes next decides nothing.
RECURSIVE LongestWays(_, _)
LongestWays(arcs, run) ==
  LET free == {c \in run.left : ~\E a \in arcs : a[2] = c /\ a[1] \in run.left}
      c    == CHOOSE c \in free : TRUE
      succ == {a[2] : a \in {b \in arcs : b[1] = c}}
  IN IF run.left = {} THEN run.level
     ELSE LongestWays(arcs,
       [left  |-> run.left \ {c},
        level |-> [d \in DOMAIN run.level |->
                     IF d \in succ /\ run.level[c] + 1 > run.level[d]
                       THEN run.level[c] + 1 ELSE run.level[d]]])

DirectedLayers(part, g) ==
  LET order  == FinishSearch(g, [seen |-> {}, stack |-> <<>>, order |-> <<>>], part)
      sccs   == Assign(g, Reverse(order))
      Of(n)  == CHOOSE i \in DOMAIN sccs : n \in sccs[i]
      arcs   == {<<Of(a[1]), Of(a[2])>> : a \in {b \in Arcs(g) : b[1] \in ToSet(part)}}
      level  == LongestWays({a \in arcs : a[1] # a[2]},
                  [left |-> DOMAIN sccs, level |-> [i \in DOMAIN sccs |-> 0]])
  IN [layers |-> LevelsFromAssignment(part, [n \in ToSet(part) |-> level[Of(n)]]),
      groups |-> SelectSeq(sccs, LAMBDA c : Cardinality(c) > 1)]
-----------------------------------------------------------------------------
\* A node's neighbours in the other layer: the sum of their positions, and
\* how many.
Score(adj, other, n) ==
  LET at == {i \in DOMAIN other : other[i] \in ToSet(adj[n])}
  IN <<FoldSet(LAMBDA i, sum : i + sum, 0, at), Cardinality(at)>>

SortByBarycenter(layer, other, adj) ==
  LET At(n) == CHOOSE i \in DOMAIN layer : layer[i] = n
      Before(m, n) ==
        LET a == Score(adj, other, m)
            b == Score(adj, other, n)
        IN IF a[2] = 0 \/ b[2] = 0
             THEN a[2] > b[2] \/ (a[2] = b[2] /\ At(m) < At(n))
             ELSE \/ a[1] * b[2] < b[1] * a[2]
                  \/ a[1] * b[2] = b[1] * a[2] /\ At(m) < At(n)
  IN SortSeq(layer, Before)

\* The sweep down and the sweep up, in each of which a layer follows the one
\* sorted before it.
Sweep(layers, adj) ==
  LET n == Len(layers)
      Down[i \in 1..n] == IF i = 1 THEN layers[1]
                          ELSE SortByBarycenter(layers[i], Down[i - 1], adj)
      Up[i \in 1..n]   == IF i = n THEN Down[n]
                          ELSE SortByBarycenter(Down[i], Up[i + 1], adj)
  IN [i \in 1..n |-> Up[i]]

ReduceCrossings(layers, adj) ==
  LET Times[k \in 0..4] == IF k = 0 THEN layers ELSE Sweep(Times[k - 1], adj)
  IN Times[4]

\* The members of a group, gathered where the first of them is.
Gather(layer, group) ==
  LET first == CHOOSE i \in DOMAIN layer :
                 layer[i] \in group /\ \A j \in 1..(i - 1) : layer[j] \notin group
      others == SelectSeq(layer, LAMBDA n : n \notin group)
  IN SubSeq(others, 1, first - 1) \o SelectSeq(layer, LAMBDA n : n \in group)
       \o SubSeq(others, first, Len(others))

KeepGroupsTogether(layers, groups) ==
  LET Kept(layer) ==
        FoldLeft(LAMBDA l, group : IF Cardinality(ToSet(l) \cap group) < 2 THEN l
                                   ELSE Gather(l, group), layer, groups)
  IN [i \in DOMAIN layers |-> Kept(layers[i])]

\* A row ends before the node that would make it too wide.
PackLayer(layer, width, available) ==
  LET Pack[i \in 0..Len(layer)] ==
        IF i = 0 THEN [rows |-> <<>>, used |-> 0]
        ELSE LET p == Pack[i - 1]
                 w == width[layer[i]]
             IN IF p.rows # <<>> /\ p.used + 4 + w <= available
                  THEN [rows |-> [p.rows EXCEPT ![Len(p.rows)] = Append(@, layer[i])],
                        used |-> p.used + 4 + w]
                  ELSE [rows |-> Append(p.rows, <<layer[i]>>), used |-> w]
  IN Pack[Len(layer)].rows

\* The layers of a component, and its groups.
Arranged(part, g, directed) ==
  LET raw == IF directed THEN DirectedLayers(part, g)
             ELSE [layers |-> UndirectedLayers(part, Adjacency(g)), groups |-> <<>>]
  IN [raw EXCEPT !.layers = KeepGroupsTogether(ReduceCrossings(@, Adjacency(g)), raw.groups)]
-----------------------------------------------------------------------------
Count(s, P(_)) == Cardinality({i \in DOMAIN s : P(s[i])})
LayerOf(layers, n) == CHOOSE i \in DOMAIN layers : n \in ToSet(layers[i])
Contiguous(layer, S) ==
  \A i, j, k \in DOMAIN layer : i < j /\ j < k /\ layer[i] \in S /\ layer[k] \in S => layer[j] \in S

\* Of k edges one way and l back with one label, the most are drawn once.
Unified(g, drawn) ==
  \A t, h \in Nodes(g), w \in {e.weight : e \in ToSet(g.edges)} :
    LET k == Count(g.edges, LAMBDA e : e = [tail |-> t, head |-> h, weight |-> w])
        l == Count(g.edges, LAMBDA e : e = [tail |-> h, head |-> t, weight |-> w])
        Both(d) == d.label = w /\ {d.from, d.to} = {t, h}
    IN IF t = h THEN Count(drawn, Both) = k
       ELSE /\ Count(drawn, Both) = IF k < l THEN l ELSE k
            /\ Count(drawn, LAMBDA d : Both(d) /\ d.bidirectional) = IF k < l THEN k ELSE l

\* The longest chain of strong components that ends in that of n.
Depth(g, n) ==
  LET reach == ReachMap(g)
      Above(m) == {k \in Nodes(g) : m \in reach[k] /\ k \notin reach[m]}
      Deep[m \in Nodes(g)] ==
        IF Above(m) = {} THEN 0
        ELSE 1 + (CHOOSE d \in {Deep[k] : k \in Above(m)} : \A k \in Above(m) : Deep[k] <= d)
  IN Deep[n]

\* The layers of one part, drawn from h.
LayersKeep(part, h, directed, a) ==
  LET L(n)  == LayerOf(a.layers, n)
      width == [n \in Nodes(h) |-> 4 + n]
  IN /\ IsInjective(FlattenSeq(a.layers))
     /\ ToSet(FlattenSeq(a.layers)) = ToSet(part)
     /\ \A l \in DOMAIN a.layers :
          /\ a.layers[l] # <<>>
          /\ \A j \in DOMAIN a.groups : Contiguous(a.layers[l], a.groups[j])
          /\ LET rows == PackLayer(a.layers[l], width, 15)
             IN /\ FlattenSeq(rows) = a.layers[l]
                /\ \A r \in DOMAIN rows : Len(rows[r]) = 1 \/
                     FoldSeq(LAMBDA n, sum : width[n] + 4 + sum, 0, rows[r]) <= 15 + 4
     /\ IF directed THEN \A n \in ToSet(part) : L(n) = 1 + Depth(h, n)
        ELSE \A arc \in {b \in Arcs(h) : b[1] \in ToSet(part)} :
               L(arc[1]) - L(arc[2]) \in {-1, 0, 1}

(***************************************************************************)
(* Reciprocal edges of one label are matched as often as possible, those   *)
(* of different labels never, and an edge keeps its label.                 *)
(***************************************************************************)
LabelsKept(g) == Unified(g, UnifyReciprocalEdges(g, TRUE))

(***************************************************************************)
(* The arrangement, once reciprocal edges are matched (LabelsKept): the    *)
(* parts are the weak components, and a layer keeps its nodes through      *)
(* every sort.  Directed edges go down, but in a strong component, which   *)
(* stays together in one layer, as high as it can be; undirected ones      *)
(* never skip a layer.  Rows keep the order and fit.                       *)
(***************************************************************************)
LayersExact(g) ==
  \A directed \in BOOLEAN :
    LET drawn == UnifyReciprocalEdges(g, directed)
        h     == ArcsDrawn(g.size, drawn)
        parts == ToSet(WeakParts(Adjacency(h), Nodes(g)))
    IN /\ Len(drawn) <= Len(g.edges) /\ (directed => Arcs(h) = Arcs(g))
       /\ {ToSet(part) : part \in parts} = WeakComponents(g)
       /\ g.size > 0 => IsStronglyConnected(h) = (Cardinality(StrongComponents(h)) = 1)
       /\ \A part \in parts : LayersKeep(part, h, directed, Arranged(part, h, directed))
=============================================================================
