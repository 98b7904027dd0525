------------------------- MODULE Traversal_proofs --------------------------
(***************************************************************************)
(* Whatever the graph, the kind of traversal and the roots, each node that *)
(* the roots reach is yielded once (TraversalCovers) and in the order of   *)
(* its kind (TraversalOrdered).                                            *)
(*                                                                         *)
(* The loops of Traversal, FoldLeft over hops and over nodes and the       *)
(* recursive function of ExpandTop, are first shown to be runs of turns;   *)
(* Closure is then shown to be the least set closed under the steps.  The  *)
(* invariant, TraversalSound, is a conjunction of predicates on the values *)
(* of the variables, so that each is shown to survive a push, a node taken *)
(* and a node expanded apart from the state machine:                       *)
(*   Once      what is visited is pending or yielded, once                 *)
(*   Reached   the roots are visited, what is visited is reached           *)
(*   Done      of what is yielded or expanded, the next nodes are visited  *)
(*   Near      depth first: a node comes after one that leads to it        *)
(*   Layered   breadth first: the queue holds two layers, in order         *)
(*   Behind    post-order: what is left when n is done avoids n            *)
(***************************************************************************)
EXTENDS Traversal, Groundwork, SequenceTheorems

-----------------------------------------------------------------------------
(***************************************************************************)
(* The turns of the loops of a traversal: over the edges of a node, whose  *)
(* other ends are listed, and over nodes to be pushed.                     *)
(***************************************************************************)
VisitTurn(ns, hop, n) == IF hop[1] = n /\ hop[2] # n THEN Append(ns, hop[2]) ELSE ns

IsNew(V, ns, i) == ns[i] \notin V /\ \A j \in 1..(i - 1) : ns[j] # ns[i]

PushTurn(p, i, V, ns) == IF IsNew(V, ns, i) THEN Append(p, Unexpanded(ns[i])) ELSE p

TurnOf(loop, X, s, x) ==
  IF loop = "visit" THEN VisitTurn(s, x, X) ELSE PushTurn(s, x, X.visited, X.ns)

(***************************************************************************)
(* it[s] is the outcome of the turns at the positions s of q, a set.       *)
(***************************************************************************)
Turns(it, loop, X, b, q) ==
  it = [s \in SUBSET DOMAIN q |->
          IF s = {} THEN b ELSE TurnOf(loop, X, it[s \ {Max(s)}], q[Max(s)])]

(***************************************************************************)
(* f[k] is the outcome of the first k turns.                               *)
(***************************************************************************)
Runs(f, loop, X, b, q) ==
  /\ f[0] = b
  /\ \A k \in 1..Len(q) : f[k] = TurnOf(loop, X, f[k - 1], q[k])

(***************************************************************************)
(* r is the outcome of all turns.                                          *)
(***************************************************************************)
RunsTo(r, loop, X, b, q) == \E f : Runs(f, loop, X, b, q) /\ f[Len(q)] = r

(***************************************************************************)
(* A set of positions without the last of them is smaller.                 *)
(***************************************************************************)
LEMMA WithoutLast ==
  ASSUME NEW n \in Nat, NEW s \in SUBSET (1..n)
  PROVE  /\ Cardinality(s) \in Nat /\ Cardinality(s) <= n
         /\ Cardinality(s) = 0 <=> s = {}
         /\ s # {} => /\ Max(s) \in s /\ s \ {Max(s)} \in SUBSET (1..n)
                      /\ Cardinality(s \ {Max(s)}) = Cardinality(s) - 1
  <1>1. IsFiniteSet(1..n) /\ Cardinality(1..n) = n
    BY FS_Interval
  <1>2. IsFiniteSet(s) /\ Cardinality(s) <= n
    BY <1>1, FS_Subset
  <1>3. Cardinality(s) \in Nat /\ (Cardinality(s) = 0 <=> s = {})
    BY <1>2, FS_CardinalityType, FS_EmptySet
  <1>4. ASSUME s # {} PROVE Max(s) \in s
    BY <1>4, LastRound
  <1>5. ASSUME s # {} PROVE Cardinality(s \ {Max(s)}) = Cardinality(s) - 1
    BY <1>2, <1>4, <1>5, FS_RemoveElement
  <1> QED
    BY <1>2, <1>3, <1>4, <1>5

(***************************************************************************)
(* Every loop has an outcome.                                              *)
(***************************************************************************)
LEMMA TurnsExist ==
  ASSUME NEW loop, NEW X, NEW b, NEW q, NEW len \in Nat, DOMAIN q = 1..len
  PROVE  \E it : Turns(it, loop, X, b, q)
  <1> DEFINE D == SUBSET (1..len)
             G(f, s) == IF s = {} THEN b ELSE TurnOf(loop, X, f[s \ {Max(s)}], q[Max(s)])
             N == {k \in 0..len : \E f : f = [s \in D |-> f[s]] /\
                                  \A s \in D : Cardinality(s) <= k => f[s] = G(f, s)}
  <1>1. 0 \in N
    <2> DEFINE f == [s \in D |-> b]
    <2>1. f = [s \in D |-> f[s]]
      OBVIOUS
    <2>2. ASSUME NEW s \in D, Cardinality(s) <= 0 PROVE f[s] = G(f, s)
      <3>1. Cardinality(s) \in Nat /\ (Cardinality(s) = 0 <=> s = {})
        BY WithoutLast
      <3>2. s = {}
        BY <2>2, <3>1
      <3> QED
        BY <3>2
    <2> HIDE DEF f, G, D
    <2> QED
      BY <2>1, <2>2
  <1>2. \A k \in 1..len : k - 1 \in N => k \in N
    <2>1. SUFFICES ASSUME NEW k \in 1..len, k - 1 \in N PROVE k \in N
      OBVIOUS
    <2>2. PICK f : \A s \in D : Cardinality(s) <= k - 1 => f[s] = G(f, s)
      BY <2>1
    <2> DEFINE g == [s \in D |-> G(f, s)]
    <2>3. g = [s \in D |-> g[s]]
      OBVIOUS
    <2>4. ASSUME NEW s \in D, Cardinality(s) <= k PROVE g[s] = G(g, s)
      <3>1. g[s] = G(f, s)
        OBVIOUS
      <3>2. CASE s = {}
        BY <3>1, <3>2
      <3>3. CASE s # {}
        <4>1. s \ {Max(s)} \in D /\ Cardinality(s \ {Max(s)}) <= k - 1
          BY <2>4, <3>3, WithoutLast
        <4>2. g[s \ {Max(s)}] = f[s \ {Max(s)}]
          BY <2>2, <4>1
        <4> QED
          BY <3>1, <3>3, <4>2
      <3> QED
        BY <3>2, <3>3
    <2> HIDE DEF G, g, D
    <2>5. k \in 0..len
      BY <2>1
    <2> QED
      BY <2>3, <2>4, <2>5
  <1>3. len \in N
    <2>1. len \in 0..len
      OBVIOUS
    <2> HIDE DEF N, G, D
    <2> QED
      BY <1>1, <1>2, <2>1, RoundInduction
  <1>4. PICK f : f = [s \in D |-> f[s]] /\ \A s \in D : Cardinality(s) <= len => f[s] = G(f, s)
    BY <1>3
  <1>5. \A s \in D : f[s] = G(f, s)
    BY <1>4, WithoutLast
  <1>6. f = [s \in D |-> G(f, s)]
    <2> HIDE DEF G, D
    <2> QED
      BY <1>4, <1>5
  <1>7. Turns(f, loop, X, b, q)
    BY <1>6, Zenon DEF Turns
  <1> QED
    BY <1>7

(***************************************************************************)
(* Its outcome is that of one turn after the other.                        *)
(***************************************************************************)
LEMMA TurnsRun ==
  ASSUME NEW loop, NEW X, NEW b, NEW q, NEW len \in Nat, DOMAIN q = 1..len, Len(q) = len,
         NEW it, Turns(it, loop, X, b, q)
  PROVE  RunsTo(it[DOMAIN q], loop, X, b, q)
  <1> DEFINE f == [k \in 0..len |-> it[1..k]]
             T(h, x) == TurnOf(loop, X, h, x)
  <1>0. \A s \in SUBSET (1..len) : it[s] = IF s = {} THEN b ELSE T(it[s \ {Max(s)}], q[Max(s)])
    BY Zenon DEF Turns
  <1> HIDE DEF T
  <1>1. it[{}] = b
    BY <1>0
  <1>2. ASSUME NEW k \in 1..len PROVE it[1..k] = T(it[1..(k - 1)], q[k])
    <2>1. 1..k \in SUBSET (1..len) /\ 1..k # {} /\ Max(1..k) = k /\ (1..k) \ {k} = 1..(k - 1)
      BY RoundsSoFar
    <2> QED
      BY <1>0, <2>1
  <1>3. 1..0 = {} /\ 0 \in 0..len /\ len \in 0..len /\ \A k \in 1..len : k \in 0..len /\ k - 1 \in 0..len
    OBVIOUS
  <1>4. \A k \in 0..len : f[k] = it[1..k]
    OBVIOUS
  <1> HIDE DEF f
  <1>5. f[0] = b /\ f[len] = it[DOMAIN q]
    BY <1>1, <1>3, <1>4
  <1>6. \A k \in 1..len : f[k] = T(f[k - 1], q[k])
    BY <1>2, <1>3, <1>4
  <1>7. Runs(f, loop, X, b, q)
    BY <1>5, <1>6 DEF Runs, T
  <1> QED
    BY <1>5, <1>7 DEF RunsTo

(***************************************************************************)
(* The listing of the nodes ahead.                                         *)
(***************************************************************************)
LEMMA AheadRuns ==
  ASSUME NEW n, NEW len \in Nat, DOMAIN Hops = 1..len, Len(Hops) = len
  PROVE  RunsTo(Ahead(n), "visit", n, <<>>, Hops)
  <1> DEFINE q == Hops
             T(s, x) == VisitTurn(s, x, n)
             Eq(i) == i = [s \in SUBSET DOMAIN q |->
                             IF s = {} THEN <<>> ELSE T(i[s \ {Max(s)}], q[Max(s)])]
             it == CHOOSE i : Eq(i)
  <1>1. \A h, x : TurnOf("visit", n, h, x) = T(h, x)
    BY DEF TurnOf
  <1>2. Ahead(n) = it[DOMAIN q]
    BY Zenon DEF Ahead, VisitTurn, FoldLeft, MapThenFoldSet
  <1>3. DOMAIN q = 1..len /\ Len(q) = len
    OBVIOUS
  <1> HIDE DEF q, T
  <1>4. \A i : Eq(i) <=> Turns(i, "visit", n, <<>>, q)
    BY <1>1, Zenon DEF Turns
  <1>5. Eq(it)
    <2> HIDE DEF Eq
    <2> QED
      BY <1>3, <1>4, TurnsExist
  <1> HIDE DEF Eq, it
  <1>6. Turns(it, "visit", n, <<>>, q)
    BY <1>4, <1>5
  <1>7. RunsTo(it[DOMAIN q], "visit", n, <<>>, q)
    BY <1>3, <1>6, TurnsRun
  <1> QED
    BY <1>2, <1>7 DEF q

(***************************************************************************)
(* The stack or queue after nodes have been pushed.                        *)
(***************************************************************************)
LEMMA PushRuns ==
  ASSUME NEW run, NEW ns, NEW len \in Nat, DOMAIN ns = 1..len, Len(ns) = len
  PROVE  RunsTo(PushNew(run, ns).pending, "push", [visited |-> run.visited, ns |-> ns],
                run.pending, [i \in 1..len |-> i])
  <1> DEFINE q == [i \in DOMAIN ns |-> i]
             X == [visited |-> run.visited, ns |-> ns]
             b == run.pending
             T(s, x) == PushTurn(s, x, run.visited, ns)
             Eq(i) == i = [s \in SUBSET DOMAIN q |->
                             IF s = {} THEN b ELSE T(i[s \ {Max(s)}], q[Max(s)])]
             it == CHOOSE i : Eq(i)
  <1>1. \A h, x : TurnOf("push", X, h, x) = T(h, x)
    BY DEF TurnOf
  <1>0. PushNew(run, ns) = [visited |-> run.visited \cup ToSet(ns), pending |-> it[DOMAIN q]]
    BY Zenon DEF PushNew, PushTurn, IsNew, FoldLeftDomain, FoldLeft, MapThenFoldSet
  <1>2. PushNew(run, ns).pending = it[DOMAIN q]
    <2> DEFINE last == it[DOMAIN q]
    <2>1. PushNew(run, ns) = [visited |-> run.visited \cup ToSet(ns), pending |-> last]
      BY <1>0
    <2> HIDE DEF last
    <2>2. PushNew(run, ns).pending = last
      BY <2>1
    <2> QED
      BY <2>2 DEF last
  <1>3. DOMAIN q = 1..len /\ Len(q) = len /\ q = [i \in 1..len |-> i]
    OBVIOUS
  <1> HIDE DEF q, T, X, b
  <1>4. \A i : Eq(i) <=> Turns(i, "push", X, b, q)
    BY <1>1, ZenonT(30) DEF Turns
  <1>5. Eq(it)
    <2> HIDE DEF Eq
    <2> QED
      BY <1>3, <1>4, TurnsExist
  <1> HIDE DEF Eq, it
  <1>6. Turns(it, "push", X, b, q)
    BY <1>4, <1>5
  <1>7. RunsTo(it[DOMAIN q], "push", X, b, q)
    BY <1>3, <1>6, TurnsRun
  <1> QED
    BY <1>2, <1>3, <1>7 DEF X, b

-----------------------------------------------------------------------------
(***************************************************************************)
(* The graph, and the hops over its edges.                                 *)
(***************************************************************************)
GraphTyped ==
  /\ graph \in [size : Nat, edges : Seq([tail : Nodes(graph), head : Nodes(graph), weight : Weights])]
  /\ view \in {"directed", "undirected"}

LEMMA GraphElim ==
  ASSUME GraphTyped
  PROVE  /\ graph.size \in Nat /\ Nodes(graph) = 1..graph.size
         /\ Len(graph.edges) \in Nat /\ EdgeIxs(graph) = 1..Len(graph.edges)
         /\ \A e \in EdgeIxs(graph) : Tail_(graph, e) \in Nodes(graph) /\ Head_(graph, e) \in Nodes(graph)
  <1> DEFINE N == Nodes(graph)
             F == [tail : N, head : N, weight : Weights]
             es == graph.edges
  <1>1. graph.size \in Nat /\ es \in Seq(F)
    BY DEF GraphTyped
  <1>2. N = 1..graph.size /\ EdgeIxs(graph) = DOMAIN es
    BY DEF Nodes, EdgeIxs
  <1>3. \A x \in F : x.tail \in N /\ x.head \in N
    OBVIOUS
  <1> HIDE DEF F, es
  <1>4. Len(es) \in Nat /\ DOMAIN es = 1..Len(es) /\ \A e \in DOMAIN es : es[e] \in F
    BY <1>1
  <1>5. \A e \in DOMAIN es : Tail_(graph, e) \in N /\ Head_(graph, e) \in N
    BY <1>3, <1>4 DEF Tail_, Head_, es
  <1> QED
    BY <1>1, <1>2, <1>4, <1>5 DEF es

Pairs(h, a, b) == h = <<a, b>>

(***************************************************************************)
(* The hops are the steps.                                                 *)
(***************************************************************************)
LEMMA HopsAreSteps ==
  ASSUME GraphTyped
  PROVE  /\ Hops \in Seq(Nodes(graph) \X Nodes(graph))
         /\ Len(Hops) \in Nat /\ DOMAIN Hops = 1..Len(Hops)
         /\ \A a, b : <<a, b>> \in Steps <=> \E k \in 1..Len(Hops) : Hops[k] = <<a, b>>
         /\ \A k \in 1..Len(Hops) : Hops[k] = <<Hops[k][1], Hops[k][2]>>
  <1> DEFINE N == Nodes(graph)
             E == EdgeIxs(graph)
             len == Len(graph.edges)
             forth == [e \in E |-> <<Tail_(graph, e), Head_(graph, e)>>]
             back == [e \in E |-> <<Head_(graph, e), Tail_(graph, e)>>]
  <1>1. len \in Nat /\ E = 1..len /\ \A e \in E : Tail_(graph, e) \in N /\ Head_(graph, e) \in N
    BY GraphElim
  <1>2. /\ forth \in Seq(N \X N) /\ Len(forth) = len
        /\ back \in Seq(N \X N) /\ Len(back) = len
    BY <1>1
  <1>3. /\ \A e \in 1..len : forth[e] = <<Tail_(graph, e), Head_(graph, e)>>
        /\ \A e \in 1..len : back[e] = <<Head_(graph, e), Tail_(graph, e)>>
    BY <1>1
  <1>4. Hops = IF view = "directed" THEN forth ELSE forth \o back
    BY Zenon DEF Hops
  <1>5. \A a, b : <<a, b>> \in Arcs(graph) <=> \E e \in 1..len : Tail_(graph, e) = a /\ Head_(graph, e) = b
    BY <1>1 DEF Arcs
  <1>6. \A a, b : <<a, b>> \in Steps <=> \/ <<a, b>> \in Arcs(graph)
                                         \/ view # "directed" /\ <<b, a>> \in Arcs(graph)
    <2>1. \A p \in Arcs(graph) : p = <<p[1], p[2]>>
      BY DEF Arcs
    <2>2. \A a, b : <<a, b>> \in Symmetric(Arcs(graph)) <=> <<a, b>> \in Arcs(graph) \/ <<b, a>> \in Arcs(graph)
      BY <2>1 DEF Symmetric
    <2> QED
      BY <2>2 DEF Steps
  <1>9. /\ \A e \in 1..len : \A a, b : Pairs(forth[e], a, b) <=> Tail_(graph, e) = a /\ Head_(graph, e) = b
        /\ \A e \in 1..len : \A a, b : Pairs(back[e], a, b) <=> Head_(graph, e) = a /\ Tail_(graph, e) = b
    BY <1>3 DEF Pairs
  <1>10. \A e \in 1..len : forth[e] = <<forth[e][1], forth[e][2]>> /\ back[e] = <<back[e][1], back[e][2]>>
    BY <1>3
  <1> HIDE DEF forth, back, len, N, E
  <1>7. CASE view = "directed"
    <2>1. Hops = forth
      BY <1>4, <1>7
    <2>2. \A a, b : <<a, b>> \in Steps <=> \E k \in 1..len : Pairs(forth[k], a, b)
      <3> TAKE a, b
      <3>1. <<a, b>> \in Steps <=> \E e \in 1..len : Tail_(graph, e) = a /\ Head_(graph, e) = b
        BY <1>5, <1>6, <1>7
      <3>2. \A e \in 1..len : Pairs(forth[e], a, b) <=> Tail_(graph, e) = a /\ Head_(graph, e) = b
        BY <1>9
      <3> QED
        BY <3>1, <3>2, Zenon
    <2>3. DOMAIN forth = 1..len
      BY <1>1, <1>2
    <2> QED
      BY <1>1, <1>2, <1>10, <2>1, <2>2, <2>3 DEF N, Pairs
  <1>8. CASE view # "directed"
    <2>1. Hops = forth \o back
      BY <1>4, <1>8
    <2>2. /\ Hops \in Seq(N \X N) /\ Len(Hops) = len + len
          /\ \A k \in 1..len : Hops[k] = forth[k] /\ k + len \in 1..(len + len) /\ Hops[k + len] = back[k]
      <3> DEFINE P == N \X N
      <3>1. forth \in Seq(P) /\ back \in Seq(P)
        BY <1>2
      <3> HIDE DEF P
      <3>2. /\ forth \o back \in Seq(P) /\ Len(forth \o back) = len + len
            /\ \A k \in 1..(len + len) : k <= len => (forth \o back)[k] = forth[k]
            /\ \A k \in 1..(len + len) : ~(k <= len) => (forth \o back)[k] = back[k - len]
        <4>1. /\ forth \o back \in Seq(P)
              /\ Len(forth \o back) = Len(forth) + Len(back)
              /\ \A k \in 1..(Len(forth) + Len(back)) :
                   (forth \o back)[k] = IF k <= Len(forth) THEN forth[k] ELSE back[k - Len(forth)]
          BY <3>1, ConcatProperties, Zenon
        <4>2. Len(forth) = len /\ Len(back) = len
          BY <1>2
        <4> QED
          BY <4>1, <4>2
      <3>3. \A k \in 1..len : /\ k \in 1..(len + len) /\ k <= len
                              /\ k + len \in 1..(len + len) /\ ~(k + len <= len) /\ k + len - len = k
        BY <1>1
      <3>4. ASSUME NEW k \in 1..len
            PROVE  Hops[k] = forth[k] /\ k + len \in 1..(len + len) /\ Hops[k + len] = back[k]
        <4>1. /\ k \in 1..(len + len) /\ k <= len
              /\ k + len \in 1..(len + len) /\ ~(k + len <= len) /\ k + len - len = k
          BY <3>3
        <4>2. (forth \o back)[k] = forth[k]
          BY <3>2, <4>1
        <4>3. (forth \o back)[k + len] = back[k]
          <5> DEFINE x == k + len
          <5>1. x \in 1..(len + len) /\ ~(x <= len) /\ x - len = k
            BY <1>1, <4>1
          <5> HIDE DEF x
          <5>2. (forth \o back)[x] = back[x - len]
            BY <3>2, <5>1
          <5> QED
            BY <5>1, <5>2, Zenon DEF x
        <4> QED
          BY <2>1, <4>1, <4>2, <4>3
      <3>5. Hops \in Seq(P) /\ Len(Hops) = len + len
        BY <2>1, <3>2
      <3> QED
        BY <3>4, <3>5 DEF P
    <2>3. \A k \in 1..(len + len) : k \in 1..len \/ \E e \in 1..len : k = e + len
      <3>1. \A k \in 1..(len + len) : k \notin 1..len => k - len \in 1..len /\ k = (k - len) + len
        BY <1>1
      <3> QED
        BY <3>1
    <2>4. ASSUME NEW a, NEW b PROVE <<a, b>> \in Steps <=> \E k \in 1..(len + len) : Pairs(Hops[k], a, b)
      <3>1. <<a, b>> \in Steps <=> \E e \in 1..len : \/ Tail_(graph, e) = a /\ Head_(graph, e) = b
                                                     \/ Tail_(graph, e) = b /\ Head_(graph, e) = a
        BY <1>5, <1>6, <1>8
      <3>2. ASSUME NEW e \in 1..len
            PROVE  /\ Pairs(Hops[e], a, b) <=> Tail_(graph, e) = a /\ Head_(graph, e) = b
                   /\ e \in 1..(len + len)
                   /\ Pairs(Hops[e + len], a, b) <=> Head_(graph, e) = a /\ Tail_(graph, e) = b
                   /\ e + len \in 1..(len + len)
        <4>1. Hops[e] = forth[e] /\ Hops[e + len] = back[e] /\ e + len \in 1..(len + len)
          BY <2>2
        <4>2. Pairs(forth[e], a, b) <=> Tail_(graph, e) = a /\ Head_(graph, e) = b
          BY <1>9
        <4>3. Pairs(back[e], a, b) <=> Head_(graph, e) = a /\ Tail_(graph, e) = b
          BY <1>9
        <4>4. e \in 1..(len + len)
          BY <1>1
        <4> QED
          BY <4>1, <4>2, <4>3, <4>4, Zenon
      <3> QED
        BY <2>3, <3>1, <3>2
    <2>5. \A k \in 1..(len + len) : Hops[k] = <<Hops[k][1], Hops[k][2]>>
      BY <1>10, <2>2, <2>3
    <2>6. len + len \in Nat /\ DOMAIN Hops = 1..(len + len)
      BY <1>1, <2>2
    <2>7. Hops \in Seq(Nodes(graph) \X Nodes(graph)) /\ Len(Hops) = len + len
      BY <2>2 DEF N
    <2>8. \A a, b : <<a, b>> \in Steps <=> \E k \in 1..(len + len) : Hops[k] = <<a, b>>
      BY <2>4, Zenon DEF Pairs
    <2> QED
      BY <2>5, <2>6, <2>7, <2>8, Zenon
  <1> QED
    BY <1>7, <1>8

(***************************************************************************)
(* Ahead(n) lists what is one step from n.                                 *)
(***************************************************************************)
LEMMA AheadLists ==
  ASSUME GraphTyped, NEW n
  PROVE  /\ Ahead(n) \in Seq(Nodes(graph))
         /\ \A m : m \in ToSet(Ahead(n)) <=> <<n, m>> \in Steps /\ m # n
  <1> DEFINE N == Nodes(graph)
             len == Len(Hops)
             Listed(ns, k) == /\ ns \in Seq(N)
                              /\ \A m : m \in ToSet(ns) <=> m # n /\ \E j \in 1..k : Hops[j] = <<n, m>>
  <1>1. /\ Hops \in Seq(N \X N) /\ len \in Nat /\ DOMAIN Hops = 1..len
        /\ \A a, b : <<a, b>> \in Steps <=> \E k \in 1..len : Hops[k] = <<a, b>>
        /\ \A k \in 1..len : Hops[k] = <<Hops[k][1], Hops[k][2]>>
    BY HopsAreSteps
  <1>2. RunsTo(Ahead(n), "visit", n, <<>>, Hops)
    BY <1>1, AheadRuns
  <1>3. PICK f : Runs(f, "visit", n, <<>>, Hops) /\ f[len] = Ahead(n)
    BY <1>2 DEF RunsTo
  <1>4. f[0] = <<>> /\ \A k \in 1..len : f[k] = VisitTurn(f[k - 1], Hops[k], n)
    BY <1>3 DEF Runs, TurnOf
  <1> DEFINE K == {k \in 0..len : Listed(f[k], k)}
  <1>5. 0 \in K
    <2>1. f[0] \in Seq(N) /\ ToSet(f[0]) = {}
      BY <1>4 DEF ToSet
    <2>2. 0 \in 0..len /\ 1..0 = {}
      BY <1>1
    <2> HIDE DEF N, len
    <2> QED
      BY <2>1, <2>2
  <1>6. \A k \in 1..len : k - 1 \in K => k \in K
    <2> SUFFICES ASSUME NEW k \in 1..len, k - 1 \in K PROVE k \in K
      OBVIOUS
    <2>0. k \in 0..len
      BY <1>1
    <2> SUFFICES Listed(f[k], k)
      BY <2>0
    <2> DEFINE u == f[k - 1]
               m == Hops[k][2]
    <2>1. u \in Seq(N) /\ \A x : x \in ToSet(u) <=> x # n /\ \E j \in 1..(k - 1) : Hops[j] = <<n, x>>
      OBVIOUS
    <2>2. f[k] = IF Hops[k][1] = n /\ m # n THEN Append(u, m) ELSE u
      BY <1>4 DEF VisitTurn
    <2>3. Hops[k] = <<Hops[k][1], m>> /\ m \in N
      BY <1>1
    <2>4. \A j : j \in 1..k <=> j \in 1..(k - 1) \/ j = k
      BY <1>1
    <2>5. \A x : x \in ToSet(Append(u, m)) <=> x \in ToSet(u) \/ x = m
      <3> HIDE DEF u, m, N, K
      <3>1. /\ Len(u) \in Nat /\ DOMAIN u = 1..Len(u) /\ DOMAIN Append(u, m) = 1..(Len(u) + 1)
            /\ \A i \in 1..Len(u) : Append(u, m)[i] = u[i]
            /\ Append(u, m)[Len(u) + 1] = m
        BY <2>1, <2>3
      <3>2. \A i : i \in 1..(Len(u) + 1) <=> i \in 1..Len(u) \/ i = Len(u) + 1
        BY <3>1
      <3> QED
        BY <3>1, <3>2 DEF ToSet
    <2> HIDE DEF u, m, N, K
    <2>6. CASE Hops[k][1] = n /\ m # n
      <3>1. f[k] \in Seq(N)
        BY <2>1, <2>2, <2>3, <2>6
      <3>2. \A x : Hops[k] = <<n, x>> <=> x = m
        BY <2>3, <2>6
      <3> QED
        BY <2>1, <2>2, <2>4, <2>5, <2>6, <3>1, <3>2
    <2>7. CASE ~(Hops[k][1] = n /\ m # n)
      <3>1. \A x : x # n => Hops[k] # <<n, x>>
        BY <2>3, <2>7
      <3> QED
        BY <2>1, <2>2, <2>4, <2>7, <3>1
    <2> QED
      BY <2>6, <2>7
  <1>7. len \in K
    <2> HIDE DEF K, len
    <2>1. \A k \in 0..len : k \in K
      BY <1>1, <1>5, <1>6, RoundInduction
    <2>2. len \in 0..len
      BY <1>1
    <2> QED
      BY <2>1, <2>2
  <1>8. Listed(Ahead(n), len)
    BY <1>3, <1>7
  <1> QED
    BY <1>1, <1>8

-----------------------------------------------------------------------------
(***************************************************************************)
(* q is p with those of ns pushed that are not in V, ns taken up to k.     *)
(***************************************************************************)
FramesOf(S) == [node : S, expanded : BOOLEAN]

PushedUpTo(S, V, p, ns, k, q) ==
  /\ q \in Seq(FramesOf(S)) /\ Len(p) <= Len(q)
  /\ \A i \in 1..Len(p) : q[i] = p[i]
  /\ \A i \in 1..Len(q) : i > Len(p) => /\ ~q[i].expanded /\ q[i].node \notin V
                                        /\ \E j \in 1..k : ns[j] = q[i].node
  /\ \A i, j \in 1..Len(q) : i > Len(p) /\ j > Len(p) /\ q[i].node = q[j].node => i = j
  /\ \A j \in 1..k : ns[j] \notin V => \E i \in 1..Len(q) : i > Len(p) /\ q[i].node = ns[j]

LEMMA PushedMore ==
  ASSUME NEW S, NEW V, NEW p \in Seq(FramesOf(S)), NEW ns \in Seq(S), NEW k \in 1..Len(ns),
         NEW q, PushedUpTo(S, V, p, ns, k - 1, q)
  PROVE  PushedUpTo(S, V, p, ns, k, PushTurn(q, k, V, ns))
  <1> DEFINE h == PushTurn(q, k, V, ns)
             m == ns[k]
  <1>1. /\ q \in Seq(FramesOf(S)) /\ Len(p) <= Len(q)
        /\ \A i \in 1..Len(p) : q[i] = p[i]
        /\ \A i \in 1..Len(q) : i > Len(p) => /\ ~q[i].expanded /\ q[i].node \notin V
                                              /\ \E j \in 1..(k - 1) : ns[j] = q[i].node
        /\ \A i, j \in 1..Len(q) : i > Len(p) /\ j > Len(p) /\ q[i].node = q[j].node => i = j
        /\ \A j \in 1..(k - 1) : ns[j] \notin V => \E i \in 1..Len(q) : i > Len(p) /\ q[i].node = ns[j]
    BY DEF PushedUpTo
  <1>2. Len(p) \in Nat /\ Len(q) \in Nat /\ m \in S /\ k \in Nat
    BY <1>1
  <1>3. \A j : j \in 1..k <=> j \in 1..(k - 1) \/ j = k
    BY <1>2
  <1>4. CASE IsNew(V, ns, k)
    <2>1. h = Append(q, Unexpanded(m)) /\ m \notin V /\ \A j \in 1..(k - 1) : ns[j] # m
      BY <1>4 DEF PushTurn, IsNew
    <2>2. Unexpanded(m) \in FramesOf(S) /\ Unexpanded(m).node = m /\ ~Unexpanded(m).expanded
      BY <1>2 DEF Unexpanded, FramesOf
    <2> DEFINE l == Len(q) + 1
    <2>3. /\ h \in Seq(FramesOf(S)) /\ Len(h) = l /\ h[l] = Unexpanded(m)
          /\ \A i \in 1..Len(q) : h[i] = q[i]
          /\ \A i : i \in 1..l <=> i \in 1..Len(q) \/ i = l
          /\ l > Len(p) /\ l \notin 1..Len(q) /\ Len(p) <= l
          /\ \A i \in 1..Len(p) : i \in 1..Len(q)
      BY <1>1, <1>2, <2>1, <2>2
    <2> HIDE DEF l, h, m
    <2>4. \A i \in 1..l : i > Len(p) => /\ ~h[i].expanded /\ h[i].node \notin V
                                        /\ \E j \in 1..k : ns[j] = h[i].node
      BY <1>1, <1>3, <2>1, <2>2, <2>3 DEF m
    <2>5. ASSUME NEW i \in 1..Len(q), i > Len(p) PROVE q[i].node # m
      <3>1. PICK j \in 1..(k - 1) : ns[j] = q[i].node
        BY <1>1, <2>5, Zenon
      <3> QED
        BY <2>1, <3>1, Zenon
    <2>6. \A i, j \in 1..l : i > Len(p) /\ j > Len(p) /\ h[i].node = h[j].node => i = j
      <3>1. \A i \in 1..Len(q) : i > Len(p) => h[i].node = q[i].node /\ h[i].node # h[l].node
        BY <2>2, <2>3, <2>5
      <3>2. ASSUME NEW i \in 1..l, NEW j \in 1..l, i > Len(p), j > Len(p), h[i].node = h[j].node
            PROVE  i = j
        <4>1. (i = l \/ i \in 1..Len(q)) /\ (j = l \/ j \in 1..Len(q))
          BY <2>3
        <4>2. CASE i \in 1..Len(q) /\ j \in 1..Len(q)
          BY <1>1, <3>1, <3>2, <4>2
        <4>3. CASE ~(i \in 1..Len(q) /\ j \in 1..Len(q))
          BY <3>1, <3>2, <4>1, <4>3
        <4> QED
          BY <4>2, <4>3
      <3> QED
        BY <3>2
    <2>7. \A j \in 1..k : ns[j] \notin V => \E i \in 1..l : i > Len(p) /\ h[i].node = ns[j]
      <3>1. ASSUME NEW j \in 1..(k - 1), ns[j] \notin V
            PROVE  \E i \in 1..l : i > Len(p) /\ h[i].node = ns[j]
        <4>1. PICK i \in 1..Len(q) : i > Len(p) /\ q[i].node = ns[j]
          BY <1>1, <3>1
        <4>2. i \in 1..l /\ h[i] = q[i]
          BY <2>3
        <4> QED
          BY <4>1, <4>2
      <3>2. l \in 1..l /\ h[l].node = ns[k]
        BY <2>2, <2>3 DEF m
      <3> QED
        BY <1>3, <2>3, <3>1, <3>2
    <2>8. \A i \in 1..Len(p) : h[i] = p[i]
      BY <1>1, <2>3
    <2> QED
      BY <2>3, <2>4, <2>6, <2>7, <2>8 DEF PushedUpTo, h
  <1>5. CASE ~IsNew(V, ns, k)
    <2>1. h = q /\ (m \in V \/ \E j \in 1..(k - 1) : ns[j] = m)
      BY <1>5 DEF PushTurn, IsNew
    <2> HIDE DEF h
    <2>2. \A j \in 1..k : ns[j] \notin V => \E i \in 1..Len(q) : i > Len(p) /\ q[i].node = ns[j]
      BY <1>1, <1>3, <2>1
    <2>3. \A i \in 1..Len(q) : i > Len(p) => /\ ~q[i].expanded /\ q[i].node \notin V
                                             /\ \E j \in 1..k : ns[j] = q[i].node
      BY <1>1, <1>3
    <2> QED
      BY <1>1, <2>1, <2>2, <2>3 DEF PushedUpTo, h
  <1> QED
    BY <1>4, <1>5

(***************************************************************************)
(* What PushNew makes of V and p.                                          *)
(***************************************************************************)
Pushed(S, V, p, ns, W, q) ==
  /\ \A x : x \in W <=> x \in V \/ x \in ToSet(ns)
  /\ q \in Seq(FramesOf(S)) /\ Len(p) <= Len(q)
  /\ \A i \in 1..Len(p) : q[i] = p[i]
  /\ \A i \in 1..Len(q) : i > Len(p) => ~q[i].expanded /\ q[i].node \notin V /\ q[i].node \in ToSet(ns)
  /\ \A i, j \in 1..Len(q) : i > Len(p) /\ j > Len(p) /\ q[i].node = q[j].node => i = j
  /\ \A x \in ToSet(ns) : x \notin V => \E i \in 1..Len(q) : i > Len(p) /\ q[i].node = x

LEMMA PushNewPushes ==
  ASSUME NEW S, NEW V, NEW p \in Seq(FramesOf(S)), NEW ns \in Seq(S),
         NEW run, run.visited = V, run.pending = p
  PROVE  /\ Pushed(S, V, p, ns, PushNew(run, ns).visited, PushNew(run, ns).pending)
         /\ PushNew(run, ns) = [visited |-> PushNew(run, ns).visited, pending |-> PushNew(run, ns).pending]
  <1> DEFINE len == Len(ns)
             X == [visited |-> V, ns |-> ns]
             q == [i \in 1..len |-> i]
             r == PushNew(run, ns).pending
  <1>1. len \in Nat /\ DOMAIN ns = 1..len /\ Len(q) = len /\ \A k \in 1..len : q[k] = k
    OBVIOUS
  <1>2. RunsTo(r, "push", X, p, q)
    BY <1>1, PushRuns
  <1> HIDE DEF r, q
  <1>3. PICK f : Runs(f, "push", X, p, q) /\ f[len] = r
    BY <1>1, <1>2 DEF RunsTo
  <1>4. f[0] = p /\ \A k \in 1..len : f[k] = PushTurn(f[k - 1], k, V, ns)
    BY <1>1, <1>3 DEF Runs, TurnOf
  <1> DEFINE K == {k \in 0..len : PushedUpTo(S, V, p, ns, k, f[k])}
  <1>5. 0 \in K
    BY <1>1, <1>4 DEF PushedUpTo
  <1>6. \A k \in 1..len : k - 1 \in K => k \in K
    <2> SUFFICES ASSUME NEW k \in 1..len, PushedUpTo(S, V, p, ns, k - 1, f[k - 1])
                 PROVE  PushedUpTo(S, V, p, ns, k, f[k])
      BY <1>1
    <2> QED
      BY <1>4, PushedMore
  <1>7. len \in K
    <2> HIDE DEF K, len
    <2>1. \A k \in 0..len : k \in K
      BY <1>1, <1>5, <1>6, RoundInduction
    <2>2. len \in 0..len
      BY <1>1
    <2> QED
      BY <2>1, <2>2
  <1>8. PushedUpTo(S, V, p, ns, len, r)
    BY <1>3, <1>7
  <1>9. \A x : x \in ToSet(ns) <=> \E j \in 1..len : ns[j] = x
    BY <1>1 DEF ToSet
  <1>10. PushNew(run, ns).visited = V \cup ToSet(ns)
    BY DEF PushNew
  <1>11. PushNew(run, ns) = [visited |-> PushNew(run, ns).visited, pending |-> PushNew(run, ns).pending]
    BY Zenon DEF PushNew
  <1> HIDE DEF len
  <1>12. Pushed(S, V, p, ns, PushNew(run, ns).visited, r)
    <2>1. /\ r \in Seq(FramesOf(S)) /\ Len(p) <= Len(r)
          /\ \A i \in 1..Len(p) : r[i] = p[i]
          /\ \A i \in 1..Len(r) : i > Len(p) => /\ ~r[i].expanded /\ r[i].node \notin V
                                                /\ \E j \in 1..len : ns[j] = r[i].node
          /\ \A i, j \in 1..Len(r) : i > Len(p) /\ j > Len(p) /\ r[i].node = r[j].node => i = j
          /\ \A j \in 1..len : ns[j] \notin V => \E i \in 1..Len(r) : i > Len(p) /\ r[i].node = ns[j]
      BY <1>8 DEF PushedUpTo
    <2>2. \A x : x \in PushNew(run, ns).visited <=> x \in V \/ x \in ToSet(ns)
      BY <1>10
    <2> DEFINE W == PushNew(run, ns).visited
    <2> HIDE DEF W
    <2>3. \A i \in 1..Len(r) : i > Len(p) => r[i].node \in ToSet(ns)
      BY <1>9, <2>1
    <2>4. ASSUME NEW x \in ToSet(ns), x \notin V PROVE \E i \in 1..Len(r) : i > Len(p) /\ r[i].node = x
      <3>1. PICK j \in 1..len : ns[j] = x
        BY <1>9, <2>4, Zenon
      <3>2. \A e \in 1..len : ns[e] \notin V => \E i \in 1..Len(r) : i > Len(p) /\ r[i].node = ns[e]
        BY <2>1, Zenon
      <3> QED
        BY <2>4, <3>1, <3>2, Zenon
    <2>5. \A x : x \in W <=> x \in V \/ x \in ToSet(ns)
      BY <2>2 DEF W
    <2>6. Pushed(S, V, p, ns, W, r)
      BY <2>1, <2>3, <2>4, <2>5, Zenon DEF Pushed
    <2> QED
      BY <2>6 DEF W
  <1> QED
    BY <1>11, <1>12 DEF r

-----------------------------------------------------------------------------
(***************************************************************************)
(* Z is closed under the steps R.                                          *)
(***************************************************************************)
Closed(R, Z) == \A a, b : <<a, b>> \in R /\ a \in Z => b \in Z

Grown(R, T) == T \cup {p[2] : p \in {q \in R : q[1] \in T}}

Ends(R, S) == S \cup {p[2] : p \in R}

IsGrow(R, S, f) ==
  f = [T \in SUBSET Ends(R, S) |-> IF Grown(R, T) = T THEN T ELSE f[Grown(R, T)]]

Least(R, U, T) == {x \in U : \A Z \in SUBSET U : T \subseteq Z /\ Closed(R, Z) => x \in Z}

(***************************************************************************)
(* What grows stays in the least closed set.                               *)
(***************************************************************************)
LEMMA LeastGrows ==
  ASSUME NEW R, NEW S, \A p \in R : p = <<p[1], p[2]>>, NEW T \in SUBSET Ends(R, S)
  PROVE  /\ Grown(R, T) \in SUBSET Ends(R, S) /\ T \subseteq Grown(R, T)
         /\ Least(R, Ends(R, S), Grown(R, T)) = Least(R, Ends(R, S), T)
         /\ Grown(R, T) = T => Least(R, Ends(R, S), T) = T
         /\ T \subseteq Least(R, Ends(R, S), T) /\ Closed(R, Least(R, Ends(R, S), T))
  <1> DEFINE U == Ends(R, S)
             G == Grown(R, T)
  <1>1. \A x : x \in G <=> x \in T \/ \E a \in T : <<a, x>> \in R
    <2>1. \A x : x \in G <=> x \in T \/ \E p \in R : p[1] \in T /\ p[2] = x
      BY DEF Grown
    <2>2. ASSUME NEW x, NEW p \in R, p[1] \in T, p[2] = x PROVE \E a \in T : <<a, x>> \in R
      <3>1. p = <<p[1], x>>
        BY <2>2
      <3> QED
        BY <2>2, <3>1
    <2>3. ASSUME NEW x, NEW a \in T, <<a, x>> \in R PROVE \E p \in R : p[1] \in T /\ p[2] = x
      <3>1. <<a, x>>[1] = a /\ <<a, x>>[2] = x
        OBVIOUS
      <3> QED
        BY <2>3, <3>1
    <2> HIDE DEF G
    <2> QED
      BY <2>1, <2>2, <2>3
  <1>2. \A a, x : <<a, x>> \in R => x \in U
    <2>1. \A a, x : <<a, x>>[2] = x
      OBVIOUS
    <2> QED
      BY <2>1 DEF Ends
  <1>3. G \in SUBSET U /\ T \subseteq G
    BY <1>1, <1>2
  <1> HIDE DEF U, G
  <1>4. \A Z : Closed(R, Z) => (T \subseteq Z <=> G \subseteq Z)
    BY <1>1 DEF Closed
  <1>5. Least(R, U, G) = Least(R, U, T)
    BY <1>4 DEF Least
  <1>6. ASSUME G = T PROVE Least(R, U, T) = T
    <2>1. T \in SUBSET U /\ Closed(R, T)
      BY <1>1, <1>3, <1>6 DEF Closed
    <2> QED
      BY <2>1 DEF Least
  <1>7. T \subseteq Least(R, U, T)
    BY <1>3 DEF Least
  <1>8. Closed(R, Least(R, U, T))
    BY <1>2 DEF Least, Closed
  <1> QED
    BY <1>3, <1>5, <1>6, <1>7, <1>8 DEF U, G

(***************************************************************************)
(* The growth comes to the least closed set.                               *)
(***************************************************************************)
LEMMA GrowIsLeast ==
  ASSUME NEW R, NEW S, \A p \in R : p = <<p[1], p[2]>>, IsFiniteSet(Ends(R, S)),
         NEW f, IsGrow(R, S, f)
  PROVE  \A T \in SUBSET Ends(R, S) : f[T] = Least(R, Ends(R, S), T)
  <1> DEFINE U == Ends(R, S)
             L(T) == Least(R, U, T)
             K == {k \in Nat : \A T \in SUBSET U : Cardinality(U \ T) <= k => f[T] = L(T)}
  <1>1. \A T \in SUBSET U : f[T] = IF Grown(R, T) = T THEN T ELSE f[Grown(R, T)]
    BY DEF IsGrow
  <1>2. \A T \in SUBSET U : /\ Grown(R, T) \in SUBSET U /\ T \subseteq Grown(R, T)
                            /\ L(Grown(R, T)) = L(T)
                            /\ Grown(R, T) = T => L(T) = T
    BY LeastGrows
  <1>3. \A T \in SUBSET U : Cardinality(U \ T) \in Nat /\ (Cardinality(U \ T) = 0 => U \ T = {})
    BY FS_Subset, FS_CardinalityType, FS_EmptySet
  <1>4. ASSUME NEW T \in SUBSET U, Grown(R, T) # T
        PROVE  Cardinality(U \ Grown(R, T)) < Cardinality(U \ T)
    <2> DEFINE A == U \ Grown(R, T)
               B == U \ T
    <2>1. IsFiniteSet(B) /\ A \in SUBSET B /\ A # B
      BY <1>2, <1>4, FS_Subset
    <2>2. Cardinality(A) \in Nat /\ Cardinality(B) \in Nat
      BY <2>1, FS_Subset, FS_CardinalityType
    <2>3. Cardinality(A) <= Cardinality(B) /\ (Cardinality(A) = Cardinality(B) => A = B)
      BY <2>1, FS_Subset
    <2> HIDE DEF A, B
    <2>4. Cardinality(A) < Cardinality(B)
      BY <2>1, <2>2, <2>3
    <2> QED
      BY <2>4 DEF A, B
  <1> HIDE DEF L, U
  <1>5. 0 \in K
    <2>1. ASSUME NEW T \in SUBSET U, Cardinality(U \ T) <= 0 PROVE f[T] = L(T)
      <3>1. U \ T = {}
        BY <1>3, <2>1
      <3>2. Grown(R, T) = T
        BY <1>2, <3>1
      <3> QED
        BY <1>1, <1>2, <3>2
    <2> QED
      BY <2>1
  <1>6. \A k \in Nat : k \in K => k + 1 \in K
    <2>1. SUFFICES ASSUME NEW k \in Nat, k \in K, NEW T \in SUBSET U, Cardinality(U \ T) <= k + 1
                   PROVE  f[T] = L(T)
      OBVIOUS
    <2>2. CASE Grown(R, T) = T
      BY <1>1, <1>2, <2>2
    <2>3. CASE Grown(R, T) # T
      <3>1. Cardinality(U \ Grown(R, T)) <= k
        <4> DEFINE a == Cardinality(U \ Grown(R, T))
                   b == Cardinality(U \ T)
        <4>1. a \in Nat /\ b \in Nat
          BY <1>2, <1>3
        <4>2. a < b /\ b <= k + 1
          BY <1>4, <2>1, <2>3
        <4> HIDE DEF a, b
        <4>3. a <= k
          BY <4>1, <4>2
        <4> QED
          BY <4>3 DEF a
      <3>2. f[Grown(R, T)] = L(Grown(R, T))
        BY <1>2, <2>1, <3>1
      <3> QED
        BY <1>1, <1>2, <2>3, <3>2
    <2> QED
      BY <2>2, <2>3
  <1>7. \A k \in Nat : k \in K
    <2> HIDE DEF K
    <2> QED
      BY <1>5, <1>6, SetInduction
  <1>8. ASSUME NEW T \in SUBSET U PROVE f[T] = L(T)
    <2>1. Cardinality(U \ T) \in K /\ Cardinality(U \ T) <= Cardinality(U \ T)
      BY <1>3, <1>7
    <2> QED
      BY <2>1
  <1> QED
    BY <1>8 DEF L, U

(***************************************************************************)
(* The closure of S is the least closed set that contains S.               *)
(***************************************************************************)
LEMMA ClosureLeast ==
  ASSUME NEW R, NEW S, \A p \in R : p = <<p[1], p[2]>>, IsFiniteSet(S), IsFiniteSet(R)
  PROVE  /\ S \subseteq Closure(R, S)
         /\ Closed(R, Closure(R, S))
         /\ \A Z : S \subseteq Z /\ Closed(R, Z) => Closure(R, S) \subseteq Z
  <1> DEFINE U == Ends(R, S)
             f == CHOOSE g : IsGrow(R, S, g)
  <1>1. Closure(R, S) = f[S]
    BY Zenon DEF Closure, IsGrow, Grown, Ends
  <1>2. IsFiniteSet(U)
    <2>1. IsFiniteSet({p[2] : p \in R})
      <3> DEFINE T == {p[2] : p \in R}
                 h == [p \in R |-> p[2]]
      <3>1. h \in Surjection(R, T)
        BY DEF Surjection
      <3> HIDE DEF T
      <3> QED
        BY <3>1, FS_Surjection DEF T
    <2> QED
      BY <2>1, FS_Union DEF Ends
  <1>3. \E g : IsGrow(R, S, g)
    <2> DEFINE g == [T \in SUBSET U |-> Least(R, U, T)]
    <2>1. ASSUME NEW T \in SUBSET U
          PROVE  g[T] = IF Grown(R, T) = T THEN T ELSE g[Grown(R, T)]
      BY LeastGrows
    <2>2. g = [T \in SUBSET U |-> g[T]]
      OBVIOUS
    <2> HIDE DEF g
    <2>3. IsGrow(R, S, g)
      BY <2>1, <2>2 DEF IsGrow
    <2> QED
      BY <2>3
  <1>4. IsGrow(R, S, f)
    BY <1>3
  <1>5. S \in SUBSET U
    BY DEF Ends
  <1>6. Closure(R, S) = Least(R, U, S)
    <2> HIDE DEF f
    <2> QED
      BY <1>1, <1>2, <1>4, <1>5, GrowIsLeast
  <1>7. S \subseteq Least(R, U, S) /\ Closed(R, Least(R, U, S))
    BY <1>5, LeastGrows
  <1>8. ASSUME NEW Z, S \subseteq Z, Closed(R, Z) PROVE Least(R, U, S) \subseteq Z
    <2>1. Closed(R, Z \cap U)
      <3>1. \A a, x : <<a, x>> \in R => x \in U
        <4>1. \A a, x : <<a, x>>[2] = x
          OBVIOUS
        <4> QED
          BY <4>1 DEF Ends
      <3> HIDE DEF U
      <3> QED
        BY <1>8, <3>1 DEF Closed
    <2>2. Z \cap U \in SUBSET U /\ S \subseteq Z \cap U
      BY <1>5, <1>8
    <2> HIDE DEF U
    <2> QED
      BY <2>1, <2>2 DEF Least
  <1> QED
    BY <1>6, <1>7, <1>8

-----------------------------------------------------------------------------
(***************************************************************************)
(* Of the nodes N, those of V are pending in P or yielded in Y, each once. *)
(***************************************************************************)
Once(N, V, P, Y) ==
  /\ P \in Seq(FramesOf(N)) /\ Y \in Seq(N)
  /\ \A i, j \in 1..Len(Y) : Y[i] = Y[j] => i = j
  /\ \A i, j \in 1..Len(P) : P[i].node = P[j].node => i = j
  /\ \A i \in 1..Len(P), j \in 1..Len(Y) : P[i].node # Y[j]
  /\ \A x : x \in V <=> \/ \E i \in 1..Len(P) : P[i].node = x
                        \/ \E j \in 1..Len(Y) : Y[j] = x

LEMMA OnceElim ==
  ASSUME NEW N, NEW V, NEW P, NEW Y, Once(N, V, P, Y)
  PROVE  /\ Len(P) \in Nat /\ Len(Y) \in Nat /\ DOMAIN P = 1..Len(P) /\ DOMAIN Y = 1..Len(Y)
         /\ V \subseteq N
         /\ \A i \in 1..Len(P) : P[i].node \in N /\ P[i].expanded \in BOOLEAN /\ P[i].node \in V
         /\ \A j \in 1..Len(Y) : Y[j] \in N /\ Y[j] \in V
  <1>1. P \in Seq(FramesOf(N)) /\ Y \in Seq(N)
    BY DEF Once
  <1>2. \A x \in FramesOf(N) : x.node \in N /\ x.expanded \in BOOLEAN
    BY DEF FramesOf
  <1>3. /\ Len(P) \in Nat /\ Len(Y) \in Nat /\ DOMAIN P = 1..Len(P) /\ DOMAIN Y = 1..Len(Y)
        /\ \A i \in 1..Len(P) : P[i] \in FramesOf(N)
        /\ \A j \in 1..Len(Y) : Y[j] \in N
    BY <1>1
  <1> QED
    BY <1>2, <1>3 DEF Once

(***************************************************************************)
(* Pushing keeps that.                                                     *)
(***************************************************************************)
LEMMA PushOnce ==
  ASSUME NEW N, NEW V, NEW P, NEW Y, Once(N, V, P, Y),
         NEW ns \in Seq(N), NEW W, NEW Q, Pushed(N, V, P, ns, W, Q)
  PROVE  /\ Once(N, W, Q, Y)
         /\ \A x \in V : x \in W
  <1>1. /\ Len(P) \in Nat /\ Len(Y) \in Nat
        /\ \A i \in 1..Len(P) : P[i].node \in V
        /\ \A j \in 1..Len(Y) : Y[j] \in V
    BY OnceElim
  <1>2. /\ \A x : x \in W <=> x \in V \/ x \in ToSet(ns)
        /\ Q \in Seq(FramesOf(N)) /\ Len(P) <= Len(Q) /\ Len(Q) \in Nat
        /\ \A i \in 1..Len(P) : Q[i] = P[i]
        /\ \A i \in 1..Len(Q) : i > Len(P) => Q[i].node \notin V /\ Q[i].node \in ToSet(ns)
        /\ \A i, j \in 1..Len(Q) : i > Len(P) /\ j > Len(P) /\ Q[i].node = Q[j].node => i = j
        /\ \A x \in ToSet(ns) : x \notin V => \E i \in 1..Len(Q) : i > Len(P) /\ Q[i].node = x
    BY DEF Pushed
  <1>3. \A i \in 1..Len(Q) : i \in 1..Len(P) \/ i > Len(P)
    BY <1>1, <1>2
  <1>4. \A i \in 1..Len(P) : i \in 1..Len(Q)
    BY <1>1, <1>2
  <1>5. \A i, j \in 1..Len(Q) : Q[i].node = Q[j].node => i = j
    <2>1. \A i, j \in 1..Len(P) : P[i].node = P[j].node => i = j
      BY DEF Once
    <2> QED
      BY <1>1, <1>2, <1>3, <2>1
  <1>6. \A i \in 1..Len(Q), j \in 1..Len(Y) : Q[i].node # Y[j]
    <2>1. \A i \in 1..Len(P), j \in 1..Len(Y) : P[i].node # Y[j]
      BY DEF Once
    <2> QED
      BY <1>1, <1>2, <1>3, <2>1
  <1>7. \A x : x \in W <=> \/ \E i \in 1..Len(Q) : Q[i].node = x
                           \/ \E j \in 1..Len(Y) : Y[j] = x
    <2>1. \A x : x \in V <=> \/ \E i \in 1..Len(P) : P[i].node = x
                             \/ \E j \in 1..Len(Y) : Y[j] = x
      BY DEF Once
    <2> QED
      BY <1>1, <1>2, <1>3, <1>4, <2>1
  <1>8. Y \in Seq(N) /\ \A i, j \in 1..Len(Y) : Y[i] = Y[j] => i = j
    BY DEF Once
  <1> QED
    BY <1>2, <1>5, <1>6, <1>7, <1>8 DEF Once

(***************************************************************************)
(* Q is P without its first frame, if o is 1, or without its last one, if  *)
(* o is 0; x is the node of that frame.                                    *)
(***************************************************************************)
TakenAt(N, P, Q, o, x) ==
  /\ Q \in Seq(FramesOf(N)) /\ Len(Q) + 1 = Len(P) /\ o \in {0, 1}
  /\ \A i \in 1..Len(Q) : Q[i] = P[i + o]
  /\ x = P[IF o = 1 THEN 1 ELSE Len(P)].node

LEMMA HeadTaken ==
  ASSUME NEW N, NEW P \in Seq(FramesOf(N)), P # <<>>
  PROVE  TakenAt(N, P, Tail(P), 1, Head(P).node)
  <1> DEFINE F == FramesOf(N)
  <1> HIDE DEF F
  <1>1. P \in Seq(F) /\ P # <<>>
    BY DEF F
  <1>2. /\ Tail(P) \in Seq(F) /\ Len(Tail(P)) = Len(P) - 1 /\ Len(P) \in Nat /\ Len(P) > 0
        /\ \A i \in 1..Len(Tail(P)) : Tail(P)[i] = P[i + 1]
        /\ Head(P) = P[1]
    BY <1>1
  <1> QED
    BY <1>2 DEF TakenAt, F

LEMMA LastTaken ==
  ASSUME NEW N, NEW P \in Seq(FramesOf(N)), P # <<>>
  PROVE  TakenAt(N, P, Front(P), 0, Last(P).node)
  <1> DEFINE F == FramesOf(N)
  <1> HIDE DEF F
  <1>1. P \in Seq(F) /\ P # <<>>
    BY DEF F
  <1>2. /\ Front(P) \in Seq(F) /\ Len(Front(P)) = Len(P) - 1 /\ Len(P) \in Nat /\ Len(P) > 0
        /\ \A i \in 1..Len(Front(P)) : Front(P)[i] = P[i]
        /\ Last(P) = P[Len(P)]
    <2>1. Len(P) \in Nat /\ Len(P) > 0 /\ \A i \in 1..(Len(P) - 1) : P[i] \in F
      BY <1>1
    <2> DEFINE n == Len(P) - 1
    <2>2. n \in Nat /\ n \in Int /\ \A i \in 1..n : P[i] \in F
      BY <2>1
    <2> HIDE DEF n
    <2>3. n - 1 + 1 = n /\ (IF 1 <= n THEN n - 1 + 1 ELSE 0) = n /\ \A i \in 1..n : 1 + i - 1 = i
      BY <2>2
    <2>4. /\ SubSeq(P, 1, n) \in Seq(F)
          /\ Len(SubSeq(P, 1, n)) = n
          /\ \A i \in 1..n : SubSeq(P, 1, n)[i] = P[i]
      <3>1. 1 \in Int
        OBVIOUS
      <3>2. /\ SubSeq(P, 1, n) \in Seq(F)
            /\ Len(SubSeq(P, 1, n)) = IF 1 <= n THEN n - 1 + 1 ELSE 0
            /\ \A i \in 1..(n - 1 + 1) : SubSeq(P, 1, n)[i] = P[1 + i - 1]
        BY <2>2, <3>1, SubSeqProperties
      <3>3. \A i \in 1..n : SubSeq(P, 1, n)[i] = P[1 + i - 1]
        BY <2>3, <3>2
      <3> QED
        BY <2>3, <3>2, <3>3
    <2>5. Front(P) = SubSeq(P, 1, n) /\ Last(P) = P[Len(P)]
      BY DEF n, Front, Last
    <2>6. Front(P) \in Seq(F) /\ Len(Front(P)) = n /\ \A i \in 1..n : Front(P)[i] = P[i]
      BY <2>3, <2>4, <2>5
    <2> QED
      BY <2>1, <2>5, <2>6 DEF n
  <1>3. \A i \in 1..Len(Front(P)) : i + 0 = i
    BY <1>2
  <1> QED
    BY <1>2, <1>3 DEF TakenAt, F

(***************************************************************************)
(* Taking a frame and yielding its node keeps that.                        *)
(***************************************************************************)
LEMMA TakeOnce ==
  ASSUME NEW N, NEW V, NEW P, NEW Y, Once(N, V, P, Y),
         NEW Q, NEW o, NEW x, TakenAt(N, P, Q, o, x)
  PROVE  /\ Once(N, V, Q, Append(Y, x))
         /\ x \in N /\ x \in V
         /\ Len(Append(Y, x)) = Len(Y) + 1 /\ Append(Y, x)[Len(Y) + 1] = x
         /\ \A i \in 1..Len(Y) : Append(Y, x)[i] = Y[i]
  <1> DEFINE k == IF o = 1 THEN 1 ELSE Len(P)
             Z == Append(Y, x)
  <1>1. /\ Len(P) \in Nat /\ Len(Y) \in Nat /\ Y \in Seq(N)
        /\ \A i \in 1..Len(P) : P[i].node \in N /\ P[i].node \in V
        /\ \A j \in 1..Len(Y) : Y[j] \in V
    <2>1. Y \in Seq(N)
      BY DEF Once
    <2> QED
      BY <2>1, OnceElim
  <1>2. /\ Q \in Seq(FramesOf(N)) /\ Len(Q) + 1 = Len(P) /\ o \in {0, 1} /\ Len(Q) \in Nat
        /\ \A i \in 1..Len(Q) : Q[i] = P[i + o]
        /\ x = P[k].node
    BY DEF TakenAt
  <1>3. k \in 1..Len(P) /\ \A i \in 1..Len(Q) : i + o \in 1..Len(P) /\ i + o # k
    BY <1>1, <1>2
  <1>4. \A i \in 1..Len(P) : i # k => i - o \in 1..Len(Q) /\ i = (i - o) + o
    BY <1>1, <1>2
  <1>5. x \in N /\ x \in V
    BY <1>1, <1>2, <1>3
  <1>6. /\ Z \in Seq(N) /\ Len(Z) = Len(Y) + 1 /\ Z[Len(Y) + 1] = x
        /\ \A i \in 1..Len(Y) : Z[i] = Y[i]
        /\ \A i : i \in 1..Len(Z) <=> i \in 1..Len(Y) \/ i = Len(Y) + 1
        /\ Len(Y) + 1 \notin 1..Len(Y)
    BY <1>1, <1>5
  <1> HIDE DEF k, Z
  <1>7. /\ \A i, j \in 1..Len(Y) : Y[i] = Y[j] => i = j
        /\ \A i, j \in 1..Len(P) : P[i].node = P[j].node => i = j
        /\ \A i \in 1..Len(P), j \in 1..Len(Y) : P[i].node # Y[j]
        /\ \A y : y \in V <=> \/ \E i \in 1..Len(P) : P[i].node = y
                              \/ \E j \in 1..Len(Y) : Y[j] = y
    BY DEF Once
  <1>8. \A i, j \in 1..Len(Z) : Z[i] = Z[j] => i = j
    <2>1. \A i \in 1..Len(Y) : Y[i] # x
      BY <1>2, <1>3, <1>7
    <2> QED
      BY <1>6, <1>7, <2>1
  <1>9. \A i, j \in 1..Len(Q) : Q[i].node = Q[j].node => i = j
    <2> SUFFICES ASSUME NEW i \in 1..Len(Q), NEW j \in 1..Len(Q), Q[i].node = Q[j].node PROVE i = j
      OBVIOUS
    <2>1. i + o \in 1..Len(P) /\ j + o \in 1..Len(P) /\ P[i + o].node = P[j + o].node
      BY <1>2, <1>3
    <2>2. i + o = j + o
      BY <1>7, <2>1
    <2> QED
      BY <1>2, <2>2
  <1>10. \A i \in 1..Len(Q), j \in 1..Len(Z) : Q[i].node # Z[j]
    <2>1. \A i \in 1..Len(Q) : Q[i].node # x
      BY <1>2, <1>3, <1>7
    <2>2. \A i \in 1..Len(Q), j \in 1..Len(Y) : Q[i].node # Y[j]
      BY <1>2, <1>3, <1>7
    <2> QED
      BY <1>6, <2>1, <2>2
  <1>11. \A y : y \in V <=> \/ \E i \in 1..Len(Q) : Q[i].node = y
                            \/ \E j \in 1..Len(Z) : Z[j] = y
    <2>1. ASSUME NEW y, y \in V
          PROVE  \/ \E i \in 1..Len(Q) : Q[i].node = y
                 \/ \E j \in 1..Len(Z) : Z[j] = y
      <3>1. CASE \E j \in 1..Len(Y) : Y[j] = y
        BY <1>6, <3>1
      <3>2. CASE \E i \in 1..Len(P) : P[i].node = y
        <4>1. PICK i \in 1..Len(P) : P[i].node = y
          BY <3>2
        <4>2. CASE i = k
          BY <1>2, <1>6, <4>1, <4>2
        <4>3. CASE i # k
          <5>1. i - o \in 1..Len(Q) /\ Q[i - o] = P[(i - o) + o] /\ (i - o) + o = i
            BY <1>2, <1>4, <4>3
          <5> QED
            BY <4>1, <5>1
        <4> QED
          BY <4>2, <4>3
      <3> QED
        BY <1>7, <2>1, <3>1, <3>2
    <2>2. ASSUME NEW y, NEW i \in 1..Len(Q), Q[i].node = y PROVE y \in V
      BY <1>2, <1>3, <1>1, <2>2
    <2>3. ASSUME NEW y, NEW j \in 1..Len(Z), Z[j] = y PROVE y \in V
      BY <1>1, <1>5, <1>6, <2>3
    <2> QED
      BY <2>1, <2>2, <2>3
  <1>12. Once(N, V, Q, Z)
    BY <1>2, <1>6, <1>8, <1>9, <1>10, <1>11 DEF Once
  <1> QED
    BY <1>5, <1>6, <1>12 DEF Z

(***************************************************************************)
(* Q is P, its last frame expanded.                                        *)
(***************************************************************************)
Flagged(N, P, Q) ==
  /\ Q \in Seq(FramesOf(N)) /\ Len(Q) = Len(P) /\ Len(P) \in 1..Len(P)
  /\ \A i \in 1..Len(P) : /\ Q[i].node = P[i].node
                          /\ i # Len(P) => Q[i].expanded = P[i].expanded
  /\ Q[Len(P)].expanded = TRUE

LEMMA LastFlagged ==
  ASSUME NEW N, NEW P \in Seq(FramesOf(N)), P # <<>>
  PROVE  Flagged(N, P, [P EXCEPT ![Len(P)].expanded = TRUE])
  <1> DEFINE F == FramesOf(N)
             l == Len(P)
             x == [P[l] EXCEPT !.expanded = TRUE]
             Q == [P EXCEPT ![l] = x]
  <1>1. \A y \in F : [y EXCEPT !.expanded = TRUE] \in F /\ [y EXCEPT !.expanded = TRUE].node = y.node
                     /\ [y EXCEPT !.expanded = TRUE].expanded = TRUE
    BY DEF FramesOf
  <1>2. P \in Seq(F) /\ P # <<>>
    OBVIOUS
  <1> HIDE DEF F
  <1>3. l \in Nat /\ l > 0 /\ P[l] \in F /\ l \in 1..l
    BY <1>2
  <1>4. x \in F /\ x.node = P[l].node /\ x.expanded = TRUE
    BY <1>1, <1>3
  <1>5. [P EXCEPT ![Len(P)].expanded = TRUE] = Q
    OBVIOUS
  <1> HIDE DEF x
  <1>6. Q \in Seq(F) /\ Len(Q) = l /\ Q[l] = x /\ \A i \in 1..l : i # l => Q[i] = P[i]
    BY <1>2, <1>3, <1>4
  <1> HIDE DEF Q
  <1>7. Flagged(N, P, Q)
    BY <1>3, <1>4, <1>6 DEF Flagged, F
  <1> QED
    BY <1>5, <1>7

LEMMA FlagOnce ==
  ASSUME NEW N, NEW V, NEW P, NEW Y, Once(N, V, P, Y), NEW Q, Flagged(N, P, Q)
  PROVE  Once(N, V, Q, Y)
  <1>1. /\ Q \in Seq(FramesOf(N)) /\ Len(Q) = Len(P)
        /\ \A i \in 1..Len(P) : Q[i].node = P[i].node
    BY DEF Flagged
  <1>2. /\ Y \in Seq(N)
        /\ \A i, j \in 1..Len(Y) : Y[i] = Y[j] => i = j
    BY DEF Once
  <1>3. \A i, j \in 1..Len(P) : P[i].node = P[j].node => i = j
    BY DEF Once
  <1>4. \A i \in 1..Len(P), j \in 1..Len(Y) : P[i].node # Y[j]
    BY DEF Once
  <1>5. \A x : x \in V <=> \/ \E i \in 1..Len(P) : P[i].node = x
                           \/ \E j \in 1..Len(Y) : Y[j] = x
    BY DEF Once
  <1>6. \A i, j \in 1..Len(Q) : Q[i].node = Q[j].node => i = j
    BY <1>1, <1>3
  <1>7. \A i \in 1..Len(Q), j \in 1..Len(Y) : Q[i].node # Y[j]
    BY <1>1, <1>4
  <1>8. \A x : (\E i \in 1..Len(Q) : Q[i].node = x) <=> \E i \in 1..Len(P) : P[i].node = x
    BY <1>1
  <1>9. \A x : x \in V <=> \/ \E i \in 1..Len(Q) : Q[i].node = x
                           \/ \E j \in 1..Len(Y) : Y[j] = x
    BY <1>5, <1>8, Zenon
  <1> QED
    BY <1>1, <1>2, <1>6, <1>7, <1>9, Zenon DEF Once

-----------------------------------------------------------------------------
(***************************************************************************)
(* The steps R go between nodes of N, and S are nodes of N.                *)
(***************************************************************************)
StepsOver(N, R, S) ==
  /\ IsFiniteSet(R) /\ IsFiniteSet(S) /\ S \subseteq N
  /\ \A p \in R : p = <<p[1], p[2]>>
  /\ \A a, b : <<a, b>> \in R => a \in N /\ b \in N

(***************************************************************************)
(* What S reaches without coming by n.                                     *)
(***************************************************************************)
Avoiding(R, S, n) == Closure({s \in R : s[1] # n /\ s[2] # n}, S \ {n})

LEMMA ReachFacts ==
  ASSUME NEW N, NEW R, NEW S, StepsOver(N, R, S)
  PROVE  /\ \A x \in S : x \in Closure(R, S)
         /\ \A a, b : a \in Closure(R, S) /\ <<a, b>> \in R => b \in Closure(R, S)
         /\ \A Z : S \subseteq Z /\ Closed(R, Z) => Closure(R, S) \subseteq Z
  <1>1. /\ S \subseteq Closure(R, S) /\ Closed(R, Closure(R, S))
        /\ \A Z : S \subseteq Z /\ Closed(R, Z) => Closure(R, S) \subseteq Z
    BY ClosureLeast DEF StepsOver
  <1> QED
    BY <1>1 DEF Closed

LEMMA AvoidingFacts ==
  ASSUME NEW N, NEW R, NEW S, StepsOver(N, R, S), NEW n
  PROVE  /\ \A x \in S : x # n => x \in Avoiding(R, S, n)
         /\ \A a, b : a \in Avoiding(R, S, n) /\ <<a, b>> \in R /\ b # n => b \in Avoiding(R, S, n)
         /\ n \notin Avoiding(R, S, n)
         /\ \A Z : /\ \A x \in S : x # n => x \in Z
                   /\ \A a, b : a \in Z /\ <<a, b>> \in R /\ b # n => b \in Z
                   => Avoiding(R, S, n) \subseteq Z
  <1> DEFINE L == {s \in R : s[1] # n /\ s[2] # n}
             T == S \ {n}
             A == Closure(L, T)
  <1>1. IsFiniteSet(L) /\ IsFiniteSet(T)
    BY FS_Subset DEF StepsOver
  <1>2. \A p \in L : p = <<p[1], p[2]>>
    BY DEF StepsOver
  <1>3. \A a, b : <<a, b>> \in L <=> <<a, b>> \in R /\ a # n /\ b # n
    <2>1. \A a, b : <<a, b>>[1] = a /\ <<a, b>>[2] = b
      OBVIOUS
    <2> QED
      BY <2>1
  <1> HIDE DEF L
  <1>4. /\ T \subseteq A /\ Closed(L, A)
        /\ \A Z : T \subseteq Z /\ Closed(L, Z) => A \subseteq Z
    BY <1>1, <1>2, ClosureLeast
  <1>5. Avoiding(R, S, n) = A
    BY DEF Avoiding, L
  <1> HIDE DEF A
  <1>6. n \notin A
    <2>1. T \subseteq A \ {n} /\ Closed(L, A \ {n})
      BY <1>3, <1>4 DEF Closed
    <2> QED
      BY <1>4, <2>1
  <1>7. \A x \in S : x # n => x \in A
    BY <1>4
  <1>8. \A a, b : a \in A /\ <<a, b>> \in R /\ b # n => b \in A
    BY <1>3, <1>4, <1>6 DEF Closed
  <1>9. ASSUME NEW Z, \A x \in S : x # n => x \in Z,
               \A a, b : a \in Z /\ <<a, b>> \in R /\ b # n => b \in Z
        PROVE  A \subseteq Z
    <2>1. T \subseteq Z /\ Closed(L, Z)
      BY <1>3, <1>9 DEF Closed
    <2> QED
      BY <1>4, <2>1
  <1> QED
    BY <1>5, <1>6, <1>7, <1>8, <1>9

LEMMA AvoidingGrows ==
  ASSUME NEW N, NEW R, NEW S, NEW T, StepsOver(N, R, S), StepsOver(N, R, T), S \subseteq T, NEW n
  PROVE  \A x \in Avoiding(R, S, n) : x \in Avoiding(R, T, n)
  <1>1. /\ \A x \in S : x # n => x \in Avoiding(R, T, n)
        /\ \A a, b : a \in Avoiding(R, T, n) /\ <<a, b>> \in R /\ b # n => b \in Avoiding(R, T, n)
    BY AvoidingFacts
  <1> QED
    BY <1>1, AvoidingFacts

-----------------------------------------------------------------------------
(***************************************************************************)
(* The roots S are visited, and what is visited is reached from them; of   *)
(* what is yielded or expanded, all next nodes are visited.                *)
(***************************************************************************)
Reached(R, S, V) == /\ \A x \in S : x \in V
                    /\ \A x \in V : x \in Closure(R, S)

Done(R, V, P, Y) ==
  /\ \A j \in 1..Len(Y) : \A x : <<Y[j], x>> \in R => x \in V
  /\ \A i \in 1..Len(P) : P[i].expanded => \A x : <<P[i].node, x>> \in R => x \in V

(***************************************************************************)
(* What lies behind a node: until n is expanded, what is visited is        *)
(* reached without n; so is what lies below it on the stack after that,    *)
(* and, once n is yielded, what was not yielded before it.                 *)
(***************************************************************************)
Behind(N, R, S, V, P, Y) ==
  /\ \A n \in N : (n \notin V \/ \E i \in 1..Len(P) : P[i].node = n /\ ~P[i].expanded)
                  => \A m \in V : m # n => m \in Avoiding(R, S, n)
  /\ \A p \in 1..Len(P) : P[p].expanded =>
       \A i \in 1..Len(P) : i < p => P[i].node \in Avoiding(R, S, P[p].node)
  /\ \A i \in 1..Len(Y) : \A m \in V : m # Y[i] =>
       m \in Avoiding(R, S, Y[i]) \/ \E j \in 1..Len(Y) : j < i /\ Y[j] = m

(***************************************************************************)
(* Done when the node at the end is expanded.                              *)
(***************************************************************************)
LEMMA ExpandDone ==
  ASSUME NEW N, NEW R, NEW S, NEW V, NEW P, NEW Y, NEW B, NEW ns \in Seq(N), NEW W, NEW Q, NEW t,
         StepsOver(N, R, S), Once(N, V, P, Y), Reached(R, S, V), Done(R, V, P, Y),
         Flagged(N, P, B), Pushed(N, V, B, ns, W, Q),
         t = P[Len(P)].node, \A m : m \in ToSet(ns) <=> <<t, m>> \in R /\ m # t
  PROVE  Once(N, W, Q, Y) /\ Reached(R, S, W) /\ Done(R, W, Q, Y)
  <1>1. Once(N, V, B, Y)
    BY FlagOnce
  <1>2. Once(N, W, Q, Y) /\ \A x \in V : x \in W
    BY <1>1, PushOnce
  <1>3. t \in V /\ Len(P) \in Nat /\ Len(P) \in 1..Len(P)
    BY OnceElim DEF Flagged
  <1>4. \A x : x \in W <=> x \in V \/ (<<t, x>> \in R /\ x # t)
    BY DEF Pushed
  <1>5. Reached(R, S, W)
    BY <1>3, <1>4, ReachFacts DEF Reached
  <1>6. \A x : <<t, x>> \in R => x \in W
    BY <1>3, <1>4
  <1>7. ASSUME NEW i \in 1..Len(Q), Q[i].expanded, NEW x, <<Q[i].node, x>> \in R PROVE x \in W
    <2>1. Len(B) = Len(P) /\ Len(B) <= Len(Q) /\ Len(Q) \in Nat
      BY <1>2, OnceElim DEF Flagged, Pushed
    <2>2. i \in 1..Len(P)
      <3>1. \A k \in 1..Len(Q) : k > Len(B) => ~Q[k].expanded
        BY DEF Pushed
      <3> QED
        BY <1>3, <1>7, <2>1, <3>1
    <2>3. Q[i] = B[i] /\ B[i].node = P[i].node
      BY <2>1, <2>2 DEF Pushed, Flagged
    <2>4. CASE i = Len(P)
      BY <1>6, <1>7, <2>3, <2>4
    <2>5. CASE i # Len(P)
      <3>1. P[i].expanded
        BY <1>7, <2>2, <2>3, <2>5 DEF Flagged
      <3> QED
        BY <1>2, <1>7, <2>2, <2>3, <3>1 DEF Done
    <2> QED
      BY <2>4, <2>5
  <1>8. Done(R, W, Q, Y)
    BY <1>2, <1>7 DEF Done
  <1> QED
    BY <1>2, <1>5, <1>8

LEMMA ExpandBehind ==
  ASSUME NEW N, NEW R, NEW S, NEW V, NEW P, NEW Y, NEW B, NEW ns \in Seq(N), NEW W, NEW Q, NEW t,
         StepsOver(N, R, S), Once(N, V, P, Y), Behind(N, R, S, V, P, Y),
         Flagged(N, P, B), Pushed(N, V, B, ns, W, Q), ~P[Len(P)].expanded,
         t = P[Len(P)].node, \A m : m \in ToSet(ns) <=> <<t, m>> \in R /\ m # t
  PROVE  Behind(N, R, S, W, Q, Y)
  <1>1. Once(N, V, B, Y)
    BY FlagOnce
  <1>2. Once(N, W, Q, Y) /\ \A x \in V : x \in W
    BY <1>1, PushOnce
  <1>3. /\ Len(P) \in Nat /\ Len(P) \in 1..Len(P) /\ Len(Y) \in Nat /\ Len(Q) \in Nat
        /\ Len(B) = Len(P) /\ Len(P) <= Len(Q)
        /\ \A i \in 1..Len(P) : P[i].node \in V /\ P[i].node \in N
        /\ \A j \in 1..Len(Y) : Y[j] \in V /\ Y[j] \in N
    BY <1>2, OnceElim DEF Flagged, Pushed
  <1>4. t \in V /\ t \in N
    BY <1>3
  <1>5. \A x : x \in W <=> x \in V \/ (<<t, x>> \in R /\ x # t)
    BY DEF Pushed
  <1>6. /\ \A i \in 1..Len(P) : Q[i].node = P[i].node
        /\ \A i \in 1..Len(P) : i # Len(P) => Q[i].expanded = P[i].expanded
        /\ Q[Len(P)].expanded
        /\ \A i \in 1..Len(Q) : i > Len(P) => ~Q[i].expanded /\ Q[i].node \notin V
    BY <1>3 DEF Flagged, Pushed
  <1>7. \A i \in 1..Len(Q) : i \in 1..Len(P) \/ i > Len(P)
    BY <1>3
  <1>8. \A n : \A a, b : a \in Avoiding(R, S, n) /\ <<a, b>> \in R /\ b # n => b \in Avoiding(R, S, n)
    BY AvoidingFacts
  <1>9. ASSUME NEW n \in N, n \notin W \/ \E i \in 1..Len(Q) : Q[i].node = n /\ ~Q[i].expanded,
               NEW m \in W, m # n
        PROVE  m \in Avoiding(R, S, n)
    <2>1. n # t /\ (n \notin V \/ \E i \in 1..Len(P) : P[i].node = n /\ ~P[i].expanded)
      <3>1. CASE n \notin W
        BY <1>2, <1>4, <3>1
      <3>2. CASE \E i \in 1..Len(Q) : Q[i].node = n /\ ~Q[i].expanded
        <4>1. PICK i \in 1..Len(Q) : Q[i].node = n /\ ~Q[i].expanded
          BY <3>2
        <4>2. CASE i > Len(P)
          BY <1>4, <1>6, <4>1, <4>2
        <4>3. CASE i \in 1..Len(P)
          <5>1. i # Len(P) /\ P[i].node = n /\ ~P[i].expanded
            BY <1>6, <4>1, <4>3
          <5>2. n # t
            BY <1>3, <4>3, <5>1 DEF Once
          <5> QED
            BY <4>3, <5>1, <5>2
        <4> QED
          BY <1>7, <4>2, <4>3
      <3> QED
        BY <1>9, <3>1, <3>2
    <2>2. \A x \in V : x # n => x \in Avoiding(R, S, n)
      BY <2>1 DEF Behind
    <2> QED
      BY <1>4, <1>5, <1>8, <1>9, <2>1, <2>2
  <1>10. ASSUME NEW p \in 1..Len(Q), Q[p].expanded, NEW i \in 1..Len(Q), i < p
         PROVE  Q[i].node \in Avoiding(R, S, Q[p].node)
    <2>1. p \in 1..Len(P) /\ i \in 1..Len(P) /\ i # Len(P)
      BY <1>3, <1>6, <1>7, <1>10
    <2>2. Q[p].node = P[p].node /\ Q[i].node = P[i].node
      BY <1>6, <2>1
    <2>3. CASE p = Len(P)
      <3>1. \A m \in V : m # t => m \in Avoiding(R, S, t)
        BY <1>3, <1>4 DEF Behind
      <3>2. P[i].node # t
        BY <1>3, <2>1 DEF Once
      <3> QED
        BY <1>3, <2>1, <2>2, <2>3, <3>1, <3>2
    <2>4. CASE p # Len(P)
      <3>1. P[p].expanded
        BY <1>6, <1>10, <2>1, <2>4
      <3> QED
        BY <1>10, <2>1, <2>2, <3>1 DEF Behind
    <2> QED
      BY <2>3, <2>4
  <1>11. ASSUME NEW i \in 1..Len(Y), NEW m \in W, m # Y[i]
         PROVE  m \in Avoiding(R, S, Y[i]) \/ \E j \in 1..Len(Y) : j < i /\ Y[j] = m
    <2>1. \A x \in V : x # Y[i] => x \in Avoiding(R, S, Y[i]) \/ \E j \in 1..Len(Y) : j < i /\ Y[j] = x
      BY DEF Behind
    <2>2. \A j \in 1..Len(Y) : Y[j] # t
      BY <1>3 DEF Once
    <2>3. t \in Avoiding(R, S, Y[i])
      BY <1>4, <2>1, <2>2
    <2> QED
      BY <1>5, <1>8, <1>11, <2>1, <2>3
  <1> QED
    BY <1>9, <1>10, <1>11 DEF Behind

(***************************************************************************)
(* The last frame, once expanded, is taken.                                *)
(***************************************************************************)
LEMMA TakeExpanded ==
  ASSUME NEW N, NEW R, NEW S, NEW V, NEW P, NEW Y, NEW Q, NEW x,
         StepsOver(N, R, S), Once(N, V, P, Y), Done(R, V, P, Y), Behind(N, R, S, V, P, Y),
         TakenAt(N, P, Q, 0, x), P[Len(P)].expanded
  PROVE  Done(R, V, Q, Append(Y, x)) /\ Behind(N, R, S, V, Q, Append(Y, x))
  <1> DEFINE Z == Append(Y, x)
             l == Len(Y) + 1
  <1>1. /\ Len(P) \in Nat /\ Len(Q) \in Nat /\ Len(Y) \in Nat /\ Len(Q) + 1 = Len(P)
        /\ \A i \in 1..Len(Q) : Q[i] = P[i]
        /\ x = P[Len(P)].node
    <2>1. Len(Q) \in Nat /\ Len(Q) + 1 = Len(P) /\ \A i \in 1..Len(Q) : Q[i] = P[i + 0]
      BY DEF TakenAt
    <2>2. \A i \in 1..Len(Q) : i + 0 = i
      BY <2>1
    <2> QED
      BY <2>1, <2>2, OnceElim DEF TakenAt
  <1>2. /\ \A i \in 1..Len(Q) : i \in 1..Len(P) /\ i < Len(P)
        /\ \A i \in 1..Len(P) : i \in 1..Len(Q) \/ i = Len(P)
        /\ Len(P) \in 1..Len(P)
    BY <1>1
  <1>3. Len(Z) = l /\ Z[l] = x /\ \A i \in 1..Len(Y) : Z[i] = Y[i]
    BY TakeOnce
  <1>4. \A i : i \in 1..l <=> i \in 1..Len(Y) \/ i = l
    BY <1>1
  <1>5. \A i \in 1..Len(Y) : i < l /\ l \notin 1..Len(Y) /\ \A j \in 1..l : j < i => j \in 1..Len(Y)
    BY <1>1
  <1> HIDE DEF Z, l
  <1>6. Done(R, V, Q, Z)
    <2>1. \A y : <<x, y>> \in R => y \in V
      BY <1>1, <1>2 DEF Done
    <2>2. \A j \in 1..l : \A y : <<Z[j], y>> \in R => y \in V
      BY <1>3, <1>4, <2>1 DEF Done
    <2>3. \A i \in 1..Len(Q) : Q[i].expanded => \A y : <<Q[i].node, y>> \in R => y \in V
      BY <1>1, <1>2 DEF Done
    <2> QED
      BY <1>3, <2>2, <2>3 DEF Done
  <1>7. \A n \in N : (n \notin V \/ \E i \in 1..Len(Q) : Q[i].node = n /\ ~Q[i].expanded)
                     => \A m \in V : m # n => m \in Avoiding(R, S, n)
    BY <1>1, <1>2 DEF Behind
  <1>8. \A p \in 1..Len(Q) : Q[p].expanded =>
          \A i \in 1..Len(Q) : i < p => Q[i].node \in Avoiding(R, S, Q[p].node)
    BY <1>1, <1>2 DEF Behind
  <1>9. ASSUME NEW i \in 1..l, NEW m \in V, m # Z[i]
        PROVE  m \in Avoiding(R, S, Z[i]) \/ \E j \in 1..l : j < i /\ Z[j] = m
    <2>1. CASE i \in 1..Len(Y)
      <3>1. m \in Avoiding(R, S, Y[i]) \/ \E j \in 1..Len(Y) : j < i /\ Y[j] = m
        BY <1>3, <1>9, <2>1 DEF Behind
      <3> QED
        BY <1>3, <1>4, <2>1, <3>1
    <2>2. CASE i = l
      <3>1. CASE \E j \in 1..Len(Y) : Y[j] = m
        BY <1>3, <1>4, <1>5, <2>2, <3>1
      <3>2. CASE \E k \in 1..Len(P) : P[k].node = m
        <4>1. PICK k \in 1..Len(P) : P[k].node = m
          BY <3>2
        <4>2. k < Len(P)
          BY <1>1, <1>2, <1>3, <1>9, <2>2, <4>1
        <4> QED
          BY <1>1, <1>2, <1>3, <2>2, <4>1, <4>2 DEF Behind
      <3> QED
        BY <3>1, <3>2 DEF Once
    <2> QED
      BY <1>4, <2>1, <2>2
  <1>10. Behind(N, R, S, V, Q, Z)
    BY <1>3, <1>7, <1>8, <1>9 DEF Behind
  <1> QED
    BY <1>6, <1>10 DEF Z

(***************************************************************************)
(* A root is added.                                                        *)
(***************************************************************************)
LEMMA RootReached ==
  ASSUME NEW N, NEW R, NEW S, NEW T, NEW V, NEW P, NEW Y, NEW W, NEW Q, NEW s \in N,
         StepsOver(N, R, S), StepsOver(N, R, T), \A x : x \in T <=> x \in S \/ x = s,
         Once(N, V, P, Y), Reached(R, S, V), Done(R, V, P, Y),
         Pushed(N, V, P, <<s>>, W, Q)
  PROVE  Once(N, W, Q, Y) /\ Reached(R, T, W) /\ Done(R, W, Q, Y)
  <1>1. <<s>> \in Seq(N) /\ \A x : x \in ToSet(<<s>>) <=> x = s
    BY DEF ToSet
  <1>2. Once(N, W, Q, Y) /\ \A x \in V : x \in W
    BY <1>1, PushOnce
  <1>3. \A x : x \in W <=> x \in V \/ x = s
    BY <1>1 DEF Pushed
  <1>4. Closure(R, S) \subseteq Closure(R, T)
    <2>1. S \subseteq Closure(R, T) /\ Closed(R, Closure(R, T))
      BY ReachFacts DEF Closed
    <2> QED
      BY <2>1, ReachFacts
  <1>5. Reached(R, T, W)
    BY <1>3, <1>4, ReachFacts DEF Reached
  <1>6. Done(R, W, Q, Y)
    <2>1. /\ Len(P) \in Nat /\ Len(Q) \in Nat /\ Len(P) <= Len(Q)
          /\ \A i \in 1..Len(P) : Q[i] = P[i]
          /\ \A i \in 1..Len(Q) : i > Len(P) => ~Q[i].expanded
      BY <1>2, OnceElim DEF Pushed
    <2>2. \A i \in 1..Len(Q) : i \in 1..Len(P) \/ i > Len(P)
      BY <2>1
    <2> QED
      BY <1>2, <2>1, <2>2 DEF Done
  <1> QED
    BY <1>2, <1>5, <1>6

LEMMA RootBehind ==
  ASSUME NEW N, NEW R, NEW S, NEW T, NEW V, NEW P, NEW Y, NEW W, NEW Q, NEW s \in N,
         StepsOver(N, R, S), StepsOver(N, R, T), \A x : x \in T <=> x \in S \/ x = s,
         Once(N, V, P, Y), Behind(N, R, S, V, P, Y),
         Pushed(N, V, P, <<s>>, W, Q)
  PROVE  Behind(N, R, T, W, Q, Y)
  <1>1. <<s>> \in Seq(N) /\ \A x : x \in ToSet(<<s>>) <=> x = s
    BY DEF ToSet
  <1>2. Once(N, W, Q, Y) /\ \A x \in V : x \in W
    BY <1>1, PushOnce
  <1>3. \A x : x \in W <=> x \in V \/ x = s
    BY <1>1 DEF Pushed
  <1>4. /\ Len(P) \in Nat /\ Len(Q) \in Nat /\ Len(P) <= Len(Q)
        /\ \A i \in 1..Len(P) : Q[i] = P[i]
        /\ \A i \in 1..Len(Q) : i > Len(P) => ~Q[i].expanded /\ Q[i].node \notin V
    BY <1>2, OnceElim DEF Pushed
  <1>5. \A i \in 1..Len(Q) : i \in 1..Len(P) \/ i > Len(P)
    BY <1>4
  <1>6. \A n : /\ \A x \in Avoiding(R, S, n) : x \in Avoiding(R, T, n)
               /\ s # n => s \in Avoiding(R, T, n)
    BY AvoidingFacts, AvoidingGrows
  <1>7. ASSUME NEW n \in N, n \notin W \/ \E i \in 1..Len(Q) : Q[i].node = n /\ ~Q[i].expanded,
               NEW m \in W, m # n
        PROVE  m \in Avoiding(R, T, n)
    <2>1. n \notin V \/ \E i \in 1..Len(P) : P[i].node = n /\ ~P[i].expanded
      BY <1>2, <1>4, <1>5, <1>7
    <2>2. \A x \in V : x # n => x \in Avoiding(R, S, n)
      BY <2>1 DEF Behind
    <2> QED
      BY <1>3, <1>6, <1>7, <2>2
  <1>8. ASSUME NEW p \in 1..Len(Q), Q[p].expanded, NEW i \in 1..Len(Q), i < p
        PROVE  Q[i].node \in Avoiding(R, T, Q[p].node)
    <2>1. p \in 1..Len(P) /\ i \in 1..Len(P)
      BY <1>4, <1>5, <1>8
    <2>2. P[i].node \in Avoiding(R, S, P[p].node)
      BY <1>4, <1>8, <2>1 DEF Behind
    <2> QED
      BY <1>4, <1>6, <2>1, <2>2
  <1>9. ASSUME NEW i \in 1..Len(Y), NEW m \in W, m # Y[i]
        PROVE  m \in Avoiding(R, T, Y[i]) \/ \E j \in 1..Len(Y) : j < i /\ Y[j] = m
    <2>1. \A x \in V : x # Y[i] => x \in Avoiding(R, S, Y[i]) \/ \E j \in 1..Len(Y) : j < i /\ Y[j] = x
      BY DEF Behind
    <2> QED
      BY <1>3, <1>6, <1>9, <2>1
  <1> QED
    BY <1>7, <1>8, <1>9 DEF Behind

(***************************************************************************)
(* What follows for a yielded node.                                        *)
(***************************************************************************)
LEMMA YieldedBehind ==
  ASSUME NEW N, NEW R, NEW S, NEW V, NEW P, NEW Y, NEW i \in 1..Len(Y), NEW m,
         StepsOver(N, R, S), Once(N, V, P, Y), Done(R, V, P, Y), Behind(N, R, S, V, P, Y),
         m \in Closure(R, {Y[i]}), m \notin Avoiding(R, S, Y[i]), m # Y[i]
  PROVE  \E j \in 1..Len(Y) : j < i /\ Y[j] = m
  <1> DEFINE n == Y[i]
             A == Avoiding(R, S, n)
             B == {Y[j] : j \in {k \in 1..Len(Y) : k < i}}
             Z == {n} \cup A \cup B
  <1>1. \A x : x \in B <=> \E j \in 1..Len(Y) : j < i /\ Y[j] = x
    OBVIOUS
  <1>2. \A a, b : a \in A /\ <<a, b>> \in R /\ b # n => b \in A
    BY AvoidingFacts
  <1>3. \A x \in V : x # n => x \in A \/ x \in B
    BY <1>1 DEF Behind
  <1>4. \A j \in 1..Len(Y) : \A x : <<Y[j], x>> \in R => x \in V
    BY DEF Done
  <1>5. n \in N
    BY OnceElim
  <1> HIDE DEF A, B
  <1>6. \A a, b : <<a, b>> \in R /\ a \in Z => b \in Z
    BY <1>1, <1>2, <1>3, <1>4
  <1>7. StepsOver(N, R, {n})
    <2>1. IsFiniteSet({n})
      BY FS_Singleton
    <2> QED
      BY <1>5, <2>1 DEF StepsOver
  <1>8. {n} \subseteq Z /\ Closed(R, Z)
    BY <1>6 DEF Closed
  <1>9. Closure(R, {n}) \subseteq Z
    <2> HIDE DEF Z, n
    <2> QED
      BY <1>7, <1>8, ReachFacts
  <1> QED
    BY <1>1, <1>9 DEF A

-----------------------------------------------------------------------------
(***************************************************************************)
(* c leads from r by n turns of e to v, the first of them in X.            *)
(***************************************************************************)
LeadsTo(D, e, X, c, n, r, v) ==
  /\ c \in [0..n -> D] /\ c[0] = r /\ c[n] = v /\ v \in X
  /\ \A k \in 1..n : c[k - 1] \notin X /\ c[k] = e[c[k - 1]]

Outcomes(D, e, X, r) == {v \in D : \E n \in Nat : \E c : LeadsTo(D, e, X, c, n, r, v)}

IsLoop(D, e, X, f) == f = [r \in D |-> IF r \in X THEN r ELSE f[e[r]]]

LEMMA OutcomesTurn ==
  ASSUME NEW D, NEW e \in [D -> D], NEW X, NEW r \in D
  PROVE  /\ r \in X => Outcomes(D, e, X, r) = {r}
         /\ r \notin X => Outcomes(D, e, X, r) = Outcomes(D, e, X, e[r])
  <1>1. ASSUME r \in X PROVE Outcomes(D, e, X, r) = {r}
    <2>1. r \in Outcomes(D, e, X, r)
      <3> DEFINE c == [k \in 0..0 |-> r]
      <3>1. c \in [0..0 -> D] /\ c[0] = r
        OBVIOUS
      <3> HIDE DEF c
      <3>2. LeadsTo(D, e, X, c, 0, r, r)
        BY <1>1, <3>1 DEF LeadsTo
      <3> QED
        BY <3>2 DEF Outcomes
    <2>2. ASSUME NEW v \in Outcomes(D, e, X, r) PROVE v = r
      <3>1. PICK n \in Nat : \E c : LeadsTo(D, e, X, c, n, r, v)
        BY DEF Outcomes
      <3>2. PICK c : LeadsTo(D, e, X, c, n, r, v)
        BY <3>1
      <3>3. CASE n = 0
        BY <3>2, <3>3 DEF LeadsTo
      <3>4. CASE n # 0
        <4>1. 1 \in 1..n /\ 1 - 1 = 0
          BY <3>4
        <4> QED
          BY <1>1, <3>2, <4>1 DEF LeadsTo
      <3> QED
        BY <3>3, <3>4
    <2> QED
      BY <2>1, <2>2
  <1>2. ASSUME r \notin X, NEW v \in Outcomes(D, e, X, r) PROVE v \in Outcomes(D, e, X, e[r])
    <2>1. PICK n \in Nat : \E c : LeadsTo(D, e, X, c, n, r, v)
      BY <1>2 DEF Outcomes
    <2>2. PICK c : LeadsTo(D, e, X, c, n, r, v)
      BY <2>1
    <2>3. /\ c \in [0..n -> D] /\ c[0] = r /\ c[n] = v /\ v \in X
          /\ \A k \in 1..n : c[k - 1] \notin X /\ c[k] = e[c[k - 1]]
      BY <2>2 DEF LeadsTo
    <2>4. n # 0
      BY <1>2, <2>3
    <2> DEFINE m == n - 1
               d == [k \in 0..m |-> c[k + 1]]
    <2>5. m \in Nat /\ m + 1 = n /\ 1 \in 1..n /\ 1 - 1 = 0 /\ 0 + 1 = 1 /\ 0 \in 0..m /\ m \in 0..m
      BY <2>4
    <2>6. \A k \in 0..m : k + 1 \in 0..n
      BY <2>4
    <2>7. d \in [0..m -> D] /\ \A k \in 0..m : d[k] = c[k + 1]
      BY <2>3, <2>6
    <2> HIDE DEF d, m
    <2>8. d[0] = e[r] /\ d[m] = v
      BY <2>3, <2>5, <2>7
    <2>9. ASSUME NEW k \in 1..m PROVE d[k - 1] \notin X /\ d[k] = e[d[k - 1]]
      <3>1. k - 1 \in 0..m /\ k \in 0..m /\ k + 1 \in 1..n /\ (k - 1) + 1 = k /\ (k + 1) - 1 = k
        BY <2>5
      <3>2. d[k - 1] = c[k] /\ d[k] = c[k + 1]
        BY <2>7, <3>1
      <3>3. c[(k + 1) - 1] \notin X /\ c[k + 1] = e[c[(k + 1) - 1]]
        BY <2>3, <3>1
      <3> QED
        BY <3>1, <3>2, <3>3
    <2>10. LeadsTo(D, e, X, d, m, e[r], v)
      BY <2>3, <2>7, <2>8, <2>9 DEF LeadsTo
    <2> QED
      BY <1>2, <2>5, <2>10 DEF Outcomes
  <1>3. ASSUME r \notin X, NEW v \in Outcomes(D, e, X, e[r]) PROVE v \in Outcomes(D, e, X, r)
    <2>1. PICK n \in Nat : \E c : LeadsTo(D, e, X, c, n, e[r], v)
      BY <1>3 DEF Outcomes
    <2>2. PICK c : LeadsTo(D, e, X, c, n, e[r], v)
      BY <2>1
    <2>3. /\ c \in [0..n -> D] /\ c[0] = e[r] /\ c[n] = v /\ v \in X
          /\ \A k \in 1..n : c[k - 1] \notin X /\ c[k] = e[c[k - 1]]
      BY <2>2 DEF LeadsTo
    <2> DEFINE m == n + 1
               d == [k \in 0..m |-> IF k = 0 THEN r ELSE c[k - 1]]
    <2>4. m \in Nat /\ m - 1 = n /\ m # 0 /\ m \in 0..m /\ 0 \in 0..m
      OBVIOUS
    <2>5. \A k \in 0..m : k # 0 => k - 1 \in 0..n
      OBVIOUS
    <2>6. d \in [0..m -> D] /\ \A k \in 0..m : d[k] = IF k = 0 THEN r ELSE c[k - 1]
      BY <2>3, <2>5
    <2> HIDE DEF d, m
    <2>7. d[0] = r /\ d[m] = v
      BY <2>3, <2>4, <2>6
    <2>8. ASSUME NEW k \in 1..m PROVE d[k - 1] \notin X /\ d[k] = e[d[k - 1]]
      <3>1. k \in 0..m /\ k # 0 /\ k - 1 \in 0..m
        BY <2>4
      <3>2. d[k] = c[k - 1]
        BY <2>6, <3>1
      <3>3. CASE k = 1
        BY <1>3, <2>3, <2>7, <3>2, <3>3
      <3>4. CASE k # 1
        <4>1. k - 1 # 0 /\ k - 1 \in 1..n
          BY <2>4, <3>4
        <4>2. d[k - 1] = c[(k - 1) - 1]
          BY <2>6, <3>1, <4>1
        <4> QED
          BY <2>3, <3>2, <4>1, <4>2
      <3> QED
        BY <3>3, <3>4
    <2>9. LeadsTo(D, e, X, d, m, r, v)
      BY <2>3, <2>6, <2>7, <2>8 DEF LeadsTo
    <2> QED
      BY <1>3, <2>4, <2>9 DEF Outcomes
  <1> QED
    BY <1>1, <1>2, <1>3

(***************************************************************************)
(* A loop given as a recursive function is one.                            *)
(***************************************************************************)
LEMMA LoopExists ==
  ASSUME NEW D, NEW e \in [D -> D], NEW X
  PROVE  \E f : IsLoop(D, e, X, f)
  <1> DEFINE O(r) == Outcomes(D, e, X, r)
             f == [r \in D |-> CHOOSE v : v \in O(r)]
  <1>1. \A r \in D : /\ r \in X => O(r) = {r}
                     /\ r \notin X => O(r) = O(e[r])
    BY OutcomesTurn
  <1> HIDE DEF O
  <1>2. ASSUME NEW r \in D PROVE f[r] = IF r \in X THEN r ELSE f[e[r]]
    <2>1. CASE r \in X
      BY <1>1, <2>1
    <2>2. CASE r \notin X
      <3>1. e[r] \in D
        OBVIOUS
      <3> QED
        BY <1>1, <2>2, <3>1
    <2> QED
      BY <2>1, <2>2
  <1>3. f = [r \in D |-> f[r]]
    OBVIOUS
  <1> HIDE DEF f
  <1>4. f = [r \in D |-> IF r \in X THEN r ELSE f[e[r]]]
    BY <1>2, <1>3
  <1> QED
    BY <1>4 DEF IsLoop

(***************************************************************************)
(* Where a number falls with every turn, the loop ends, and keeps what     *)
(* every turn keeps.                                                       *)
(***************************************************************************)
LEMMA LoopEnds ==
  ASSUME NEW D, NEW e \in [D -> D], NEW X, NEW f, IsLoop(D, e, X, f),
         NEW I \in SUBSET D, NEW M \in [I -> Nat],
         \A r \in I : r \notin X => e[r] \in I /\ M[e[r]] < M[r]
  PROVE  \A r \in I : f[r] \in I /\ f[r] \in X
  <1> DEFINE K == {k \in Nat : \A r \in I : M[r] <= k => f[r] \in I /\ f[r] \in X}
  <1>1. \A r \in D : f[r] = IF r \in X THEN r ELSE f[e[r]]
    BY DEF IsLoop
  <1>2. 0 \in K
    <2>1. ASSUME NEW r \in I, M[r] <= 0 PROVE r \in X
      <3>1. CASE r \notin X
        <4>1. M[r] \in Nat /\ M[e[r]] \in Nat /\ M[e[r]] < M[r]
          BY <3>1
        <4> QED
          BY <2>1, <4>1
      <3> QED
        BY <3>1
    <2> QED
      BY <1>1, <2>1
  <1>3. \A k \in Nat : k \in K => k + 1 \in K
    <2> SUFFICES ASSUME NEW k \in Nat, k \in K, NEW r \in I, M[r] <= k + 1
                 PROVE  f[r] \in I /\ f[r] \in X
      OBVIOUS
    <2>1. CASE r \in X
      BY <1>1, <2>1
    <2>2. CASE r \notin X
      <3>1. e[r] \in I /\ M[e[r]] \in Nat /\ M[r] \in Nat /\ M[e[r]] < M[r]
        BY <2>2
      <3>2. M[e[r]] <= k
        BY <3>1
      <3>3. f[r] = f[e[r]]
        BY <1>1, <2>2
      <3> QED
        BY <3>1, <3>2, <3>3
    <2> QED
      BY <2>1, <2>2
  <1>4. \A k \in Nat : k \in K
    <2> HIDE DEF K
    <2> QED
      BY <1>2, <1>3, SetInduction
  <1>5. \A r \in I : M[r] \in Nat /\ M[r] <= M[r]
    OBVIOUS
  <1> QED
    BY <1>4, <1>5

-----------------------------------------------------------------------------
(***************************************************************************)
(* The turns of ExpandTop.                                                 *)
(***************************************************************************)
RunsOver(N) == [visited : SUBSET N, pending : Seq(FramesOf(N)) \ {<<>>}]

Flag(run) == [run EXCEPT !.pending[Len(run.pending)].expanded = TRUE]

ExpandTurn(run) == PushNew(Flag(run), Reverse(Ahead(Last(run.pending).node)))

Expanded(N) == {run \in RunsOver(N) : run.pending[Len(run.pending)].expanded}

LEMMA ReverseLists ==
  ASSUME NEW S, NEW s \in Seq(S)
  PROVE  Reverse(s) \in Seq(S) /\ \A x : x \in ToSet(Reverse(s)) <=> x \in ToSet(s)
  <1> DEFINE n == Len(s)
  <1>1. n \in Nat /\ DOMAIN s = 1..n /\ \A i \in 1..n : s[i] \in S
    OBVIOUS
  <1>2. \A i \in 1..n : (n - i) + 1 \in 1..n /\ (n - ((n - i) + 1)) + 1 = i
    BY <1>1
  <1>3. Reverse(s) = [i \in 1..n |-> s[(n - i) + 1]]
    BY DEF Reverse
  <1> HIDE DEF n
  <1>4. Reverse(s) \in [1..n -> S] /\ DOMAIN Reverse(s) = 1..n /\ \A i \in 1..n : Reverse(s)[i] = s[(n - i) + 1]
    BY <1>1, <1>2, <1>3
  <1>5. Reverse(s) \in Seq(S)
    BY <1>1, <1>4, IsASeq
  <1>6. \A x : x \in ToSet(Reverse(s)) <=> \E i \in 1..n : Reverse(s)[i] = x
    BY <1>4 DEF ToSet
  <1>7. \A x : x \in ToSet(s) <=> \E i \in 1..n : s[i] = x
    BY <1>1 DEF ToSet
  <1>8. ASSUME NEW i \in 1..n PROVE \E j \in 1..n : Reverse(s)[j] = s[i]
    <2> DEFINE j == (n - i) + 1
    <2>1. j \in 1..n /\ (n - j) + 1 = i
      BY <1>2
    <2> HIDE DEF j
    <2>2. Reverse(s)[j] = s[(n - j) + 1]
      BY <1>4, <2>1
    <2> QED
      BY <2>1, <2>2
  <1> QED
    BY <1>2, <1>4, <1>5, <1>6, <1>7, <1>8

LEMMA ExpandTurns ==
  ASSUME GraphTyped, NEW run \in RunsOver(Nodes(graph))
  PROVE  LET N == Nodes(graph)
             B == Flag(run).pending
             ns == Reverse(Ahead(Last(run.pending).node))
             t == run.pending[Len(run.pending)].node
         IN  /\ ExpandTurn(run) \in RunsOver(N)
             /\ Flagged(N, run.pending, B) /\ ns \in Seq(N)
             /\ Pushed(N, run.visited, B, ns, ExpandTurn(run).visited, ExpandTurn(run).pending)
             /\ \A m : m \in ToSet(ns) <=> <<t, m>> \in Steps /\ m # t
  <1> DEFINE N == Nodes(graph)
             P == run.pending
             V == run.visited
             B == Flag(run).pending
             ns == Reverse(Ahead(Last(P).node))
             t == P[Len(P)].node
             next == ExpandTurn(run)
  <1>1. P \in Seq(FramesOf(N)) /\ P # <<>> /\ V \in SUBSET N
    BY DEF RunsOver
  <1>2. B = [P EXCEPT ![Len(P)].expanded = TRUE] /\ Flag(run).visited = V
    BY DEF Flag, RunsOver
  <1>3. Flagged(N, P, B)
    BY <1>1, <1>2, LastFlagged
  <1>4. B \in Seq(FramesOf(N)) /\ Len(B) = Len(P)
    BY <1>3 DEF Flagged
  <1>5. Last(P).node = t
    BY DEF Last
  <1>6. ns \in Seq(N) /\ \A m : m \in ToSet(ns) <=> <<t, m>> \in Steps /\ m # t
    BY <1>5, AheadLists, ReverseLists
  <1>7. next = PushNew(Flag(run), ns)
    BY DEF ExpandTurn
  <1>8. /\ Pushed(N, V, B, ns, next.visited, next.pending)
        /\ next = [visited |-> next.visited, pending |-> next.pending]
    <2> DEFINE old == Flag(run)
               new == PushNew(old, ns)
    <2>1. old.visited = V /\ old.pending = B
      BY <1>2
    <2>2. next = new
      BY <1>7
    <2>3. B \in Seq(FramesOf(N)) /\ ns \in Seq(N)
      BY <1>4, <1>6
    <2> HIDE DEF N, P, V, B, ns, next, old
    <2>4. /\ Pushed(N, V, B, ns, new.visited, new.pending)
          /\ new = [visited |-> new.visited, pending |-> new.pending]
      BY <2>1, <2>3, PushNewPushes, ZenonT(30)
    <2> HIDE DEF new
    <2> QED
      BY <2>2, <2>4
  <1>9. next \in RunsOver(N)
    <2> HIDE DEF N, P, V, B, ns, next
    <2>1. \A x \in ToSet(ns) : x \in N
      BY <1>6 DEF ToSet
    <2>2. next.visited \subseteq N /\ next.pending \in Seq(FramesOf(N)) /\ Len(next.pending) >= Len(B)
      <3>1. Len(B) \in Nat /\ Len(next.pending) \in Nat
        BY <1>4, <1>8 DEF Pushed
      <3> QED
        BY <1>1, <1>8, <2>1, <3>1 DEF Pushed
    <2>3. next.pending # <<>>
      <3>1. Len(P) \in Nat /\ Len(P) > 0
        BY <1>1
      <3> QED
        BY <1>4, <2>2, <3>1
    <2> QED
      BY <1>8, <2>2, <2>3 DEF RunsOver
  <1> QED
    BY <1>3, <1>6, <1>8, <1>9

-----------------------------------------------------------------------------
(***************************************************************************)
(* ExpandTop takes the turns.                                              *)
(***************************************************************************)
LEMMA ExpandTopLoops ==
  ASSUME GraphTyped, NEW I \in SUBSET RunsOver(Nodes(graph)), NEW M \in [I -> Nat],
         \A r \in I : r \notin Expanded(Nodes(graph)) => /\ ExpandTurn(r) \in I
                                                         /\ M[ExpandTurn(r)] < M[r],
         NEW start \in I
  PROVE  ExpandTop(start) \in I /\ ExpandTop(start) \in Expanded(Nodes(graph))
  <1> DEFINE N == Nodes(graph)
             D == RunsOver(N)
             X == Expanded(N)
             e == [r \in D |-> ExpandTurn(r)]
             Eq(f) == f = [r \in D |-> IF Last(r.pending).expanded THEN r ELSE f[ExpandTurn(r)]]
             f == CHOOSE h : Eq(h)
  <1>1. ExpandTop(start) = f[start]
    BY Zenon DEF ExpandTop, RunsOver, FramesOf, ExpandTurn, Flag
  <1>2. e \in [D -> D] /\ \A r \in D : e[r] = ExpandTurn(r)
    BY ExpandTurns
  <1>3. \A r \in D : r \in X <=> Last(r.pending).expanded
    BY DEF Expanded, Last
  <1> HIDE DEF D, X, e
  <1>4. ASSUME NEW h PROVE Eq(h) <=> IsLoop(D, e, X, h)
    <2>1. [r \in D |-> IF Last(r.pending).expanded THEN r ELSE h[ExpandTurn(r)]]
            = [r \in D |-> IF r \in X THEN r ELSE h[e[r]]]
      BY <1>2, <1>3
    <2> QED
      BY <2>1 DEF IsLoop
  <1>5. \E h : IsLoop(D, e, X, h)
    BY <1>2, LoopExists
  <1>6. Eq(f)
    <2> HIDE DEF Eq
    <2> QED
      BY <1>4, <1>5
  <1>7. IsLoop(D, e, X, f)
    <2> HIDE DEF f
    <2> QED
      BY <1>4, <1>6
  <1> HIDE DEF f, Eq
  <1>8. \A r \in I : r \in D
    BY DEF D
  <1>9. \A r \in I : r \notin X => e[r] \in I /\ M[e[r]] < M[r]
    BY <1>2, <1>8 DEF X
  <1>10. f[start] \in I /\ f[start] \in X
    BY <1>2, <1>7, <1>8, <1>9, LoopEnds
  <1> QED
    BY <1>1, <1>10 DEF X

(***************************************************************************)
(* What holds of a run of the post-order.                                  *)
(***************************************************************************)
Orderly(N, R, S, V, P, Y) ==
  Once(N, V, P, Y) /\ Reached(R, S, V) /\ Done(R, V, P, Y) /\ Behind(N, R, S, V, P, Y)

OpenNodes(N, P) == {n \in N : \A i \in 1..Len(P) : P[i].expanded => P[i].node # n}

LEMMA ExpandTopOrderly ==
  ASSUME GraphTyped, NEW S, StepsOver(Nodes(graph), Steps, S), NEW V, NEW P, NEW Y,
         Orderly(Nodes(graph), Steps, S, V, P, Y), P # <<>>
  PROVE  LET run == ExpandTop([visited |-> V, pending |-> P])
         IN  /\ run \in RunsOver(Nodes(graph)) /\ run.pending[Len(run.pending)].expanded
             /\ Orderly(Nodes(graph), Steps, S, run.visited, run.pending, Y)
  <1> DEFINE N == Nodes(graph)
             R == Steps
             start == [visited |-> V, pending |-> P]
             run == ExpandTop(start)
             I == {r \in RunsOver(N) : Orderly(N, R, S, r.visited, r.pending, Y)}
             M == [r \in I |-> Cardinality(OpenNodes(N, r.pending))]
  <1>1. IsFiniteSet(N)
    <2>1. graph.size \in Nat /\ N = 1..graph.size
      BY GraphElim
    <2> HIDE DEF N
    <2> QED
      BY <2>1, FS_Interval
  <1>2. \A Q : IsFiniteSet(OpenNodes(N, Q)) /\ Cardinality(OpenNodes(N, Q)) \in Nat
    <2> TAKE Q
    <2>1. OpenNodes(N, Q) \in SUBSET N
      BY DEF OpenNodes
    <2> HIDE DEF N
    <2> QED
      BY <1>1, <2>1, FS_Subset, FS_CardinalityType
  <1>3. M \in [I -> Nat]
    BY <1>2
  <1>4. start \in I
    <2>1. V \in SUBSET N /\ P \in Seq(FramesOf(N))
      BY OnceElim DEF Orderly, Once
    <2> QED
      BY <2>1 DEF RunsOver
  <1>5. ASSUME NEW r \in I, r \notin Expanded(N)
        PROVE  ExpandTurn(r) \in I /\ M[ExpandTurn(r)] < M[r]
    <2> DEFINE A == r.visited
               B == r.pending
               C == Flag(r).pending
               ns == Reverse(Ahead(Last(B).node))
               t == B[Len(B)].node
               W == ExpandTurn(r).visited
               Q == ExpandTurn(r).pending
    <2>1. r \in RunsOver(N) /\ Orderly(N, R, S, A, B, Y) /\ ~B[Len(B)].expanded
      BY <1>5 DEF Expanded
    <2>2. /\ ExpandTurn(r) \in RunsOver(N) /\ Flagged(N, B, C) /\ ns \in Seq(N)
          /\ Pushed(N, A, C, ns, W, Q)
          /\ \A m : m \in ToSet(ns) <=> <<t, m>> \in R /\ m # t
      BY <2>1, ExpandTurns
    <2>3. StepsOver(N, R, S)
      OBVIOUS
    <2> HIDE DEF N, R, A, B, C, ns, W, Q
    <2>4. Once(N, W, Q, Y) /\ Reached(R, S, W) /\ Done(R, W, Q, Y)
      BY <2>1, <2>2, <2>3, ExpandDone DEF Orderly
    <2>5. Behind(N, R, S, W, Q, Y)
      BY <2>1, <2>2, <2>3, ExpandBehind DEF Orderly
    <2>6. ExpandTurn(r) \in I
      BY <2>2, <2>4, <2>5 DEF Orderly, W, Q
    <2>7. Cardinality(OpenNodes(N, Q)) < Cardinality(OpenNodes(N, B))
      <3> DEFINE O == OpenNodes(N, B)
                 U == OpenNodes(N, Q)
      <3>1. /\ Len(B) \in Nat /\ Len(Q) \in Nat /\ Len(C) = Len(B) /\ Len(B) <= Len(Q)
            /\ Len(B) \in 1..Len(B)
            /\ \A i \in 1..Len(B) : Q[i] = C[i]
        BY <2>1, <2>4, <2>2, OnceElim DEF Orderly, Flagged, Pushed
      <3>2. t \in N /\ \A i, j \in 1..Len(B) : B[i].node = B[j].node => i = j
        <4>1. Once(N, A, B, Y)
          BY <2>1 DEF Orderly
        <4>2. \A i \in 1..Len(B) : B[i].node \in N
          BY <4>1, OnceElim
        <4>3. \A i, j \in 1..Len(B) : B[i].node = B[j].node => i = j
          BY <4>1 DEF Once
        <4>4. t = B[Len(B)].node
          OBVIOUS
        <4> HIDE DEF t
        <4> QED
          BY <3>1, <4>2, <4>3, <4>4
      <3>3. t \in O
        BY <2>1, <3>1, <3>2 DEF OpenNodes
      <3>4. Q[Len(B)].expanded /\ Q[Len(B)].node = t /\ Len(B) \in 1..Len(Q)
        BY <2>2, <3>1 DEF Flagged
      <3>5. t \notin U
        BY <3>4 DEF OpenNodes
      <3>6. ASSUME NEW n \in U PROVE n \in O
        <4>1. n \in N /\ \A i \in 1..Len(Q) : Q[i].expanded => Q[i].node # n
          BY DEF OpenNodes
        <4>2. ASSUME NEW i \in 1..Len(B), B[i].expanded PROVE B[i].node # n
          <5>1. i # Len(B) /\ i \in 1..Len(Q)
            BY <2>1, <3>1, <4>2
          <5>2. Q[i].expanded /\ Q[i].node = B[i].node
            BY <2>2, <3>1, <4>2, <5>1 DEF Flagged
          <5> QED
            BY <4>1, <5>1, <5>2
        <4> QED
          BY <4>1, <4>2 DEF OpenNodes
      <3>7. IsFiniteSet(O) /\ Cardinality(O) \in Nat /\ Cardinality(U) \in Nat
        BY <1>2
      <3> HIDE DEF O, U
      <3>8. U \in SUBSET O /\ U # O
        BY <3>3, <3>5, <3>6
      <3>9. Cardinality(U) <= Cardinality(O) /\ (Cardinality(O) = Cardinality(U) => O = U)
        BY <3>7, <3>8, FS_Subset
      <3>10. Cardinality(U) < Cardinality(O)
        BY <3>7, <3>8, <3>9
      <3> QED
        BY <3>10 DEF O, U
    <2>8. M[ExpandTurn(r)] = Cardinality(OpenNodes(N, Q)) /\ M[r] = Cardinality(OpenNodes(N, B))
      BY <2>6 DEF Q, B
    <2> QED
      BY <2>6, <2>7, <2>8
  <1>6. run \in I /\ run \in Expanded(N)
    <2> HIDE DEF M, start
    <2>1. I \in SUBSET RunsOver(Nodes(graph))
      OBVIOUS
    <2> HIDE DEF I
    <2> QED
      BY <1>3, <1>4, <1>5, <2>1, ExpandTopLoops
  <1>7. run \in RunsOver(N) /\ Orderly(N, R, S, run.visited, run.pending, Y)
        /\ run.pending[Len(run.pending)].expanded
    BY <1>6 DEF Expanded
  <1> QED
    BY <1>7

-----------------------------------------------------------------------------
(***************************************************************************)
(* Taking a node and pushing the ones ahead of it, in one step.            *)
(***************************************************************************)
LEMMA BrowseDone ==
  ASSUME NEW N, NEW R, NEW S, NEW V, NEW P, NEW Y, NEW B, NEW o, NEW x, NEW ns \in Seq(N), NEW W, NEW Q,
         StepsOver(N, R, S), Once(N, V, P, Y), Reached(R, S, V), Done(R, V, P, Y),
         TakenAt(N, P, B, o, x), Pushed(N, V, B, ns, W, Q),
         \A m : m \in ToSet(ns) <=> <<x, m>> \in R /\ m # x
  PROVE  /\ Once(N, W, Q, Append(Y, x)) /\ Reached(R, S, W) /\ Done(R, W, Q, Append(Y, x))
         /\ x \in V
  <1> DEFINE Z == Append(Y, x)
             l == Len(Y) + 1
  <1>1. /\ Once(N, V, B, Z) /\ x \in N /\ x \in V
        /\ Len(Z) = l /\ Z[l] = x /\ \A i \in 1..Len(Y) : Z[i] = Y[i]
    BY TakeOnce
  <1>2. Len(Y) \in Nat /\ Len(P) \in Nat /\ \A i : i \in 1..l <=> i \in 1..Len(Y) \/ i = l
    BY OnceElim
  <1> HIDE DEF Z, l
  <1>3. Once(N, W, Q, Z) /\ \A y \in V : y \in W
    BY <1>1, PushOnce
  <1>4. \A y : y \in W <=> y \in V \/ (<<x, y>> \in R /\ y # x)
    BY DEF Pushed
  <1>5. Reached(R, S, W)
    BY <1>1, <1>4, ReachFacts DEF Reached
  <1>6. \A y : <<x, y>> \in R => y \in W
    BY <1>1, <1>4
  <1>7. ASSUME NEW i \in 1..Len(Q), Q[i].expanded, NEW y, <<Q[i].node, y>> \in R PROVE y \in W
    <2>1. /\ Len(B) \in Nat /\ Len(Q) \in Nat /\ Len(B) <= Len(Q) /\ Len(B) + 1 = Len(P) /\ o \in {0, 1}
          /\ \A k \in 1..Len(B) : Q[k] = B[k] /\ B[k] = P[k + o]
          /\ \A k \in 1..Len(Q) : k > Len(B) => ~Q[k].expanded
      BY <1>1, <1>3, OnceElim DEF Pushed, TakenAt
    <2>2. i \in 1..Len(B) /\ i + o \in 1..Len(P)
      BY <1>2, <1>7, <2>1
    <2>3. Q[i] = P[i + o]
      BY <2>1, <2>2
    <2> QED
      BY <1>3, <1>7, <2>2, <2>3 DEF Done
  <1>8. \A j \in 1..l : \A y : <<Z[j], y>> \in R => y \in W
    BY <1>1, <1>2, <1>3, <1>6 DEF Done
  <1>9. Done(R, W, Q, Z)
    BY <1>1, <1>7, <1>8 DEF Done
  <1> QED
    BY <1>1, <1>3, <1>5, <1>9 DEF Z

(***************************************************************************)
(* What is pending or yielded is a root or next to a node yielded before.  *)
(***************************************************************************)
Near(R, S, P, Y) ==
  /\ \A i \in 1..Len(P) : P[i].node \in S \/ \E j \in 1..Len(Y) : <<Y[j], P[i].node>> \in R
  /\ \A i \in 1..Len(Y) : Y[i] \in S \/ \E j \in 1..Len(Y) : j < i /\ <<Y[j], Y[i]>> \in R

LEMMA BrowseNear ==
  ASSUME NEW N, NEW R, NEW S, NEW V, NEW P, NEW Y, NEW B, NEW o, NEW x, NEW ns \in Seq(N), NEW W, NEW Q,
         Once(N, V, P, Y), Near(R, S, P, Y),
         TakenAt(N, P, B, o, x), Pushed(N, V, B, ns, W, Q),
         \A m : m \in ToSet(ns) <=> <<x, m>> \in R /\ m # x
  PROVE  Near(R, S, Q, Append(Y, x))
  <1> DEFINE Z == Append(Y, x)
             l == Len(Y) + 1
             k == IF o = 1 THEN 1 ELSE Len(P)
  <1>1. /\ Once(N, V, B, Z)
        /\ Len(Z) = l /\ Z[l] = x /\ \A i \in 1..Len(Y) : Z[i] = Y[i]
    BY TakeOnce
  <1>2. /\ Len(Y) \in Nat /\ Len(P) \in Nat /\ \A i : i \in 1..l <=> i \in 1..Len(Y) \/ i = l
        /\ \A i \in 1..Len(Y) : i < l
    BY OnceElim
  <1> HIDE DEF Z, l
  <1>3. /\ Len(B) \in Nat /\ Len(Q) \in Nat /\ Len(B) <= Len(Q) /\ Len(B) + 1 = Len(P) /\ o \in {0, 1}
        /\ \A i \in 1..Len(B) : Q[i] = B[i] /\ B[i] = P[i + o]
        /\ \A i \in 1..Len(Q) : i > Len(B) => Q[i].node \in ToSet(ns)
        /\ x = P[k].node
    <2>1. Len(B) \in Nat /\ Len(Q) \in Nat
      <3>1. B \in Seq(FramesOf(N)) /\ Q \in Seq(FramesOf(N))
        BY DEF Pushed, TakenAt
      <3> QED
        BY <3>1
    <2> QED
      BY <2>1 DEF Pushed, TakenAt
  <1>4. k \in 1..Len(P) /\ \A i \in 1..Len(B) : i + o \in 1..Len(P)
    BY <1>2, <1>3
  <1>5. x \in S \/ \E j \in 1..Len(Y) : <<Y[j], x>> \in R
    BY <1>3, <1>4 DEF Near
  <1> HIDE DEF k
  <1>6. ASSUME NEW i \in 1..Len(Q)
        PROVE  Q[i].node \in S \/ \E j \in 1..l : <<Z[j], Q[i].node>> \in R
    <2>1. CASE i > Len(B)
      BY <1>1, <1>2, <1>3, <2>1
    <2>2. CASE ~(i > Len(B))
      <3>1. i \in 1..Len(B)
        BY <1>3, <2>2
      <3>2. Q[i] = P[i + o] /\ i + o \in 1..Len(P)
        BY <1>3, <1>4, <3>1
      <3>3. Q[i].node \in S \/ \E j \in 1..Len(Y) : <<Y[j], Q[i].node>> \in R
        BY <3>2 DEF Near
      <3> QED
        BY <1>1, <1>2, <3>3
    <2> QED
      BY <2>1, <2>2
  <1>7. ASSUME NEW i \in 1..l
        PROVE  Z[i] \in S \/ \E j \in 1..l : j < i /\ <<Z[j], Z[i]>> \in R
    <2>1. CASE i = l
      BY <1>1, <1>2, <1>5, <2>1
    <2>2. CASE i \in 1..Len(Y)
      <3>1. Y[i] \in S \/ \E j \in 1..Len(Y) : j < i /\ <<Y[j], Y[i]>> \in R
        BY <2>2 DEF Near
      <3> QED
        BY <1>1, <1>2, <2>2, <3>1
    <2> QED
      BY <1>2, <2>1, <2>2
  <1> QED
    BY <1>1, <1>6, <1>7 DEF Near, Z

LEMMA RootNear ==
  ASSUME NEW N, NEW R, NEW S, NEW T, NEW V, NEW P, NEW Y, NEW W, NEW Q, NEW s \in N,
         \A x : x \in T <=> x \in S \/ x = s,
         Once(N, V, P, Y), Near(R, S, P, Y), Pushed(N, V, P, <<s>>, W, Q)
  PROVE  Near(R, T, Q, Y)
  <1>1. \A x : x \in ToSet(<<s>>) <=> x = s
    BY DEF ToSet
  <1>2. /\ Len(P) \in Nat /\ Len(P) <= Len(Q) /\ Len(Q) \in Nat
        /\ \A i \in 1..Len(P) : Q[i] = P[i]
        /\ \A i \in 1..Len(Q) : i > Len(P) => Q[i].node = s
    BY <1>1, OnceElim DEF Pushed
  <1>3. \A i \in 1..Len(Q) : i \in 1..Len(P) \/ i > Len(P)
    BY <1>2
  <1> QED
    BY <1>2, <1>3 DEF Near

-----------------------------------------------------------------------------
(***************************************************************************)
(* The rings around S, and the remoteness that they define.                *)
(***************************************************************************)
IsRing(R, S, z, f) == f = [k \in 0..z |-> IF k = 0 THEN S ELSE Grown(R, f[k - 1])]

RingOf(R, S, z) == CHOOSE f : IsRing(R, S, z, f)

Remote(R, S, z, n) ==
  LET at == {k \in 0..z : n \in RingOf(R, S, z)[k]}
  IN IF at = {} THEN 99 ELSE CHOOSE k \in at : \A l \in at : k <= l

InRing(R, S, z, n) == \E k \in 0..z : n \in RingOf(R, S, z)[k]

LEMMA RemotenessIs ==
  \A n : Remoteness(n) = Remote(Steps, AllRoots, graph.size, n)
  BY Zenon DEF Remoteness, Remote, RingOf, IsRing, Grown

LEMMA RingFacts ==
  ASSUME NEW R, NEW S, NEW z \in Nat, \A p \in R : p = <<p[1], p[2]>>
  PROVE  /\ RingOf(R, S, z)[0] = S
         /\ \A k \in 1..z : RingOf(R, S, z)[k] = Grown(R, RingOf(R, S, z)[k - 1])
         /\ \A T : \A x : x \in Grown(R, T) <=> x \in T \/ \E a \in T : <<a, x>> \in R
  <1> DEFINE U == Ends(R, S)
             In == [k \in 0..z |-> SUBSET U]
             step == [k \in 1..z |-> [T \in SUBSET U |-> Grown(R, T)]]
  <1>1. \A T \in SUBSET U : Grown(R, T) \in SUBSET U
    BY LeastGrows
  <1>2. S \in SUBSET U
    BY DEF Ends
  <1> HIDE DEF U
  <1>3. \A k \in 0..z : In[k] = SUBSET U
    OBVIOUS
  <1>4. \A k \in 1..z : \A T \in SUBSET U : step[k][T] = Grown(R, T)
    OBVIOUS
  <1>5. \A k \in 1..z : k \in 0..z /\ k - 1 \in 0..z /\ k # 0
    OBVIOUS
  <1>6. 0 \in 0..z
    OBVIOUS
  <1> HIDE DEF In, step
  <1>7. S \in In[0] /\ \A k \in 1..z : \A T \in In[k - 1] : step[k][T] \in In[k]
    BY <1>1, <1>2, <1>3, <1>4, <1>5, <1>6
  <1>8. PICK f : Iterates(f, z, In, S, step)
    BY <1>7, IterationExists
  <1>9. /\ f = [k \in 0..z |-> f[k]] /\ f[0] = S
        /\ \A k \in 1..z : f[k] = step[k][f[k - 1]]
        /\ \A k \in 0..z : f[k] \in In[k]
    BY <1>8 DEF Iterates
  <1>10. ASSUME NEW k \in 1..z PROVE f[k] = Grown(R, f[k - 1])
    <2>1. f[k - 1] \in SUBSET U
      BY <1>3, <1>5, <1>9
    <2>2. step[k][f[k - 1]] = Grown(R, f[k - 1])
      BY <1>4, <2>1
    <2> QED
      BY <1>9, <2>2
  <1>11. \A k \in 0..z : k # 0 => k \in 1..z
    OBVIOUS
  <1>12. IsRing(R, S, z, f)
    BY <1>9, <1>10, <1>11 DEF IsRing
  <1>13. IsRing(R, S, z, RingOf(R, S, z))
    BY <1>12 DEF RingOf
  <1>14. /\ RingOf(R, S, z)[0] = S
         /\ \A k \in 1..z : RingOf(R, S, z)[k] = Grown(R, RingOf(R, S, z)[k - 1])
    BY <1>5, <1>6, <1>13 DEF IsRing
  <1>15. ASSUME NEW T, NEW x PROVE x \in Grown(R, T) <=> x \in T \/ \E a \in T : <<a, x>> \in R
    <2>1. x \in Grown(R, T) <=> x \in T \/ \E p \in R : p[1] \in T /\ p[2] = x
      BY DEF Grown
    <2>2. ASSUME NEW p \in R, p[1] \in T, p[2] = x PROVE \E a \in T : <<a, x>> \in R
      <3>1. p = <<p[1], x>>
        BY <2>2
      <3> QED
        BY <2>2, <3>1
    <2>3. ASSUME NEW a \in T, <<a, x>> \in R PROVE \E p \in R : p[1] \in T /\ p[2] = x
      <3>1. <<a, x>>[1] = a /\ <<a, x>>[2] = x
        OBVIOUS
      <3> QED
        BY <2>3, <3>1
    <2> QED
      BY <2>1, <2>2, <2>3
  <1> QED
    BY <1>14, <1>15

(***************************************************************************)
(* Remoteness is least, 0 for roots only, and rises by one with a step.    *)
(***************************************************************************)
LEMMA RemoteLeast ==
  ASSUME NEW R, NEW S, NEW z \in Nat, NEW n
  PROVE  /\ InRing(R, S, z, n) => /\ Remote(R, S, z, n) \in 0..z
                                  /\ n \in RingOf(R, S, z)[Remote(R, S, z, n)]
         /\ \A k \in 0..z : n \in RingOf(R, S, z)[k] => /\ InRing(R, S, z, n)
                                                        /\ Remote(R, S, z, n) <= k
  <1> DEFINE at == {k \in 0..z : n \in RingOf(R, S, z)[k]}
             d == Remote(R, S, z, n)
  <1>1. InRing(R, S, z, n) <=> at # {}
    BY DEF InRing
  <1>2. ASSUME at # {} PROVE d \in at /\ \A k \in at : d <= k
    <2>1. at \subseteq Nat
      OBVIOUS
    <2>2. d = CHOOSE k \in at : \A l \in at : k <= l
      BY <1>2 DEF Remote
    <2> HIDE DEF at, d
    <2>3. \E k \in at : \A l \in at : k <= l
      BY <1>2, <2>1, LeastNatural
    <2> QED
      BY <2>2, <2>3
  <1>3. \A k \in 0..z : n \in RingOf(R, S, z)[k] => k \in at
    OBVIOUS
  <1>4. \A k \in at : k \in 0..z /\ n \in RingOf(R, S, z)[k]
    OBVIOUS
  <1> HIDE DEF at
  <1> QED
    BY <1>1, <1>2, <1>3, <1>4

(***************************************************************************)
(* Some node leads to b and is one step nearer to the roots.               *)
(***************************************************************************)
OneFurther(R, S, z, b) ==
  \E a : <<a, b>> \in R /\ InRing(R, S, z, a) /\ Remote(R, S, z, a) + 1 = Remote(R, S, z, b)

LEMMA RemoteFacts ==
  ASSUME NEW N, NEW R, NEW S, NEW z \in Nat, StepsOver(N, R, S)
  PROVE  /\ \A n : InRing(R, S, z, n) => Remote(R, S, z, n) \in 0..z
         /\ \A n \in S : InRing(R, S, z, n) /\ Remote(R, S, z, n) = 0
         /\ \A n : InRing(R, S, z, n) /\ Remote(R, S, z, n) = 0 => n \in S
         /\ \A a, b : InRing(R, S, z, a) /\ Remote(R, S, z, a) < z /\ <<a, b>> \in R =>
              InRing(R, S, z, b) /\ Remote(R, S, z, b) <= Remote(R, S, z, a) + 1
         /\ \A b : InRing(R, S, z, b) /\ Remote(R, S, z, b) > 0 => OneFurther(R, S, z, b)
  <1> DEFINE d(n) == Remote(R, S, z, n)
             in(n) == InRing(R, S, z, n)
             ring(k) == RingOf(R, S, z)[k]
  <1>1. /\ ring(0) = S /\ \A k \in 1..z : ring(k) = Grown(R, ring(k - 1))
        /\ \A T : \A x : x \in Grown(R, T) <=> x \in T \/ \E a \in T : <<a, x>> \in R
    <2>1. \A p \in R : p = <<p[1], p[2]>>
      BY DEF StepsOver
    <2>2. RingOf(R, S, z)[0] = S
      BY <2>1, RingFacts
    <2>3. \A k \in 1..z : RingOf(R, S, z)[k] = Grown(R, RingOf(R, S, z)[k - 1])
      BY <2>1, RingFacts
    <2>4. \A T : \A x : x \in Grown(R, T) <=> x \in T \/ \E a \in T : <<a, x>> \in R
      BY <2>1, RingFacts
    <2> QED
      BY <2>2, <2>3, <2>4
  <1>2. \A n : /\ in(n) => d(n) \in 0..z /\ n \in ring(d(n))
               /\ \A k \in 0..z : n \in ring(k) => in(n) /\ d(n) <= k
    BY RemoteLeast
  <1> HIDE DEF d, in, ring
  <1>3. \A n \in S : in(n) /\ d(n) = 0
    <2>1. 0 \in 0..z
      OBVIOUS
    <2>2. ASSUME NEW n \in S PROVE in(n) /\ d(n) = 0
      <3>1. in(n) /\ d(n) <= 0
        BY <1>1, <1>2, <2>1
      <3>2. d(n) \in 0..z
        BY <1>2, <3>1
      <3> QED
        BY <3>1, <3>2
    <2> QED
      BY <2>2
  <1>4. \A n : in(n) /\ d(n) = 0 => n \in S
    BY <1>1, <1>2
  <1>5. ASSUME NEW a, NEW b, in(a), d(a) < z, <<a, b>> \in R PROVE in(b) /\ d(b) <= d(a) + 1
    <2> DEFINE k == d(a) + 1
    <2>1. d(a) \in 0..z /\ a \in ring(d(a))
      BY <1>2, <1>5
    <2>2. k \in 1..z /\ k - 1 = d(a) /\ k \in 0..z
      BY <1>5, <2>1
    <2> HIDE DEF k
    <2>3. b \in ring(k)
      BY <1>1, <1>5, <2>1, <2>2
    <2> QED
      BY <1>2, <2>2, <2>3 DEF k
  <1>6. ASSUME NEW b, in(b), d(b) > 0 PROVE OneFurther(R, S, z, b)
    <2>1. d(b) \in 1..z /\ d(b) - 1 \in 0..z /\ ~(d(b) <= d(b) - 1) /\ b \in ring(d(b))
      <3>1. d(b) \in 0..z /\ b \in ring(d(b))
        BY <1>2, <1>6
      <3> QED
        BY <1>6, <3>1
    <2>2. b \notin ring(d(b) - 1)
      BY <1>2, <2>1
    <2>3. b \in Grown(R, ring(d(b) - 1))
      BY <1>1, <2>1
    <2>4. PICK a \in ring(d(b) - 1) : <<a, b>> \in R
      BY <1>1, <2>2, <2>3
    <2>5. in(a) /\ d(a) <= d(b) - 1
      BY <1>2, <2>1, <2>4
    <2>6. d(a) \in 0..z
      BY <1>2, <2>5
    <2>7. d(a) < z
      BY <2>1, <2>5, <2>6
    <2>8. d(b) <= d(a) + 1
      BY <1>5, <2>4, <2>5, <2>7
    <2>9. d(a) + 1 = d(b)
      BY <2>1, <2>5, <2>6, <2>8
    <2> QED
      BY <2>4, <2>5, <2>9, Zenon DEF OneFurther, d, in
  <1> QED
    BY <1>2, <1>3, <1>4, <1>5, <1>6 DEF d, in

-----------------------------------------------------------------------------
(***************************************************************************)
(* A list without repetitions of numbers up to z has no more than z.       *)
(***************************************************************************)
LEMMA ListBounded ==
  ASSUME NEW z \in Nat, NEW Y \in Seq(1..z), \A i, j \in 1..Len(Y) : Y[i] = Y[j] => i = j
  PROVE  Len(Y) <= z
  <1> DEFINE n == Len(Y)
             N == 1..z
             D == 1..n
  <1>1. n \in Nat /\ Y \in [1..n -> N]
    OBVIOUS
  <1>2. IsFiniteSet(N) /\ Cardinality(N) = z /\ Cardinality(D) = n
    <2>1. IsFiniteSet(1..z) /\ Cardinality(1..z) = IF 1 > z THEN 0 ELSE z - 1 + 1
      BY FS_Interval
    <2>2. ASSUME NEW m \in Nat PROVE Cardinality(1..m) = IF 1 > m THEN 0 ELSE m - 1 + 1
      BY FS_Interval
    <2> QED
      BY <1>1, <2>1, <2>2
  <1>3. Y \in Injection(D, N)
    BY <1>1 DEF Injection, IsInjective
  <1> HIDE DEF D, N, n
  <1>4. Cardinality(D) <= Cardinality(N)
    BY <1>2, <1>3, FS_Injection
  <1> QED
    BY <1>2, <1>4 DEF n

(***************************************************************************)
(* The layers of a breadth-first search.                                   *)
(***************************************************************************)
Layered(R, S, z, V, P, Y) ==
  /\ \A i \in 1..Len(Y) : InRing(R, S, z, Y[i]) /\ Remote(R, S, z, Y[i]) < i
  /\ \A i \in 1..Len(P) : InRing(R, S, z, P[i].node) /\ Remote(R, S, z, P[i].node) < Len(Y) + i
  /\ \A i \in 2..Len(Y) : Remote(R, S, z, Y[i - 1]) <= Remote(R, S, z, Y[i])
  /\ \A i, j \in 1..Len(P) : i < j => Remote(R, S, z, P[i].node) <= Remote(R, S, z, P[j].node)
  /\ Len(P) > 0 =>
       /\ Len(Y) > 0 => Remote(R, S, z, Y[Len(Y)]) <= Remote(R, S, z, P[1].node)
       /\ \A i \in 1..Len(P) : Remote(R, S, z, P[i].node) <= Remote(R, S, z, P[1].node) + 1
       /\ \A x : InRing(R, S, z, x) /\ x \notin V => Remote(R, S, z, x) > Remote(R, S, z, P[1].node)
  /\ Y = <<>> => \A i \in 1..Len(P) : P[i].node \in S

LEMMA RootsLayered ==
  ASSUME NEW N, NEW R, NEW S, NEW z \in Nat, StepsOver(N, R, S), NEW V, NEW P,
         Once(N, V, P, <<>>), \A i \in 1..Len(P) : P[i].node \in S, \A x \in S : x \in V
  PROVE  Layered(R, S, z, V, P, <<>>)
  <1>1. /\ \A n : InRing(R, S, z, n) => Remote(R, S, z, n) \in 0..z
        /\ \A n \in S : InRing(R, S, z, n) /\ Remote(R, S, z, n) = 0
        /\ \A n : InRing(R, S, z, n) /\ Remote(R, S, z, n) = 0 => n \in S
    BY RemoteFacts
  <1>2. Len(<<>>) = 0 /\ Len(P) \in Nat /\ 1..0 = {} /\ 2..0 = {}
    BY OnceElim
  <1>3. \A i \in 1..Len(P) : i > 0 /\ 0 + i = i
    BY <1>2
  <1>4. \A x : InRing(R, S, z, x) /\ x \notin V => Remote(R, S, z, x) > 0
    BY <1>1
  <1>5. Len(P) > 0 => 1 \in 1..Len(P)
    BY <1>2
  <1> QED
    BY <1>1, <1>2, <1>3, <1>4, <1>5 DEF Layered

-----------------------------------------------------------------------------
(***************************************************************************)
(* A step of the breadth-first search keeps the layers.                    *)
(***************************************************************************)
LEMMA BrowseLayered ==
  ASSUME NEW R, NEW S, NEW z \in Nat, NEW V, NEW P, NEW Y, NEW B, NEW x, NEW ns \in Seq(1..z),
         NEW W, NEW Q,
         StepsOver(1..z, R, S), Once(1..z, V, P, Y), Layered(R, S, z, V, P, Y),
         TakenAt(1..z, P, B, 1, x), Pushed(1..z, V, B, ns, W, Q),
         \A m : m \in ToSet(ns) <=> <<x, m>> \in R /\ m # x,
         Once(1..z, W, Q, Append(Y, x)), Done(R, W, Q, Append(Y, x))
  PROVE  Layered(R, S, z, W, Q, Append(Y, x))
  <1> DEFINE N == 1..z
             Z == Append(Y, x)
             l == Len(Y) + 1
             d(n) == Remote(R, S, z, n)
             in(n) == InRing(R, S, z, n)
             h == d(x)
  <1>1. /\ \A n : in(n) => d(n) \in 0..z
        /\ \A a, b : in(a) /\ d(a) < z /\ <<a, b>> \in R => in(b) /\ d(b) <= d(a) + 1
        /\ \A b : in(b) /\ d(b) > 0 => \E a : <<a, b>> \in R /\ in(a) /\ d(a) + 1 = d(b)
    <2>1. \A n : in(n) => d(n) \in 0..z
      BY RemoteFacts
    <2>2. \A a, b : in(a) /\ d(a) < z /\ <<a, b>> \in R => in(b) /\ d(b) <= d(a) + 1
      BY RemoteFacts, Zenon
    <2>3. \A b : in(b) /\ d(b) > 0 => OneFurther(R, S, z, b)
      BY RemoteFacts
    <2>4. ASSUME NEW b, OneFurther(R, S, z, b) PROVE \E a : <<a, b>> \in R /\ in(a) /\ d(a) + 1 = d(b)
      BY <2>4, Zenon DEF OneFurther
    <2> QED
      BY <2>1, <2>2, <2>3, <2>4, Zenon
  <1>2. Len(Z) = l /\ Z[l] = x /\ \A i \in 1..Len(Y) : Z[i] = Y[i]
    BY TakeOnce
  <1>3. l <= z
    <2>1. Z \in Seq(N) /\ \A i, j \in 1..Len(Z) : Z[i] = Z[j] => i = j
      BY DEF Once
    <2> HIDE DEF Z
    <2>2. Len(Z) <= z
      BY <2>1, ListBounded
    <2> QED
      BY <1>2, <2>2
  <1>4. /\ Len(P) \in Nat /\ Len(Y) \in Nat /\ Len(Q) \in Nat /\ Len(B) \in Nat
        /\ Len(B) + 1 = Len(P) /\ Len(B) <= Len(Q)
        /\ \A i \in 1..Len(B) : B[i] = P[i + 1] /\ Q[i] = B[i]
        /\ x = P[1].node
        /\ \A i \in 1..Len(Q) : i > Len(B) => Q[i].node \notin V /\ Q[i].node \in ToSet(ns)
    <2>1. Len(P) \in Nat /\ Len(Y) \in Nat /\ Len(Q) \in Nat
      BY OnceElim
    <2>2. Len(B) \in Nat
      <3>1. B \in Seq(FramesOf(N))
        BY DEF TakenAt
      <3> HIDE DEF N
      <3> QED
        BY <3>1
    <2> QED
      BY <2>1, <2>2 DEF TakenAt, Pushed
  <1>5. /\ \A i \in 1..Len(Y) : in(Y[i]) /\ d(Y[i]) < i
        /\ \A i \in 1..Len(P) : in(P[i].node) /\ d(P[i].node) < Len(Y) + i
        /\ \A i \in 2..Len(Y) : d(Y[i - 1]) <= d(Y[i])
        /\ \A i, j \in 1..Len(P) : i < j => d(P[i].node) <= d(P[j].node)
        /\ Len(P) > 0 =>
             /\ Len(Y) > 0 => d(Y[Len(Y)]) <= d(P[1].node)
             /\ \A i \in 1..Len(P) : d(P[i].node) <= d(P[1].node) + 1
             /\ \A y : in(y) /\ y \notin V => d(y) > d(P[1].node)
    BY DEF Layered
  <1>6. \A y \in V : y \in W
    BY DEF Pushed
  <1>7. Once(N, W, Q, Z) /\ Done(R, W, Q, Z)
    OBVIOUS
  <1>8. \A m : m \in ToSet(ns) => <<x, m>> \in R
    OBVIOUS
  <1>9. \A y \in W : \/ \E i \in 1..Len(Q) : Q[i].node = y
                     \/ \E j \in 1..l : Z[j] = y
    BY <1>2, <1>7 DEF Once
  <1>10. \A j \in 1..l : \A y : <<Z[j], y>> \in R => y \in W
    BY <1>2, <1>7 DEF Done
  <1> HIDE DEF N, Z, l, d, in
  <1>11. l = Len(Y) + 1 /\ \A i : i \in 1..l <=> i \in 1..Len(Y) \/ i = l
    BY <1>4 DEF l
  <1>12. Len(P) > 0 /\ 1 \in 1..Len(P) /\ \A i \in 1..Len(B) : i + 1 \in 1..Len(P) /\ 1 < i + 1
    BY <1>4
  <1>13. in(x) /\ h < l /\ h \in 0..z /\ h < z
    <2>1. in(x) /\ h < Len(Y) + 1
      BY <1>4, <1>5, <1>12
    <2>2. h \in 0..z
      BY <1>1, <2>1
    <2> HIDE DEF h
    <2> QED
      BY <1>3, <1>4, <1>11, <2>1, <2>2
  <1>14. ASSUME NEW i \in 1..Len(Q), i > Len(B)
         PROVE  in(Q[i].node) /\ d(Q[i].node) = h + 1
    <2>1. <<x, Q[i].node>> \in R /\ Q[i].node \notin V
      BY <1>4, <1>8, <1>14
    <2>2. in(Q[i].node) /\ d(Q[i].node) <= h + 1
      BY <1>1, <1>13, <2>1
    <2>3. d(Q[i].node) > h /\ d(Q[i].node) \in 0..z
      BY <1>1, <1>4, <1>5, <1>12, <2>1, <2>2
    <2> HIDE DEF h
    <2> QED
      BY <1>13, <2>2, <2>3
  <1>15. ASSUME NEW i \in 1..Len(B)
         PROVE  /\ in(Q[i].node) /\ Q[i] = P[i + 1] /\ h <= d(Q[i].node) /\ d(Q[i].node) <= h + 1
                /\ d(Q[i].node) < l + i /\ d(Q[i].node) \in 0..z
    <2>1. Q[i] = P[i + 1] /\ i + 1 \in 1..Len(P) /\ 1 < i + 1 /\ Len(Y) + (i + 1) = l + i
      <3>1. Q[i] = P[i + 1] /\ i + 1 \in 1..Len(P) /\ 1 < i + 1
        BY <1>4, <1>12
      <3>2. Len(Y) \in Nat /\ l = Len(Y) + 1 /\ i \in Nat
        BY <1>4, <1>11
      <3>3. Len(Y) + (i + 1) = l + i
        BY <3>2
      <3> QED
        BY <3>1, <3>3
    <2>2. in(Q[i].node) /\ d(Q[i].node) < Len(Y) + (i + 1)
      BY <1>5, <2>1
    <2>3. h <= d(Q[i].node) /\ d(Q[i].node) <= h + 1
      BY <1>4, <1>5, <1>12, <2>1
    <2>4. d(Q[i].node) \in 0..z
      BY <1>1, <2>2
    <2> QED
      BY <2>1, <2>2, <2>3, <2>4
  <1>16. \A i \in 1..Len(Q) : i \in 1..Len(B) \/ i > Len(B)
    BY <1>4
  <1> HIDE DEF h
  <1>17. \A i \in 1..Len(Q) : /\ in(Q[i].node) /\ d(Q[i].node) \in 0..z
                              /\ h <= d(Q[i].node) /\ d(Q[i].node) <= h + 1
    <2>1. \A i \in 1..Len(Q) : i > Len(B) =>
            in(Q[i].node) /\ d(Q[i].node) \in 0..z /\ h <= d(Q[i].node) /\ d(Q[i].node) <= h + 1
      BY <1>1, <1>13, <1>14
    <2> QED
      BY <1>15, <1>16, <2>1
  <1>18. \A i \in 1..l : in(Z[i]) /\ d(Z[i]) < i
    BY <1>2, <1>5, <1>11, <1>13 DEF h
  <1>19. \A i \in 1..Len(Q) : in(Q[i].node) /\ d(Q[i].node) < l + i
    <2>1. ASSUME NEW i \in 1..Len(Q), i > Len(B) PROVE d(Q[i].node) < l + i
      <3>1. d(Q[i].node) = h + 1 /\ i \in Nat /\ i >= 1 /\ l \in Nat /\ h \in Nat
        BY <1>4, <1>11, <1>13, <1>14, <2>1
      <3> QED
        BY <1>13, <3>1
    <2> QED
      BY <1>15, <1>16, <1>17, <2>1
  <1>20. \A i \in 2..l : d(Z[i - 1]) <= d(Z[i])
    <2>1. ASSUME NEW i \in 2..l PROVE d(Z[i - 1]) <= d(Z[i])
      <3>1. CASE i = l
        <4>1. i - 1 = Len(Y) /\ Len(Y) > 0 /\ Len(Y) \in 1..Len(Y)
          BY <1>4, <1>11, <3>1
        <4> QED
          BY <1>2, <1>4, <1>5, <1>12, <3>1, <4>1
      <3>2. CASE i # l
        <4>1. i \in 2..Len(Y) /\ i \in 1..Len(Y) /\ i - 1 \in 1..Len(Y)
          BY <1>4, <1>11, <3>2
        <4> QED
          BY <1>2, <1>5, <4>1
      <3> QED
        BY <3>1, <3>2
    <2> QED
      BY <2>1
  <1>21. ASSUME NEW i \in 1..Len(Q), NEW j \in 1..Len(Q), i < j
         PROVE  d(Q[i].node) <= d(Q[j].node)
    <2>1. CASE j > Len(B)
      <3>1. d(Q[j].node) = h + 1
        BY <1>14, <2>1
      <3> QED
        BY <1>17, <3>1
    <2>2. CASE j \in 1..Len(B)
      <3>1. i \in 1..Len(B) /\ i + 1 \in 1..Len(P) /\ j + 1 \in 1..Len(P) /\ i + 1 < j + 1
        BY <1>4, <1>12, <1>21, <2>2
      <3>2. Q[i] = P[i + 1] /\ Q[j] = P[j + 1]
        BY <1>15, <2>2, <3>1
      <3> QED
        BY <1>5, <3>1, <3>2
    <2> QED
      BY <1>16, <2>1, <2>2
  <1>22. ASSUME Len(Q) > 0, NEW y, in(y), y \notin W PROVE d(y) > d(Q[1].node)
    <2>1. y \notin V /\ d(y) > h /\ d(y) \in 0..z
      BY <1>1, <1>4, <1>5, <1>6, <1>12, <1>22 DEF h
    <2>2. 1 \in 1..Len(Q)
      BY <1>4, <1>22
    <2>3. d(Q[1].node) \in 0..z /\ h <= d(Q[1].node) /\ d(Q[1].node) <= h + 1
      BY <1>17, <2>2
    <2>4. CASE d(Q[1].node) = h
      BY <2>1, <2>4
    <2>5. CASE d(Q[1].node) # h
      <3>1. d(Q[1].node) = h + 1
        BY <1>13, <2>3, <2>5
      <3>2. CASE d(y) = h + 1
        <4>0. d(y) > 0
          BY <1>13, <2>1
        <4>1. PICK a : <<a, y>> \in R /\ in(a) /\ d(a) + 1 = d(y)
          BY <1>1, <1>22, <4>0
        <4>2. d(a) = h
          <5>1. d(a) \in 0..z
            BY <1>1, <4>1
          <5> QED
            BY <1>13, <3>2, <4>1, <5>1
        <4>3. a \in V
          BY <1>4, <1>5, <1>12, <1>13, <4>1, <4>2 DEF h
        <4>4. a \in W
          BY <1>6, <4>3
        <4>5. \A i \in 1..Len(Q) : Q[i].node # a
          <5>1. ASSUME NEW i \in 1..Len(Q), Q[i].node = a PROVE FALSE
            <6>1. d(Q[1].node) <= d(Q[i].node)
              <7>1. CASE i = 1
                BY <2>3, <7>1
              <7>2. CASE i # 1
                BY <1>21, <2>2, <7>2
              <7> QED
                BY <7>1, <7>2
            <6> QED
              BY <1>13, <3>1, <4>2, <5>1, <6>1
          <5> QED
            BY <5>1
        <4>6. PICK j \in 1..l : Z[j] = a
          BY <1>9, <4>4, <4>5
        <4> QED
          BY <1>10, <1>22, <4>1, <4>6
      <3> QED
        BY <1>13, <2>1, <3>1, <3>2
    <2> QED
      BY <2>4, <2>5
  <1>23. ASSUME Len(Q) > 0
         PROVE  /\ d(Z[l]) <= d(Q[1].node)
                /\ \A i \in 1..Len(Q) : d(Q[i].node) <= d(Q[1].node) + 1
    <2>1. 1 \in 1..Len(Q)
      BY <1>4, <1>23
    <2>2. d(Q[1].node) \in 0..z /\ h <= d(Q[1].node)
      BY <1>17, <2>1
    <2>3. \A i \in 1..Len(Q) : d(Q[i].node) <= d(Q[1].node) + 1
      BY <1>13, <1>17, <2>2
    <2> QED
      BY <1>2, <2>2, <2>3 DEF h
  <1>24. Z # <<>>
    <2>1. Len(Z) = l /\ l > 0
      BY <1>2, <1>4, <1>11
    <2> QED
      BY <2>1
  <1>25. Layered(R, S, z, W, Q, Z)
    BY <1>2, <1>18, <1>19, <1>20, <1>21, <1>22, <1>23, <1>24 DEF Layered, d, in
  <1> QED
    BY <1>25 DEF Z

-----------------------------------------------------------------------------
(***************************************************************************)
(* The roots, each with what had been yielded when it was added.           *)
(***************************************************************************)
RootNodes(rs) == {r[1] : r \in ToSet(rs)}

Rooted(N, rs, Y) == /\ rs \in Seq(N \X Nat)
                    /\ \A r \in ToSet(rs) : r[2] <= Len(Y)

AtStart(rs) == \A x \in RootNodes(rs) : \E r \in ToSet(rs) : r[1] = x /\ r[2] = 0

LEMMA RootsElim ==
  ASSUME NEW N, NEW rs, NEW Y, Rooted(N, rs, Y)
  PROVE  /\ \A r \in ToSet(rs) : r[1] \in N /\ r[2] \in Nat /\ r[2] <= Len(Y)
         /\ RootNodes(rs) \subseteq N
         /\ \A x : x \in RootNodes(rs) <=> \E r \in ToSet(rs) : r[1] = x
  <1> DEFINE X == N \X Nat
  <1>1. \A r \in X : r[1] \in N /\ r[2] \in Nat
    OBVIOUS
  <1>2. rs \in Seq(X)
    BY DEF Rooted
  <1> HIDE DEF X
  <1>3. \A r \in ToSet(rs) : r \in X
    BY <1>2 DEF ToSet
  <1>4. \A x : x \in RootNodes(rs) <=> \E r \in ToSet(rs) : r[1] = x
    BY DEF RootNodes
  <1> QED
    BY <1>1, <1>3, <1>4 DEF Rooted

LEMMA RootsAppended ==
  ASSUME NEW N, NEW rs, NEW Y, Rooted(N, rs, Y), NEW s \in N, Len(Y) \in Nat
  PROVE  /\ Rooted(N, Append(rs, <<s, Len(Y)>>), Y)
         /\ \A r : r \in ToSet(Append(rs, <<s, Len(Y)>>)) <=> r \in ToSet(rs) \/ r = <<s, Len(Y)>>
         /\ \A x : x \in RootNodes(Append(rs, <<s, Len(Y)>>)) <=> x \in RootNodes(rs) \/ x = s
  <1> DEFINE X == N \X Nat
             new == <<s, Len(Y)>>
             ps == Append(rs, new)
  <1>1. new \in X /\ new[1] = s /\ new[2] = Len(Y)
    OBVIOUS
  <1>2. rs \in Seq(X) /\ \A r \in ToSet(rs) : r[2] <= Len(Y)
    BY DEF Rooted
  <1> HIDE DEF X, new
  <1>3. /\ ps \in Seq(X) /\ DOMAIN ps = 1..(Len(rs) + 1) /\ DOMAIN rs = 1..Len(rs) /\ Len(rs) \in Nat
        /\ \A i \in 1..Len(rs) : ps[i] = rs[i]
        /\ ps[Len(rs) + 1] = new
    BY <1>1, <1>2
  <1>4. \A i : i \in 1..(Len(rs) + 1) <=> i \in 1..Len(rs) \/ i = Len(rs) + 1
    BY <1>3
  <1> HIDE DEF ps
  <1>5. \A r : r \in ToSet(ps) <=> r \in ToSet(rs) \/ r = new
    BY <1>3, <1>4 DEF ToSet
  <1>6. \A x : x \in RootNodes(ps) <=> x \in RootNodes(rs) \/ x = s
    BY <1>1, <1>5 DEF RootNodes
  <1>7. \A r \in ToSet(ps) : r[2] <= Len(Y)
    BY <1>1, <1>2, <1>5
  <1>8. Rooted(N, ps, Y)
    BY <1>3, <1>7 DEF Rooted, X
  <1> QED
    BY <1>5, <1>6, <1>8 DEF ps, new

-----------------------------------------------------------------------------
(***************************************************************************)
(* The invariant of a traversal of kind k over the nodes 1..z.             *)
(***************************************************************************)
Sound(k, z, R, rs, V, P, Y) ==
  /\ Rooted(1..z, rs, Y)
  /\ Once(1..z, V, P, Y)
  /\ Reached(R, RootNodes(rs), V)
  /\ Done(R, V, P, Y)
  /\ k = "dfs" => Near(R, RootNodes(rs), P, Y)
  /\ k = "post" => Behind(1..z, R, RootNodes(rs), V, P, Y)
  /\ k = "bfs" /\ AtStart(rs) => Layered(R, RootNodes(rs), z, V, P, Y)

LEMMA FreshSound ==
  ASSUME NEW k, NEW z \in Nat, NEW R
  PROVE  Sound(k, z, R, <<>>, {}, <<>>, <<>>)
  <1> DEFINE N == 1..z
             E == <<>>
  <1>1. /\ E \in Seq(N) /\ E \in Seq(FramesOf(N)) /\ E \in Seq(N \X Nat) /\ Len(E) = 0
        /\ ToSet(E) = {} /\ 1..0 = {} /\ 2..0 = {}
    BY DEF ToSet
  <1>2. RootNodes(E) = {}
    BY <1>1 DEF RootNodes
  <1> HIDE DEF E, N
  <1>3. Rooted(N, E, E) /\ Once(N, {}, E, E) /\ Reached(R, {}, {}) /\ Done(R, {}, E, E)
    BY <1>1 DEF Rooted, Once, Reached, Done
  <1>4. Near(R, {}, E, E) /\ Behind(N, R, {}, {}, E, E)
    BY <1>1 DEF Near, Behind
  <1>5. Layered(R, {}, z, {}, E, E)
    BY <1>1 DEF Layered
  <1>6. Sound(k, z, R, E, {}, E, E)
    BY <1>2, <1>3, <1>4, <1>5 DEF Sound, N
  <1> QED
    BY <1>6 DEF E

(***************************************************************************)
(* A root is added.                                                        *)
(***************************************************************************)
LEMMA RootSound ==
  ASSUME NEW k, NEW z \in Nat, NEW R, NEW rs, NEW V, NEW P, NEW Y, NEW s \in 1..z, NEW W, NEW Q,
         StepsOver(1..z, R, {}), Sound(k, z, R, rs, V, P, Y), s \notin RootNodes(rs),
         Pushed(1..z, V, P, <<s>>, W, Q)
  PROVE  Sound(k, z, R, Append(rs, <<s, Len(Y)>>), W, Q, Y)
  <1> DEFINE N == 1..z
             ps == Append(rs, <<s, Len(Y)>>)
             S == RootNodes(rs)
             T == RootNodes(ps)
  <1>1. Rooted(N, rs, Y) /\ Once(N, V, P, Y) /\ Reached(R, S, V) /\ Done(R, V, P, Y)
    BY DEF Sound
  <1>2. Len(Y) \in Nat /\ Len(P) \in Nat
    BY <1>1, OnceElim
  <1>3. /\ Rooted(N, ps, Y)
        /\ \A r : r \in ToSet(ps) <=> r \in ToSet(rs) \/ r = <<s, Len(Y)>>
        /\ \A x : x \in T <=> x \in S \/ x = s
    BY <1>1, <1>2, RootsAppended
  <1>4. IsFiniteSet(N)
    BY FS_Interval
  <1>5. S \subseteq N /\ T \subseteq N
    BY <1>1, <1>3, RootsElim
  <1>6. IsFiniteSet(S) /\ IsFiniteSet(T)
    <2> HIDE DEF N, S, T
    <2> QED
      BY <1>4, <1>5, FS_Subset
  <1>7. StepsOver(N, R, S) /\ StepsOver(N, R, T)
    BY <1>5, <1>6 DEF StepsOver
  <1>8. \A x \in S : \E r \in ToSet(rs) : r[1] = x
    BY <1>1, RootsElim
  <1>9. \A r \in ToSet(rs) : r[1] \in S /\ r[2] \in Nat /\ r[2] <= Len(Y)
    BY <1>1, RootsElim
  <1>10. Pushed(N, V, P, <<s>>, W, Q) /\ s \in N
    OBVIOUS
  <1>11. <<s, Len(Y)>>[1] = s /\ <<s, Len(Y)>>[2] = Len(Y)
    OBVIOUS
  <1>12. /\ k = "dfs" => Near(R, S, P, Y)
         /\ k = "post" => Behind(N, R, S, V, P, Y)
         /\ k = "bfs" /\ AtStart(rs) => Layered(R, S, z, V, P, Y)
    BY DEF Sound
  <1>13. s \notin S
    OBVIOUS
  <1>14. T = RootNodes(ps) /\ S = RootNodes(rs)
    OBVIOUS
  <1> HIDE DEF N, S, T, ps
  <1>15. Once(N, W, Q, Y) /\ Reached(R, T, W) /\ Done(R, W, Q, Y)
    BY <1>1, <1>3, <1>7, <1>10, RootReached
  <1>16. k = "dfs" => Near(R, T, Q, Y)
    BY <1>1, <1>3, <1>10, <1>12, RootNear
  <1>17. k = "post" => Behind(N, R, T, W, Q, Y)
    BY <1>1, <1>3, <1>7, <1>10, <1>12, RootBehind
  <1>18. ASSUME k = "bfs", AtStart(ps) PROVE Layered(R, T, z, W, Q, Y)
    <2>1. Len(Y) = 0
      <3>1. PICK r \in ToSet(ps) : r[1] = s /\ r[2] = 0
        BY <1>3, <1>14, <1>18 DEF AtStart
      <3>2. r \notin ToSet(rs)
        BY <1>9, <1>13, <3>1
      <3>3. r = <<s, Len(Y)>>
        BY <1>3, <3>1, <3>2
      <3> QED
        BY <1>11, <3>1, <3>3
    <2>2. Y = <<>>
      <3>1. Y \in Seq(N)
        BY <1>1 DEF Once
      <3> QED
        BY <2>1, <3>1
    <2>3. \A r \in ToSet(rs) : r[2] = 0
      BY <1>9, <2>1
    <2>4. AtStart(rs)
      BY <1>8, <1>14, <2>3 DEF AtStart
    <2>5. \A i \in 1..Len(P) : P[i].node \in S
      BY <1>12, <1>18, <2>2, <2>4 DEF Layered
    <2>6. /\ Len(P) <= Len(Q) /\ Len(Q) \in Nat
          /\ \A i \in 1..Len(P) : Q[i] = P[i]
          /\ \A i \in 1..Len(Q) : i > Len(P) => Q[i].node = s
      <3>1. \A x : x \in ToSet(<<s>>) <=> x = s
        BY DEF ToSet
      <3>2. Len(Q) \in Nat
        BY <1>15, OnceElim
      <3> QED
        BY <1>10, <3>1, <3>2 DEF Pushed
    <2>7. \A i \in 1..Len(Q) : i \in 1..Len(P) \/ i > Len(P)
      BY <1>2, <2>6
    <2>8. \A i \in 1..Len(Q) : Q[i].node \in T
      BY <1>3, <2>5, <2>6, <2>7
    <2>9. \A x \in T : x \in W
      BY <1>15 DEF Reached
    <2>10. Once(N, W, Q, <<>>)
      BY <1>15, <2>2
    <2>11. Layered(R, T, z, W, Q, <<>>)
      BY <1>7, <2>8, <2>9, <2>10, RootsLayered
    <2> QED
      BY <2>2, <2>11
  <1>19. Sound(k, z, R, ps, W, Q, Y)
    BY <1>3, <1>14, <1>15, <1>16, <1>17, <1>18 DEF Sound, N
  <1> QED
    BY <1>19 DEF ps

(***************************************************************************)
(* A node is taken from one end, and the ones ahead of it are pushed.      *)
(***************************************************************************)
LEMMA RootsKept ==
  ASSUME NEW z \in Nat, NEW rs, NEW Y \in Seq(1..z), Rooted(1..z, rs, Y), NEW x \in 1..z
  PROVE  Rooted(1..z, rs, Append(Y, x))
  <1>1. Len(Y) \in Nat /\ Len(Append(Y, x)) = Len(Y) + 1
    OBVIOUS
  <1>2. \A r \in ToSet(rs) : r[2] \in Nat /\ r[2] <= Len(Y)
    BY RootsElim
  <1> QED
    BY <1>1, <1>2 DEF Rooted

LEMMA RootsSteps ==
  ASSUME NEW k, NEW z \in Nat, NEW R, NEW rs, NEW V, NEW P, NEW Y,
         StepsOver(1..z, R, {}), Sound(k, z, R, rs, V, P, Y)
  PROVE  StepsOver(1..z, R, RootNodes(rs))
  <1> DEFINE N == 1..z
  <1>1. IsFiniteSet(N)
    BY FS_Interval
  <1>2. RootNodes(rs) \in SUBSET N
    BY RootsElim DEF Sound
  <1>3. StepsOver(N, R, {})
    OBVIOUS
  <1> HIDE DEF N
  <1>4. IsFiniteSet(RootNodes(rs))
    BY <1>1, <1>2, FS_Subset
  <1>5. StepsOver(N, R, RootNodes(rs))
    BY <1>2, <1>3, <1>4 DEF StepsOver
  <1> QED
    BY <1>5 DEF N

LEMMA BrowseSound ==
  ASSUME NEW k, NEW z \in Nat, NEW R, NEW rs, NEW V, NEW P, NEW Y, NEW B, NEW o, NEW x,
         NEW ns \in Seq(1..z), NEW W, NEW Q,
         StepsOver(1..z, R, {}), Sound(k, z, R, rs, V, P, Y),
         (k = "bfs" /\ o = 1) \/ k = "dfs",
         TakenAt(1..z, P, B, o, x), Pushed(1..z, V, B, ns, W, Q),
         \A m : m \in ToSet(ns) <=> <<x, m>> \in R /\ m # x
  PROVE  Sound(k, z, R, rs, W, Q, Append(Y, x))
  <1> DEFINE N == 1..z
             S == RootNodes(rs)
             Z == Append(Y, x)
  <1>1. Rooted(N, rs, Y) /\ Once(N, V, P, Y) /\ Reached(R, S, V) /\ Done(R, V, P, Y)
    BY DEF Sound
  <1>2. StepsOver(N, R, S)
    BY RootsSteps
  <1>3. TakenAt(N, P, B, o, x) /\ Pushed(N, V, B, ns, W, Q) /\ ns \in Seq(N)
    OBVIOUS
  <1>4. /\ k = "dfs" => Near(R, S, P, Y)
        /\ k = "bfs" /\ AtStart(rs) => Layered(R, S, z, V, P, Y)
    BY DEF Sound
  <1>5. x \in N
    BY <1>1, <1>3, TakeOnce
  <1>6. Rooted(N, rs, Z)
    BY <1>1, <1>5, RootsKept DEF Once
  <1> HIDE DEF S, Z
  <1>7. Once(N, W, Q, Z) /\ Reached(R, S, W) /\ Done(R, W, Q, Z)
    <2> HIDE DEF N
    <2> QED
      BY <1>1, <1>2, <1>3, BrowseDone DEF Z
  <1>8. k = "dfs" => Near(R, S, Q, Z)
    <2> HIDE DEF N
    <2> QED
      BY <1>1, <1>3, <1>4, BrowseNear DEF Z
  <1>9. ASSUME k = "bfs", AtStart(rs) PROVE Layered(R, S, z, W, Q, Z)
    <2>1. TakenAt(1..z, P, B, 1, x) /\ Layered(R, S, z, V, P, Y)
      BY <1>3, <1>4, <1>9
    <2> QED
      BY <1>1, <1>2, <1>7, <2>1, BrowseLayered DEF Z
  <1>10. k # "post"
    OBVIOUS
  <1> HIDE DEF N
  <1>11. Sound(k, z, R, rs, W, Q, Z)
    BY <1>6, <1>7, <1>8, <1>9, <1>10 DEF Sound, N, S
  <1> QED
    BY <1>11 DEF Z

LEMMA PostSound ==
  ASSUME NEW z \in Nat, NEW R, NEW rs, NEW Y, NEW V, NEW P, NEW U, NEW B, NEW Q, NEW x,
         StepsOver(1..z, R, {}), Sound("post", z, R, rs, U, B, Y),
         Orderly(1..z, R, RootNodes(rs), V, P, Y), P[Len(P)].expanded,
         TakenAt(1..z, P, Q, 0, x)
  PROVE  Sound("post", z, R, rs, V, Q, Append(Y, x))
  <1> DEFINE N == 1..z
             S == RootNodes(rs)
             Z == Append(Y, x)
  <1>1. /\ Once(N, V, P, Y) /\ Reached(R, S, V) /\ Done(R, V, P, Y) /\ Behind(N, R, S, V, P, Y)
        /\ Rooted(N, rs, Y)
    BY DEF Orderly, Sound
  <1>2. StepsOver(N, R, S)
    BY RootsSteps
  <1>3. TakenAt(N, P, Q, 0, x)
    OBVIOUS
  <1>4. x \in N /\ Once(N, V, Q, Z)
    BY <1>1, <1>3, TakeOnce
  <1>5. Rooted(N, rs, Z)
    BY <1>1, <1>4, RootsKept DEF Once
  <1> HIDE DEF S, Z
  <1>6. Done(R, V, Q, Z) /\ Behind(N, R, S, V, Q, Z)
    <2> HIDE DEF N
    <2> QED
      BY <1>1, <1>2, <1>3, TakeExpanded DEF Z
  <1>7. Sound("post", z, R, rs, V, Q, Z)
    BY <1>1, <1>4, <1>5, <1>6 DEF Sound, S
  <1> QED
    BY <1>7 DEF Z

-----------------------------------------------------------------------------
(***************************************************************************)
(* The graph while it is built, and its steps.                             *)
(***************************************************************************)
GraphIs(g) == g \in [size : Nat, edges : Seq([tail : Nodes(g), head : Nodes(g), weight : Weights])]

LEMMA EdgeAppended ==
  ASSUME NEW g, GraphIs(g), NEW t \in Nodes(g), NEW h \in Nodes(g), NEW w \in Weights, NEW q,
         q = [g EXCEPT !.edges = Append(@, [tail |-> t, head |-> h, weight |-> w])]
  PROVE  GraphIs(q)
  <1> DEFINE F == [tail : Nodes(g), head : Nodes(g), weight : Weights]
             x == [tail |-> t, head |-> h, weight |-> w]
  <1>1. x \in F
    OBVIOUS
  <1>2. g \in [size : Nat, edges : Seq(F)]
    BY DEF GraphIs
  <1> HIDE DEF F, x
  <1>3. Append(g.edges, x) \in Seq(F)
    BY <1>1, <1>2
  <1>4. q \in [size : Nat, edges : Seq(F)] /\ q.size = g.size
    BY <1>2, <1>3 DEF x
  <1>5. Nodes(q) = Nodes(g)
    BY <1>4 DEF Nodes
  <1> QED
    BY <1>4, <1>5 DEF GraphIs, F

LEMMA StepsSound ==
  ASSUME NEW g, GraphIs(g), NEW v
  PROVE  StepsOver(Nodes(g), IF v = "directed" THEN Arcs(g) ELSE Symmetric(Arcs(g)), {})
  <1> DEFINE F == [tail : Nodes(g), head : Nodes(g), weight : Weights]
             N == Nodes(g)
             E == EdgeIxs(g)
             A == Arcs(g)
             f == [e \in E |-> <<Tail_(g, e), Head_(g, e)>>]
             r == [p \in A |-> <<p[2], p[1]>>]
             B == {<<p[2], p[1]>> : p \in A}
             Z == IF v = "directed" THEN A ELSE A \cup B
  <1>1. g.edges \in Seq(F) /\ \A x \in F : x.tail \in N /\ x.head \in N
    BY DEF GraphIs
  <1> HIDE DEF F
  <1>2. /\ Len(g.edges) \in Nat /\ E = 1..Len(g.edges)
        /\ \A e \in E : Tail_(g, e) \in N /\ Head_(g, e) \in N
    BY <1>1 DEF EdgeIxs, Tail_, Head_
  <1>3. IsFiniteSet(E)
    BY <1>2, FS_Interval
  <1>4. f \in Surjection(E, A) /\ r \in Surjection(A, B)
    BY DEF Arcs, Surjection
  <1>5. A = {<<Tail_(g, e), Head_(g, e)>> : e \in E}
    BY DEF Arcs
  <1>6. \A p \in A : p = <<p[1], p[2]>> /\ p[1] \in N /\ p[2] \in N
    BY <1>2, <1>5
  <1>7. \A p \in B : p = <<p[1], p[2]>> /\ p[1] \in N /\ p[2] \in N
    BY <1>6
  <1>8. Symmetric(Arcs(g)) = A \cup B
    BY DEF Symmetric
  <1> HIDE DEF N, E, A, B, f, r
  <1>9. IsFiniteSet(A)
    BY <1>3, <1>4, FS_Surjection
  <1>10. IsFiniteSet(B)
    BY <1>4, <1>9, FS_Surjection
  <1>11. IsFiniteSet(Z)
    <2>1. IsFiniteSet(A \cup B)
      BY <1>9, <1>10, FS_Union
    <2> QED
      BY <1>9, <2>1
  <1>12. \A p \in Z : p = <<p[1], p[2]>> /\ p[1] \in N /\ p[2] \in N
    BY <1>6, <1>7
  <1> HIDE DEF Z
  <1>13. \A a, b : <<a, b>> \in Z => a \in N /\ b \in N
    <2>1. \A a, b : <<a, b>>[1] = a /\ <<a, b>>[2] = b
      OBVIOUS
    <2> QED
      BY <1>12, <2>1
  <1>14. IsFiniteSet({})
    BY FS_EmptySet
  <1>15. StepsOver(N, Z, {})
    BY <1>11, <1>12, <1>13, <1>14 DEF StepsOver
  <1> QED
    BY <1>8, <1>15 DEF N, Z, A

-----------------------------------------------------------------------------
(***************************************************************************)
(* The inductive invariant.                                                *)
(***************************************************************************)
TraversalSound ==
  /\ GraphTyped
  /\ kind \in {"none", "bfs", "dfs", "post"}
  /\ kind = "none" => visited = {} /\ pending = <<>> /\ yielded = <<>> /\ roots = <<>>
  /\ Sound(kind, graph.size, Steps, roots, visited, pending, yielded)

LEMMA SoundInit == Init => TraversalSound
  <1> SUFFICES ASSUME Init PROVE TraversalSound
    OBVIOUS
  <1>1. PICK n \in Sizes : graph = NoEdges(n)
    BY DEF Init
  <1>2. n \in Nat
    BY SizesAssumption
  <1>3. graph = [size |-> n, edges |-> <<>>]
    BY <1>1 DEF NoEdges
  <1>4. GraphTyped
    BY <1>2, <1>3 DEF GraphTyped, Init
  <1>5. Sound("none", graph.size, Steps, <<>>, {}, <<>>, <<>>)
    BY <1>2, <1>3, FreshSound
  <1> QED
    BY <1>4, <1>5 DEF TraversalSound, Init

LEMMA SoundElim ==
  ASSUME TraversalSound
  PROVE  /\ GraphIs(graph) /\ graph.size \in Nat /\ Nodes(graph) = 1..graph.size
         /\ StepsOver(1..graph.size, Steps, {})
         /\ pending \in Seq(FramesOf(1..graph.size)) /\ yielded \in Seq(1..graph.size)
  <1>1. GraphIs(graph)
    BY DEF TraversalSound, GraphTyped, GraphIs
  <1>2. graph.size \in Nat /\ Nodes(graph) = 1..graph.size
    BY GraphElim DEF TraversalSound
  <1>3. StepsOver(Nodes(graph), Steps, {})
    BY <1>1, StepsSound DEF Steps
  <1>4. Once(1..graph.size, visited, pending, yielded)
    BY DEF TraversalSound, Sound
  <1>5. pending \in Seq(FramesOf(1..graph.size)) /\ yielded \in Seq(1..graph.size)
    BY <1>4 DEF Once
  <1> QED
    BY <1>1, <1>2, <1>3, <1>5

(***************************************************************************)
(* An edge is inserted.                                                    *)
(***************************************************************************)
LEMMA SoundInsertEdge ==
  ASSUME TraversalSound, NEW t \in Nodes(graph), NEW h \in Nodes(graph), NEW w \in Weights,
         InsertEdge(t, h, w)
  PROVE  TraversalSound'
  <1>1. /\ kind = "none" /\ UNCHANGED <<kind, view, pending, visited, yielded, roots>>
        /\ graph' = [graph EXCEPT !.edges = Append(@, [tail |-> t, head |-> h, weight |-> w])]
    BY DEF InsertEdge
  <1>2. visited = {} /\ pending = <<>> /\ yielded = <<>> /\ roots = <<>>
    BY <1>1 DEF TraversalSound
  <1>3. GraphIs(graph) /\ view \in {"directed", "undirected"}
    BY SoundElim DEF TraversalSound, GraphTyped
  <1>4. GraphIs(graph')
    BY <1>1, <1>3, EdgeAppended
  <1>5. GraphTyped'
    BY <1>1, <1>3, <1>4 DEF GraphTyped, GraphIs
  <1>6. (graph.size)' \in Nat
    BY <1>4 DEF GraphIs
  <1>7. Sound("none", (graph.size)', Steps', <<>>, {}, <<>>, <<>>)
    BY <1>6, FreshSound
  <1> QED
    BY <1>1, <1>2, <1>5, <1>7 DEF TraversalSound

(***************************************************************************)
(* A traversal begins.                                                     *)
(***************************************************************************)
LEMMA FirstPushed ==
  ASSUME NEW N, NEW s \in N
  PROVE  Pushed(N, {}, <<>>, <<s>>, {s}, <<Unexpanded(s)>>)
  <1>1. Unexpanded(s) \in FramesOf(N) /\ Unexpanded(s).node = s /\ ~Unexpanded(s).expanded
    BY DEF Unexpanded, FramesOf
  <1> DEFINE q == <<Unexpanded(s)>>
             F == FramesOf(N)
  <1> HIDE DEF F
  <1>2. q \in Seq(F) /\ Len(q) = 1 /\ q[1] = Unexpanded(s) /\ Len(<<>>) = 0
    BY <1>1 DEF F
  <1>3. \A x : x \in ToSet(<<s>>) <=> x = s
    BY DEF ToSet
  <1>4. 1..1 = {1} /\ 1..0 = {} /\ 1 > 0 /\ 0 <= 1
    OBVIOUS
  <1> HIDE DEF q
  <1> QED
    BY <1>1, <1>2, <1>3, <1>4 DEF Pushed, F, q

LEMMA SoundNew ==
  ASSUME TraversalSound, NEW k \in {"bfs", "dfs", "post"}, NEW v \in {"directed", "undirected"},
         NEW s \in Nodes(graph), New(k, v, s)
  PROVE  TraversalSound'
  <1> DEFINE z == graph.size
             q == <<Unexpanded(s)>>
  <1>1. /\ kind = "none" /\ kind' = k /\ view' = v /\ graph' = graph /\ yielded' = yielded
        /\ pending' = q /\ visited' = {s} /\ roots' = <<<<s, 0>>>>
    BY DEF New
  <1>2. yielded' = <<>>
    BY <1>1 DEF TraversalSound
  <1>3. GraphIs(graph) /\ z \in Nat /\ Nodes(graph) = 1..z
    BY SoundElim
  <1>4. GraphTyped'
    BY <1>1, <1>3 DEF GraphTyped, GraphIs
  <1>5. StepsOver(1..z, Steps', {})
    <2>1. StepsOver(Nodes(graph), IF v = "directed" THEN Arcs(graph) ELSE Symmetric(Arcs(graph)), {})
      BY <1>3, StepsSound
    <2>2. Steps' = IF v = "directed" THEN Arcs(graph) ELSE Symmetric(Arcs(graph))
      BY <1>1 DEF Steps
    <2> QED
      BY <1>3, <2>1, <2>2
  <1>6. Sound(k, z, Steps', <<>>, {}, <<>>, <<>>)
    BY <1>3, FreshSound
  <1>7. s \in 1..z /\ Pushed(1..z, {}, <<>>, <<s>>, {s}, q)
    BY <1>3, FirstPushed
  <1>8. s \notin RootNodes(<<>>)
    BY DEF RootNodes, ToSet
  <1>9. Sound(k, z, Steps', Append(<<>>, <<s, Len(<<>>)>>), {s}, q, <<>>)
    <2> HIDE DEF z, q
    <2> QED
      BY <1>3, <1>5, <1>6, <1>7, <1>8, RootSound
  <1>10. Append(<<>>, <<s, Len(<<>>)>>) = <<<<s, 0>>>>
    OBVIOUS
  <1>11. (graph.size)' = z
    BY <1>1
  <1>12. Sound(kind', (graph.size)', Steps', roots', visited', pending', yielded')
    BY <1>1, <1>2, <1>9, <1>10, <1>11
  <1>13. kind' # "none" /\ kind' \in {"none", "bfs", "dfs", "post"}
    BY <1>1
  <1> QED
    BY <1>4, <1>12, <1>13 DEF TraversalSound

(***************************************************************************)
(* The caller adds a root.                                                 *)
(***************************************************************************)
LEMMA SoundAddStart ==
  ASSUME TraversalSound, NEW s \in Nodes(graph), AddStart(s)
  PROVE  TraversalSound'
  <1> DEFINE z == graph.size
             old == [visited |-> visited, pending |-> pending]
             run == PushNew(old, <<s>>)
  <1>1. /\ kind # "none" /\ UNCHANGED <<graph, kind, view, yielded>>
        /\ pending' = run.pending /\ visited' = run.visited
        /\ s \notin {r[1] : r \in ToSet(roots)} /\ roots' = Append(roots, <<s, Len(yielded)>>)
    BY DEF AddStart
  <1>2. z \in Nat /\ Nodes(graph) = 1..z /\ StepsOver(1..z, Steps, {}) /\ pending \in Seq(FramesOf(1..z))
    BY SoundElim
  <1>3. Sound(kind, z, Steps, roots, visited, pending, yielded)
    BY DEF TraversalSound
  <1>4. old.visited = visited /\ old.pending = pending
    OBVIOUS
  <1>5. s \notin RootNodes(roots)
    BY <1>1 DEF RootNodes
  <1>6. s \in 1..z /\ <<s>> \in Seq(1..z)
    BY <1>2
  <1>7. Steps' = Steps /\ GraphTyped' /\ (graph.size)' = z
    BY <1>1 DEF Steps, GraphTyped, TraversalSound
  <1> HIDE DEF z, old
  <1>8. Pushed(1..z, visited, pending, <<s>>, run.visited, run.pending)
    BY <1>2, <1>4, <1>6, PushNewPushes
  <1> HIDE DEF run
  <1>9. Sound(kind, z, Steps, Append(roots, <<s, Len(yielded)>>), run.visited, run.pending, yielded)
    BY <1>2, <1>3, <1>5, <1>6, <1>8, RootSound
  <1>10. Sound(kind', (graph.size)', Steps', roots', visited', pending', yielded')
    BY <1>1, <1>7, <1>9
  <1>11. kind' # "none" /\ kind' \in {"none", "bfs", "dfs", "post"}
    BY <1>1 DEF TraversalSound
  <1> QED
    BY <1>7, <1>10, <1>11 DEF TraversalSound

(***************************************************************************)
(* A node is yielded.                                                      *)
(***************************************************************************)
LEMMA SoundBrowse ==
  ASSUME TraversalSound, NEW B, NEW o, NEW n, (kind = "bfs" /\ o = 1) \/ kind = "dfs",
         TakenAt(Nodes(graph), pending, B, o, n),
         Yield(PushNew([visited |-> visited, pending |-> B], Ahead(n)), n)
  PROVE  TraversalSound'
  <1> DEFINE z == graph.size
             old == [visited |-> visited, pending |-> B]
             run == PushNew(old, Ahead(n))
  <1>1. /\ UNCHANGED <<graph, kind, view, roots>> /\ yielded' = Append(yielded, n)
        /\ pending' = run.pending /\ visited' = run.visited
    BY DEF Yield
  <1>2. z \in Nat /\ Nodes(graph) = 1..z /\ StepsOver(1..z, Steps, {}) /\ pending \in Seq(FramesOf(1..z))
    BY SoundElim
  <1>3. Sound(kind, z, Steps, roots, visited, pending, yielded)
    BY DEF TraversalSound
  <1>4. old.visited = visited /\ old.pending = B
    OBVIOUS
  <1>5. TakenAt(1..z, pending, B, o, n) /\ B \in Seq(FramesOf(1..z))
    BY <1>2 DEF TakenAt
  <1>6. Ahead(n) \in Seq(1..z) /\ \A m : m \in ToSet(Ahead(n)) <=> <<n, m>> \in Steps /\ m # n
    BY <1>2, AheadLists DEF TraversalSound
  <1>7. Steps' = Steps /\ GraphTyped' /\ (graph.size)' = z
    BY <1>1 DEF Steps, GraphTyped, TraversalSound
  <1> HIDE DEF z, old
  <1>8. Pushed(1..z, visited, B, Ahead(n), run.visited, run.pending)
    BY <1>4, <1>5, <1>6, PushNewPushes
  <1> HIDE DEF run
  <1>9. Sound(kind, z, Steps, roots, run.visited, run.pending, Append(yielded, n))
    BY <1>2, <1>3, <1>5, <1>6, <1>8, BrowseSound
  <1>10. Sound(kind', (graph.size)', Steps', roots', visited', pending', yielded')
    BY <1>1, <1>7, <1>9
  <1>11. kind' # "none" /\ kind' \in {"none", "bfs", "dfs", "post"}
    BY <1>1 DEF TraversalSound
  <1> QED
    BY <1>7, <1>10, <1>11 DEF TraversalSound

LEMMA SoundNextBfs ==
  ASSUME TraversalSound, NextBfs
  PROVE  TraversalSound'
  <1> DEFINE n == Head(pending).node
  <1>1. kind = "bfs" /\ pending # <<>>
        /\ Yield(PushNew([visited |-> visited, pending |-> Tail(pending)], Ahead(n)), n)
    BY DEF NextBfs
  <1>2. TakenAt(Nodes(graph), pending, Tail(pending), 1, n)
    BY <1>1, SoundElim, HeadTaken
  <1> HIDE DEF n
  <1> QED
    BY <1>1, <1>2, SoundBrowse

LEMMA SoundNextDfs ==
  ASSUME TraversalSound, NextDfs
  PROVE  TraversalSound'
  <1> DEFINE n == Last(pending).node
  <1>1. kind = "dfs" /\ pending # <<>>
        /\ Yield(PushNew([visited |-> visited, pending |-> Front(pending)], Ahead(n)), n)
    BY DEF NextDfs
  <1>2. TakenAt(Nodes(graph), pending, Front(pending), 0, n)
    BY <1>1, SoundElim, LastTaken
  <1> HIDE DEF n
  <1> QED
    BY <1>1, <1>2, SoundBrowse

LEMMA SoundNextPostOrder ==
  ASSUME TraversalSound, NextPostOrder
  PROVE  TraversalSound'
  <1> DEFINE z == graph.size
             start == [visited |-> visited, pending |-> pending]
             run == ExpandTop(start)
             Q == Front(run.pending)
             n == Last(run.pending).node
  <1>1. kind = "post" /\ pending # <<>> /\ Yield([run EXCEPT !.pending = Front(@)], n)
    BY DEF NextPostOrder
  <1>2. z \in Nat /\ Nodes(graph) = 1..z /\ StepsOver(1..z, Steps, {}) /\ pending \in Seq(FramesOf(1..z))
    BY SoundElim
  <1>3. Sound("post", z, Steps, roots, visited, pending, yielded)
    BY <1>1 DEF TraversalSound
  <1>4. StepsOver(1..z, Steps, RootNodes(roots))
    BY <1>2, <1>3, RootsSteps
  <1>5. Orderly(1..z, Steps, RootNodes(roots), visited, pending, yielded)
    BY <1>3 DEF Orderly, Sound
  <1>6. /\ run \in RunsOver(1..z) /\ run.pending[Len(run.pending)].expanded
        /\ Orderly(1..z, Steps, RootNodes(roots), run.visited, run.pending, yielded)
    <2>1. GraphTyped
      BY DEF TraversalSound
    <2>2. StepsOver(Nodes(graph), Steps, RootNodes(roots))
          /\ Orderly(Nodes(graph), Steps, RootNodes(roots), visited, pending, yielded)
      BY <1>2, <1>4, <1>5
    <2> HIDE DEF z
    <2> QED
      BY <1>1, <1>2, <2>1, <2>2, ExpandTopOrderly
  <1> HIDE DEF run
  <1>7. run.pending \in Seq(FramesOf(1..z)) /\ run.pending # <<>>
    BY <1>6 DEF RunsOver
  <1>8. TakenAt(1..z, run.pending, Q, 0, n)
    BY <1>7, LastTaken
  <1>9. /\ UNCHANGED <<graph, kind, view, roots>> /\ yielded' = Append(yielded, n)
        /\ pending' = Q /\ visited' = run.visited
    BY <1>1, <1>6 DEF Yield, RunsOver
  <1>10. Steps' = Steps /\ GraphTyped' /\ (graph.size)' = z
    BY <1>9 DEF Steps, GraphTyped, TraversalSound
  <1> HIDE DEF z, Q, n
  <1>11. Sound("post", z, Steps, roots, run.visited, Q, Append(yielded, n))
    BY <1>2, <1>3, <1>6, <1>8, PostSound
  <1>12. Sound(kind', (graph.size)', Steps', roots', visited', pending', yielded')
    BY <1>1, <1>9, <1>10, <1>11
  <1>13. kind' # "none" /\ kind' \in {"none", "bfs", "dfs", "post"}
    BY <1>1, <1>9
  <1> QED
    BY <1>10, <1>12, <1>13 DEF TraversalSound

LEMMA SoundNext ==
  ASSUME TraversalSound, [Next]_tvars
  PROVE  TraversalSound'
  <1>1. ASSUME NEW t \in Nodes(graph), NEW h \in Nodes(graph), NEW w \in Weights, InsertEdge(t, h, w)
        PROVE  TraversalSound'
    BY <1>1, SoundInsertEdge
  <1>2. ASSUME NEW k \in {"bfs", "dfs", "post"}, NEW v \in {"directed", "undirected"},
               NEW n \in Nodes(graph), New(k, v, n)
        PROVE  TraversalSound'
    BY <1>2, SoundNew
  <1>3. ASSUME NEW n \in Nodes(graph), AddStart(n) PROVE TraversalSound'
    BY <1>3, SoundAddStart
  <1>4. CASE NextBfs
    BY <1>4, SoundNextBfs
  <1>5. CASE NextDfs
    BY <1>5, SoundNextDfs
  <1>6. CASE NextPostOrder
    BY <1>6, SoundNextPostOrder
  <1>7. CASE UNCHANGED tvars
    BY <1>7 DEF tvars, TraversalSound, GraphTyped, Steps
  <1> QED
    BY <1>1, <1>2, <1>3, <1>4, <1>5, <1>6, <1>7 DEF Next, NextNode

THEOREM TraversalIsSound == TSpec => []TraversalSound
  <1>1. Init => TraversalSound
    BY SoundInit
  <1>2. TraversalSound /\ [Next]_tvars => TraversalSound'
    BY SoundNext
  <1> QED
    BY <1>1, <1>2, PTL DEF TSpec

(***************************************************************************)
(* What follows from the invariant.                                        *)
(***************************************************************************)
LEMMA SoundRoots ==
  ASSUME TraversalSound
  PROVE  /\ AllRoots = RootNodes(roots)
         /\ AllRoots = RootsUpTo(0) => AtStart(roots)
  <1> DEFINE z == graph.size
  <1>1. z \in Nat /\ yielded \in Seq(1..z)
    BY SoundElim
  <1>2. Once(1..z, visited, pending, yielded) /\ Rooted(1..z, roots, yielded)
    BY DEF TraversalSound, Sound
  <1>3. Len(yielded) <= z /\ Len(yielded) \in Nat
    <2>1. \A i, j \in 1..Len(yielded) : yielded[i] = yielded[j] => i = j
      BY <1>2 DEF Once
    <2> HIDE DEF z
    <2> QED
      BY <1>1, <2>1, ListBounded
  <1>4. \A r \in ToSet(roots) : r[2] \in Nat /\ r[2] <= Len(yielded)
    BY <1>2, RootsElim
  <1>5. \A r \in ToSet(roots) : r[2] <= z
    <2> HIDE DEF z
    <2> QED
      BY <1>1, <1>3, <1>4
  <1>6. AllRoots = {r[1] : r \in ToSet(roots)}
    <2>1. {q \in ToSet(roots) : q[2] <= z} = ToSet(roots)
      BY <1>5
    <2> QED
      BY <2>1 DEF AllRoots, RootsUpTo
  <1>7. ASSUME AllRoots = RootsUpTo(0) PROVE AtStart(roots)
    <2>1. ASSUME NEW x \in RootNodes(roots) PROVE \E r \in ToSet(roots) : r[1] = x /\ r[2] = 0
      <3>1. x \in RootsUpTo(0)
        BY <1>6, <1>7 DEF RootNodes
      <3>2. PICK r \in ToSet(roots) : r[2] <= 0 /\ r[1] = x
        BY <3>1 DEF RootsUpTo
      <3>3. r[2] = 0
        BY <1>4, <3>2
      <3> QED
        BY <3>2, <3>3
    <2> QED
      BY <2>1 DEF AtStart
  <1> QED
    BY <1>6, <1>7 DEF RootNodes

LEMMA SoundCovers ==
  ASSUME TraversalSound
  PROVE  TraversalCovers
  <1> DEFINE z == graph.size
             S == RootNodes(roots)
  <1>1. /\ Once(1..z, visited, pending, yielded) /\ Reached(Steps, S, visited)
        /\ Done(Steps, visited, pending, yielded)
        /\ Sound(kind, z, Steps, roots, visited, pending, yielded)
    BY DEF TraversalSound, Sound
  <1>2. z \in Nat /\ StepsOver(1..z, Steps, {})
    BY SoundElim
  <1>3. StepsOver(1..z, Steps, S)
    BY <1>1, <1>2, RootsSteps
  <1>4. AllRoots = S
    BY SoundRoots
  <1> HIDE DEF z, S
  <1>5. /\ DOMAIN pending = 1..Len(pending) /\ DOMAIN yielded = 1..Len(yielded)
        /\ Len(pending) \in Nat
    BY <1>1, OnceElim
  <1>6. \A x : x \in ToSet(yielded) <=> \E j \in 1..Len(yielded) : yielded[j] = x
    BY <1>5 DEF ToSet
  <1>7. \A x : x \in {p.node : p \in ToSet(pending)} <=> \E i \in 1..Len(pending) : pending[i].node = x
    BY <1>5 DEF ToSet
  <1>8. IsInjective(yielded)
    BY <1>1, <1>5 DEF IsInjective, Once
  <1>9. visited = ToSet(yielded) \cup {p.node : p \in ToSet(pending)}
    BY <1>1, <1>6, <1>7 DEF Once
  <1>10. ASSUME pending = <<>> PROVE ToSet(yielded) = Closure(Steps, AllRoots)
    <2>1. visited = ToSet(yielded)
      <3>1. Len(pending) = 0 /\ 1..0 = {}
        BY <1>10
      <3> QED
        BY <1>7, <1>9, <3>1
    <2>2. S \subseteq visited /\ Closed(Steps, visited)
      BY <1>1, <1>6, <2>1 DEF Reached, Done, Closed
    <2>3. Closure(Steps, S) \subseteq visited
      BY <1>3, <2>2, ReachFacts
    <2>4. visited \subseteq Closure(Steps, S)
      BY <1>1 DEF Reached
    <2> QED
      BY <1>4, <2>1, <2>3, <2>4
  <1> QED
    BY <1>8, <1>9, <1>10 DEF TraversalCovers

LEMMA SoundOrdered ==
  ASSUME TraversalSound
  PROVE  TraversalOrdered
  <1> DEFINE z == graph.size
             N == 1..z
             S == RootNodes(roots)
  <1>1. /\ Once(N, visited, pending, yielded) /\ Done(Steps, visited, pending, yielded)
        /\ Sound(kind, z, Steps, roots, visited, pending, yielded)
    BY DEF TraversalSound, Sound
  <1>2. z \in Nat /\ StepsOver(N, Steps, {}) /\ yielded \in Seq(N)
    BY SoundElim
  <1>3. StepsOver(N, Steps, S)
    BY <1>1, <1>2, RootsSteps
  <1>4. AllRoots = S /\ (AllRoots = RootsUpTo(0) => AtStart(roots))
    BY SoundRoots
  <1>5. /\ kind = "bfs" /\ AtStart(roots) => Layered(Steps, S, z, visited, pending, yielded)
        /\ kind = "dfs" => Near(Steps, S, pending, yielded)
        /\ kind = "post" => Behind(N, Steps, S, visited, pending, yielded)
    BY <1>1 DEF Sound
  <1>6. \A n : Remoteness(n) = Remote(Steps, S, z, n)
    BY <1>4, RemotenessIs
  <1> HIDE DEF z, S
  <1>7. DOMAIN yielded = 1..Len(yielded) /\ Len(yielded) \in Nat
    BY <1>2
  <1>8. ASSUME kind = "bfs", AllRoots = RootsUpTo(0), NEW i \in 2..Len(yielded)
        PROVE  Remoteness(yielded[i - 1]) <= Remoteness(yielded[i])
    BY <1>4, <1>5, <1>6, <1>8 DEF Layered
  <1>9. ASSUME kind = "dfs", NEW i \in DOMAIN yielded
        PROVE  yielded[i] \in AllRoots \/ \E j \in 1..(i - 1) : <<yielded[j], yielded[i]>> \in Steps
    <2>1. yielded[i] \in S \/ \E j \in 1..Len(yielded) : j < i /\ <<yielded[j], yielded[i]>> \in Steps
      BY <1>5, <1>7, <1>9 DEF Near
    <2>2. \A j \in 1..Len(yielded) : j < i => j \in 1..(i - 1)
      BY <1>7
    <2> QED
      BY <1>4, <2>1, <2>2
  <1>10. ASSUME kind = "post", NEW n \in ToSet(yielded),
                NEW m \in Closure(Steps, {n}) \
                          Closure({s \in Steps : s[1] # n /\ s[2] # n}, AllRoots \ {n}),
                m # n
         PROVE  m \in ToSet(yielded) /\ Position(m) < Position(n)
    <2>1. m \in Closure(Steps, {n}) /\ m \notin Avoiding(Steps, S, n)
      BY <1>4, <1>10 DEF Avoiding
    <2>2. PICK i \in 1..Len(yielded) : yielded[i] = n
      BY <1>7 DEF ToSet
    <2>3. Behind(N, Steps, S, visited, pending, yielded)
      BY <1>5, <1>10
    <2>4. \E j \in 1..Len(yielded) : j < i /\ yielded[j] = m
      <3>1. m \in Closure(Steps, {yielded[i]}) /\ m \notin Avoiding(Steps, S, yielded[i]) /\ m # yielded[i]
        BY <1>10, <2>1, <2>2
      <3> HIDE DEF N
      <3> QED
        BY <1>1, <1>3, <2>3, <3>1, YieldedBehind
    <2>5. PICK j \in 1..Len(yielded) : j < i /\ yielded[j] = m
      BY <2>4
    <2>6. \A a, b \in 1..Len(yielded) : yielded[a] = yielded[b] => a = b
      BY <1>1 DEF Once
    <2>7. \A a \in 1..Len(yielded) : Position(yielded[a]) = a
      BY <1>7, <2>6 DEF Position
    <2>8. m \in ToSet(yielded)
      BY <1>7, <2>5 DEF ToSet
    <2> QED
      BY <2>2, <2>5, <2>7, <2>8
  <1> QED
    BY <1>8, <1>9, <1>10 DEF TraversalOrdered

(***************************************************************************)
(* A traversal loses no node and yields none twice.                        *)
(***************************************************************************)
THEOREM TraversalsCover == TSpec => []TraversalCovers
  <1>1. TraversalSound => TraversalCovers
    BY SoundCovers
  <1> QED
    BY <1>1, TraversalIsSound, PTL

(***************************************************************************)
(* Each traversal yields the nodes in its order.                           *)
(***************************************************************************)
THEOREM TraversalsKeepOrder == TSpec => []TraversalOrdered
  <1>1. TraversalSound => TraversalOrdered
    BY SoundOrdered
  <1> QED
    BY <1>1, TraversalIsSound, PTL
=============================================================================
