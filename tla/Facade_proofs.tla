---------------------------- MODULE Facade_proofs ----------------------------
(***************************************************************************)
(* Proofs about the flat layout and the facade over it, for either family  *)
(* of collections at either level and for both profiles of the reverse     *)
(* index.                                                                  *)
(***************************************************************************)
EXTENDS Facade, Groundwork

-----------------------------------------------------------------------------
(***************************************************************************)
(* The turns of the loops, as one operator: the removals of a batch, the   *)
(* insertions of reverse, and those of extend_graph.                       *)
(***************************************************************************)
AddedNode(other, run, n) ==
  [g   |-> InsertNode(run.g, other[n].val),
   new |-> Joined(run.new, [m \in {n} |-> IndexOfNew(DenseNodes, run.g, other[n].val)])]

AddedEdge(other, new, h, ix) ==
  InsertEdge(h, [Edge(other, ix) EXCEPT !.to = new[@]], new[ix[1]])

Reinserted(g, h, ix) == InsertEdge(h, [Edge(g, ix) EXCEPT !.to = ix[1]], Edge(g, ix).to)

Turn(loop, from, new, h, x) ==
  CASE loop = "take edges" -> TakeEdge(h, x)
    [] loop = "take nodes" -> TakeNode(h, x)
    [] loop = "reverse"    -> Reinserted(from, h, x)
    [] loop = "add nodes"  -> AddedNode(from, h, x)
    [] loop = "add edges"  -> AddedEdge(from, new, h, x)

(***************************************************************************)
(* it[s] is the outcome of the turns at the positions s of q, a set.       *)
(***************************************************************************)
Turns(it, loop, from, new, b, q) ==
  it = [s \in SUBSET DOMAIN q |->
          IF s = {} THEN b ELSE Turn(loop, from, new, it[s \ {Max(s)}], q[Max(s)])]

(***************************************************************************)
(* f[k] is the outcome of the first k turns.                               *)
(***************************************************************************)
Runs(f, loop, from, new, b, q) ==
  /\ f[0] = b
  /\ \A k \in 1..Len(q) : f[k] = Turn(loop, from, new, f[k - 1], q[k])

(***************************************************************************)
(* r is the outcome of all turns.                                          *)
(***************************************************************************)
RunsTo(r, loop, from, new, b, q) == \E f : Runs(f, loop, from, new, b, q) /\ f[Len(q)] = r

(***************************************************************************)
(* A set of positions without the last of them is smaller.                 *)
(***************************************************************************)
LEMMA WithoutLast ==
  ASSUME NEW n \in Nat, NEW s \in SUBSET (1..n)
  PROVE  /\ Cardinality(s) \in Nat /\ Cardinality(s) <= n
         /\ Cardinality(s) = 0 <=> s = {}
         /\ s # {} => /\ Max(s) \in s /\ s \ {Max(s)} \in SUBSET (1..n)
                      /\ Cardinality(s \ {Max(s)}) = Cardinality(s) - 1
  <1>1. IsFiniteSet(1..n) /\ Cardinality(1..n) = n
    BY FS_Interval
  <1>2. IsFiniteSet(s) /\ Cardinality(s) <= n
    BY <1>1, FS_Subset
  <1>3. Cardinality(s) \in Nat /\ (Cardinality(s) = 0 <=> s = {})
    BY <1>2, FS_CardinalityType, FS_EmptySet
  <1>4. ASSUME s # {} PROVE Max(s) \in s
    BY <1>4, LastRound
  <1>5. ASSUME s # {} PROVE Cardinality(s \ {Max(s)}) = Cardinality(s) - 1
    BY <1>2, <1>4, <1>5, FS_RemoveElement
  <1> QED
    BY <1>2, <1>3, <1>4, <1>5

(***************************************************************************)
(* Every loop has an outcome.                                              *)
(***************************************************************************)
LEMMA TurnsExist ==
  ASSUME NEW loop, NEW from, NEW new, NEW b, NEW q, NEW n \in Nat, DOMAIN q = 1..n
  PROVE  \E it : Turns(it, loop, from, new, b, q)
  <1> DEFINE D == SUBSET (1..n)
             G(f, s) == IF s = {} THEN b ELSE Turn(loop, from, new, f[s \ {Max(s)}], q[Max(s)])
             N == {k \in 0..n : \E f : f = [s \in D |-> f[s]] /\
                                  \A s \in D : Cardinality(s) <= k => f[s] = G(f, s)}
  <1>1. 0 \in N
    <2> DEFINE f == [s \in D |-> b]
    <2>1. f = [s \in D |-> f[s]]
      OBVIOUS
    <2>2. ASSUME NEW s \in D, Cardinality(s) <= 0 PROVE f[s] = G(f, s)
      <3>1. Cardinality(s) \in Nat /\ (Cardinality(s) = 0 <=> s = {})
        BY WithoutLast
      <3>2. s = {}
        BY <2>2, <3>1
      <3> QED
        BY <3>2
    <2> HIDE DEF f, G, D
    <2> QED
      BY <2>1, <2>2
  <1>2. \A k \in 1..n : k - 1 \in N => k \in N
    <2>1. SUFFICES ASSUME NEW k \in 1..n, k - 1 \in N PROVE k \in N
      OBVIOUS
    <2>2. PICK f : \A s \in D : Cardinality(s) <= k - 1 => f[s] = G(f, s)
      BY <2>1
    <2> DEFINE g == [s \in D |-> G(f, s)]
    <2>3. g = [s \in D |-> g[s]]
      OBVIOUS
    <2>4. ASSUME NEW s \in D, Cardinality(s) <= k PROVE g[s] = G(g, s)
      <3>1. g[s] = G(f, s)
        OBVIOUS
      <3>2. CASE s = {}
        BY <3>1, <3>2
      <3>3. CASE s # {}
        <4>1. s \ {Max(s)} \in D /\ Cardinality(s \ {Max(s)}) <= k - 1
          BY <2>4, <3>3, WithoutLast
        <4>2. g[s \ {Max(s)}] = f[s \ {Max(s)}]
          BY <2>2, <4>1
        <4> QED
          BY <3>1, <3>3, <4>2
      <3> QED
        BY <3>2, <3>3
    <2> HIDE DEF G, g, D
    <2>5. k \in 0..n
      BY <2>1
    <2> QED
      BY <2>3, <2>4, <2>5
  <1>3. n \in N
    <2>1. n \in 0..n
      OBVIOUS
    <2> HIDE DEF N, G, D
    <2> QED
      BY <1>1, <1>2, <2>1, RoundInduction
  <1>4. PICK f : f = [s \in D |-> f[s]] /\ \A s \in D : Cardinality(s) <= n => f[s] = G(f, s)
    BY <1>3
  <1>5. \A s \in D : f[s] = G(f, s)
    BY <1>4, WithoutLast
  <1>6. f = [s \in D |-> G(f, s)]
    <2> HIDE DEF G, D
    <2> QED
      BY <1>4, <1>5
  <1>7. Turns(f, loop, from, new, b, q)
    BY <1>6, Zenon DEF Turns
  <1> QED
    BY <1>7

(***************************************************************************)
(* Its outcome is that of one turn after the other.                        *)
(***************************************************************************)
LEMMA TurnsRun ==
  ASSUME NEW loop, NEW from, NEW new, NEW b, NEW q, NEW n \in Nat, DOMAIN q = 1..n, Len(q) = n,
         NEW it, Turns(it, loop, from, new, b, q)
  PROVE  RunsTo(it[DOMAIN q], loop, from, new, b, q)
  <1> DEFINE f == [k \in 0..n |-> it[1..k]]
             T(h, x) == Turn(loop, from, new, h, x)
  <1>0. \A s \in SUBSET (1..n) : it[s] = IF s = {} THEN b ELSE T(it[s \ {Max(s)}], q[Max(s)])
    BY Zenon DEF Turns
  <1> HIDE DEF T
  <1>1. it[{}] = b
    BY <1>0
  <1>2. ASSUME NEW k \in 1..n PROVE it[1..k] = T(it[1..(k - 1)], q[k])
    <2>1. 1..k \in SUBSET (1..n) /\ 1..k # {} /\ Max(1..k) = k /\ (1..k) \ {k} = 1..(k - 1)
      BY RoundsSoFar
    <2> QED
      BY <1>0, <2>1
  <1>3. 1..0 = {} /\ 0 \in 0..n /\ n \in 0..n /\ \A k \in 1..n : k \in 0..n /\ k - 1 \in 0..n
    OBVIOUS
  <1>4. \A k \in 0..n : f[k] = it[1..k]
    OBVIOUS
  <1> HIDE DEF f
  <1>5. f[0] = b /\ f[n] = it[DOMAIN q]
    BY <1>1, <1>3, <1>4
  <1>6. \A k \in 1..n : f[k] = T(f[k - 1], q[k])
    BY <1>2, <1>3, <1>4
  <1>7. Runs(f, loop, from, new, b, q)
    BY <1>5, <1>6 DEF Runs, T
  <1> QED
    BY <1>5, <1>7 DEF RunsTo

(***************************************************************************)
(* The loop that takes edges.                                              *)
(***************************************************************************)
LEMMA TakeEdgesRuns ==
  ASSUME NEW b, NEW q, NEW n \in Nat, DOMAIN q = 1..n, Len(q) = n
  PROVE  RunsTo(FoldLeft(TakeEdge, b, q), "take edges", <<>>, <<>>, b, q)
  <1> DEFINE Eq(i) == i = [s \in SUBSET DOMAIN q |->
                             IF s = {} THEN b ELSE TakeEdge(i[s \ {Max(s)}], q[Max(s)])]
             it == CHOOSE i : Eq(i)
  <1>1. \A h, x : Turn("take edges", <<>>, <<>>, h, x) = TakeEdge(h, x)
    BY DEF Turn
  <1>2. \A i : Eq(i) <=> Turns(i, "take edges", <<>>, <<>>, b, q)
    BY <1>1, Zenon DEF Turns
  <1>3. FoldLeft(TakeEdge, b, q) = it[DOMAIN q]
    BY Zenon DEF FoldLeft, MapThenFoldSet
  <1>4. \E i : Eq(i)
    <2> HIDE DEF Eq
    <2> QED
      BY <1>2, TurnsExist
  <1>5. Eq(it)
    <2> HIDE DEF Eq
    <2> QED
      BY <1>4
  <1> HIDE DEF Eq, it
  <1>6. Turns(it, "take edges", <<>>, <<>>, b, q)
    BY <1>2, <1>5
  <1>7. RunsTo(it[DOMAIN q], "take edges", <<>>, <<>>, b, q)
    BY <1>6, TurnsRun
  <1> QED
    BY <1>3, <1>7

(***************************************************************************)
(* The loop that takes nodes.                                              *)
(***************************************************************************)
LEMMA TakeNodesRuns ==
  ASSUME NEW b, NEW q, NEW n \in Nat, DOMAIN q = 1..n, Len(q) = n
  PROVE  RunsTo(FoldLeft(TakeNode, b, q),
                "take nodes", <<>>, <<>>, b, q)
  <1> DEFINE Eq(i) == i = [s \in SUBSET DOMAIN q |->
                             IF s = {} THEN b ELSE TakeNode(i[s \ {Max(s)}], q[Max(s)])]
             it == CHOOSE i : Eq(i)
  <1>1. \A h, x : Turn("take nodes", <<>>, <<>>, h, x) = TakeNode(h, x)
    BY DEF Turn
  <1>2. \A i : Eq(i) <=> Turns(i, "take nodes", <<>>, <<>>, b, q)
    BY <1>1, Zenon DEF Turns
  <1>3. FoldLeft(TakeNode, b, q) = it[DOMAIN q]
    BY Zenon DEF FoldLeft, MapThenFoldSet
  <1>4. \E i : Eq(i)
    <2> HIDE DEF Eq
    <2> QED
      BY <1>2, TurnsExist
  <1>5. Eq(it)
    <2> HIDE DEF Eq
    <2> QED
      BY <1>4
  <1> HIDE DEF Eq, it
  <1>6. Turns(it, "take nodes", <<>>, <<>>, b, q)
    BY <1>2, <1>5
  <1>7. RunsTo(it[DOMAIN q], "take nodes", <<>>, <<>>, b, q)
    BY <1>6, TurnsRun
  <1> QED
    BY <1>3, <1>7

(***************************************************************************)
(* reverse begins with the nodes alone.                                    *)
(***************************************************************************)
Emptied(g) == [n \in DOMAIN g |-> [g[n] EXCEPT !.outgoing = <<>>, !.incoming = {}]]

(***************************************************************************)
(* The loop of reverse.                                                    *)
(***************************************************************************)
LEMMA ReverseRuns ==
  ASSUME NEW g, NEW q, NEW n \in Nat, DOMAIN q = 1..n, Len(q) = n
  PROVE  RunsTo(ReverseEdges(g, q), "reverse", g, <<>>, Emptied(g), q)
  <1> DEFINE first == Emptied(g)
             Eq(i) == i = [s \in SUBSET DOMAIN q |->
                             IF s = {} THEN first ELSE Reinserted(g, i[s \ {Max(s)}], q[Max(s)])]
             it == CHOOSE i : Eq(i)
  <1>1. \A h, x : Turn("reverse", g, <<>>, h, x) = Reinserted(g, h, x)
    BY DEF Turn
  <1>2. \A i : Eq(i) <=> Turns(i, "reverse", g, <<>>, first, q)
    <2> HIDE DEF first
    <2> QED
      BY <1>1, Zenon DEF Turns
  <1>3. ReverseEdges(g, q) = it[DOMAIN q]
    BY Zenon DEF ReverseEdges, Reinserted, Emptied, FoldLeft, MapThenFoldSet
  <1> HIDE DEF first
  <1>4. \E i : Eq(i)
    <2> HIDE DEF Eq
    <2> QED
      BY <1>2, TurnsExist
  <1>5. Eq(it)
    <2> HIDE DEF Eq
    <2> QED
      BY <1>4
  <1> HIDE DEF Eq, it
  <1>6. Turns(it, "reverse", g, <<>>, first, q)
    BY <1>2, <1>5
  <1>7. RunsTo(it[DOMAIN q], "reverse", g, <<>>, first, q)
    BY <1>6, TurnsRun
  <1> QED
    BY <1>3, <1>7 DEF first

(***************************************************************************)
(* The loop of extend_graph that adds nodes.                               *)
(***************************************************************************)
LEMMA AddNodesRuns ==
  ASSUME NEW g, NEW other, NEW q,
         NEW n \in Nat, DOMAIN q = 1..n, Len(q) = n
  PROVE  q = Ascending(DOMAIN other)
           => RunsTo(AddNodes(g, other), "add nodes", other, <<>>, [g |-> g, new |-> <<>>], q)
  <1> DEFINE first == [g |-> g, new |-> <<>>]
             Eq(i) == i = [s \in SUBSET DOMAIN q |->
                             IF s = {} THEN first ELSE AddedNode(other, i[s \ {Max(s)}], q[Max(s)])]
             it == CHOOSE i : Eq(i)
  <1>1. \A h, x : Turn("add nodes", other, <<>>, h, x) = AddedNode(other, h, x)
    BY DEF Turn
  <1>2. \A i : Eq(i) <=> Turns(i, "add nodes", other, <<>>, first, q)
    <2> HIDE DEF first
    <2> QED
      BY <1>1, ZenonT(30) DEF Turns
  <1>3. ASSUME q = Ascending(DOMAIN other)
        PROVE  AddNodes(g, other) = it[DOMAIN q]
    <2>1. AddNodes(g, other)
            = FoldLeft(LAMBDA run, m : AddedNode(other, run, m), first, Ascending(DOMAIN other))
      BY Zenon DEF AddNodes, AddedNode
    <2>2. FoldLeft(LAMBDA run, m : AddedNode(other, run, m), first, q) = it[DOMAIN q]
      <3> HIDE DEF first
      <3> QED
        BY Zenon DEF FoldLeft, MapThenFoldSet
    <2> HIDE DEF it, first
    <2> QED
      BY <1>3, <2>1, <2>2, Zenon
  <1> HIDE DEF first
  <1>4. \E i : Eq(i)
    <2> HIDE DEF Eq
    <2> QED
      BY <1>2, TurnsExist
  <1>5. Eq(it)
    <2> HIDE DEF Eq
    <2> QED
      BY <1>4
  <1> HIDE DEF Eq, it
  <1>6. Turns(it, "add nodes", other, <<>>, first, q)
    BY <1>2, <1>5
  <1>7. RunsTo(it[DOMAIN q], "add nodes", other, <<>>, first, q)
    BY <1>6, TurnsRun
  <1> QED
    BY <1>3, <1>7 DEF first

(***************************************************************************)
(* The loop of extend_graph that adds edges.                               *)
(***************************************************************************)
LEMMA AddEdgesRuns ==
  ASSUME NEW g, NEW other, NEW new, NEW q,
         NEW n \in Nat, DOMAIN q = 1..n, Len(q) = n
  PROVE  q = Reverse(Descending(EdgeIxs(other)))
           => RunsTo(AddEdges(g, other, new), "add edges", other, new, g, q)
  <1> DEFINE first == g
             T(h, x) == AddedEdge(other, new, h, x)
             Eq(i) == i = [s \in SUBSET DOMAIN q |->
                             IF s = {} THEN first ELSE T(i[s \ {Max(s)}], q[Max(s)])]
             it == CHOOSE i : Eq(i)
  <1>1. \A h, x : Turn("add edges", other, new, h, x) = T(h, x)
    BY DEF Turn
  <1>2. \A i : Eq(i) <=> Turns(i, "add edges", other, new, first, q)
    <2> HIDE DEF first, T
    <2> QED
      BY <1>1, ZenonT(30) DEF Turns
  <1>3. ASSUME q = Reverse(Descending(EdgeIxs(other)))
        PROVE  AddEdges(g, other, new) = it[DOMAIN q]
    BY <1>3, Zenon DEF AddEdges, AddedEdge, FoldLeft, MapThenFoldSet
  <1> HIDE DEF first
  <1>4. \E i : Eq(i)
    <2> HIDE DEF Eq
    <2> QED
      BY <1>2, TurnsExist
  <1>5. Eq(it)
    <2> HIDE DEF Eq
    <2> QED
      BY <1>4
  <1> HIDE DEF Eq, it
  <1>6. Turns(it, "add edges", other, new, first, q)
    BY <1>2, <1>5
  <1>7. RunsTo(it[DOMAIN q], "add edges", other, new, first, q)
    BY <1>6, TurnsRun
  <1> QED
    BY <1>3, <1>7 DEF first

-----------------------------------------------------------------------------
(***************************************************************************)
(* q lists the elements of S, each once.                                   *)
(***************************************************************************)
Lists(q, S) == /\ Len(q) \in Nat /\ DOMAIN q = 1..Len(q)
               /\ \A i \in 1..Len(q) : q[i] \in S
               /\ \A i, j \in 1..Len(q) : i # j => q[i] # q[j]
               /\ \A x \in S : \E i \in 1..Len(q) : q[i] = x

(***************************************************************************)
(* Which of two indices a batch takes first, and extend_graph.             *)
(***************************************************************************)
EdgeFirst(a, b) == a[1] > b[1] \/ (a[1] = b[1] /\ a[2] > b[2])
NodeFirst(a, b) == a > b
NodeSooner(a, b) == a < b

(***************************************************************************)
(* A batch has every edge index it was given, in its order.                *)
(***************************************************************************)
LEMMA DescendingLists ==
  ASSUME NEW S, IsFiniteSet(S), S \subseteq Int \X Int
  PROVE  LET q == Descending(S) IN
         /\ Lists(q, S)
         /\ \A i, j \in 1..Len(q) : i < j => EdgeFirst(q[i], q[j])
  <1> DEFINE c == Cardinality(S)
             Good(s) == \A i, j \in DOMAIN s : i < j => s[i][1] > s[j][1] \/ (s[i][1] = s[j][1] /\ s[i][2] > s[j][2])
             q == CHOOSE s \in SetToSeqs(S) : Good(s)
             R == {p \in S \X S : EdgeFirst(p[1], p[2])}
  <1>1. \A x, y : <<x, y>> \in R <=> x \in S /\ y \in S /\ EdgeFirst(x, y)
    OBVIOUS
  <1>2. Orders(R, S)
    <2> HIDE DEF R
    <2>1. ASSUME NEW x \in S, NEW y \in S PROVE x = y \/ <<x, y>> \in R \/ <<y, x>> \in R
      <3>1. x = <<x[1], x[2]>> /\ y = <<y[1], y[2]>> /\ {x[1], x[2], y[1], y[2]} \subseteq Int
        OBVIOUS
      <3>2. x = y \/ EdgeFirst(x, y) \/ EdgeFirst(y, x)
        BY <3>1 DEF EdgeFirst
      <3> QED
        BY <1>1, <3>2
    <2>2. \A x, y, z \in S : <<x, y>> \in R /\ <<y, z>> \in R => <<x, z>> \in R
      BY <1>1 DEF EdgeFirst
    <2>3. \A x \in S : <<x, x>> \notin R
      BY <1>1 DEF EdgeFirst
    <2> QED
      BY <2>1, <2>2, <2>3, Zenon DEF Orders
  <1>3. c \in Nat
    BY FS_CardinalityType
  <1> HIDE DEF R, c
  <1>4. PICK s : InOrder(s, c, S, R)
    BY <1>2, ListingExists DEF c
  <1>5. s \in [1..c -> S] /\ DOMAIN s = 1..c /\ \A i, j \in 1..c : i < j => EdgeFirst(s[i], s[j])
    BY <1>1, <1>4 DEF InOrder
  <1>6. \A x \in S : ~EdgeFirst(x, x)
    BY DEF EdgeFirst
  <1>7. \A i, j \in 1..c : i # j => s[i] # s[j]
    <2>1. SUFFICES ASSUME NEW i \in 1..c, NEW j \in 1..c, i # j, s[i] = s[j] PROVE FALSE
      OBVIOUS
    <2>2. s[i] \in S
      BY <1>5
    <2>3. i < j \/ j < i
      BY <1>3, <2>1
    <2> QED
      BY <1>5, <1>6, <2>1, <2>2, <2>3
  <1>8. s \in SetToSeqs(S)
    BY <1>5, <1>7 DEF SetToSeqs, c
  <1>9. Good(s)
    BY <1>5 DEF EdgeFirst
  <1>10. q \in SetToSeqs(S) /\ Good(q)
    <2> HIDE DEF Good
    <2> QED
      BY <1>8, <1>9
  <1>11. Descending(S) = q
    BY Zenon DEF Descending, Sorted
  <1> HIDE DEF q
  <1>12. q \in [1..c -> S] /\ \A i, j \in 1..c : i # j => q[i] # q[j]
    BY <1>10, Zenon DEF SetToSeqs, c
  <1>13. DOMAIN q = 1..c /\ Len(q) = c
    BY <1>3, <1>12
  <1>14. \A x \in S : \E i \in 1..c : q[i] = x
    BY <1>12, ListingComplete DEF c
  <1>15. Lists(q, S)
    BY <1>3, <1>12, <1>13, <1>14 DEF Lists
  <1>16. \A i, j \in 1..c : i < j => EdgeFirst(q[i], q[j])
    BY <1>10, <1>13 DEF EdgeFirst
  <1> QED
    BY <1>11, <1>13, <1>15, <1>16

(***************************************************************************)
(* And every node index.                                                   *)
(***************************************************************************)
LEMMA DescendingNodesLists ==
  ASSUME NEW S, IsFiniteSet(S), S \subseteq Int
  PROVE  LET q == DescendingNodes(S) IN
         /\ Lists(q, S)
         /\ \A i, j \in 1..Len(q) : i < j => NodeFirst(q[i], q[j])
  <1> DEFINE c == Cardinality(S)
             Good(s) == \A i, j \in DOMAIN s : i < j => s[i] > s[j]
             q == CHOOSE s \in SetToSeqs(S) : Good(s)
             R == {p \in S \X S : NodeFirst(p[1], p[2])}
  <1>1. \A x, y : <<x, y>> \in R <=> x \in S /\ y \in S /\ NodeFirst(x, y)
    OBVIOUS
  <1>2. Orders(R, S)
    <2> HIDE DEF R
    <2>1. ASSUME NEW x \in S, NEW y \in S PROVE x = y \/ <<x, y>> \in R \/ <<y, x>> \in R
      <3>1. x \in Int /\ y \in Int
        OBVIOUS
      <3>2. x = y \/ NodeFirst(x, y) \/ NodeFirst(y, x)
        BY <3>1 DEF NodeFirst
      <3> QED
        BY <1>1, <3>2
    <2>2. \A x, y, z \in S : <<x, y>> \in R /\ <<y, z>> \in R => <<x, z>> \in R
      BY <1>1 DEF NodeFirst
    <2>3. \A x \in S : <<x, x>> \notin R
      BY <1>1 DEF NodeFirst
    <2> QED
      BY <2>1, <2>2, <2>3, Zenon DEF Orders
  <1>3. c \in Nat
    BY FS_CardinalityType
  <1> HIDE DEF R, c
  <1>4. PICK s : InOrder(s, c, S, R)
    BY <1>2, ListingExists DEF c
  <1>5. s \in [1..c -> S] /\ DOMAIN s = 1..c /\ \A i, j \in 1..c : i < j => NodeFirst(s[i], s[j])
    BY <1>1, <1>4 DEF InOrder
  <1>6. \A x \in S : ~NodeFirst(x, x)
    BY DEF NodeFirst
  <1>7. \A i, j \in 1..c : i # j => s[i] # s[j]
    <2>1. SUFFICES ASSUME NEW i \in 1..c, NEW j \in 1..c, i # j, s[i] = s[j] PROVE FALSE
      OBVIOUS
    <2>2. s[i] \in S
      BY <1>5
    <2>3. i < j \/ j < i
      BY <1>3, <2>1
    <2> QED
      BY <1>5, <1>6, <2>1, <2>2, <2>3
  <1>8. s \in SetToSeqs(S)
    BY <1>5, <1>7 DEF SetToSeqs, c
  <1>9. Good(s)
    BY <1>5 DEF NodeFirst
  <1>10. q \in SetToSeqs(S) /\ Good(q)
    <2> HIDE DEF Good
    <2> QED
      BY <1>8, <1>9
  <1>11. DescendingNodes(S) = q
    BY Zenon DEF DescendingNodes, Sorted
  <1> HIDE DEF q
  <1>12. q \in [1..c -> S] /\ \A i, j \in 1..c : i # j => q[i] # q[j]
    BY <1>10, Zenon DEF SetToSeqs, c
  <1>13. DOMAIN q = 1..c /\ Len(q) = c
    BY <1>3, <1>12
  <1>14. \A x \in S : \E i \in 1..c : q[i] = x
    BY <1>12, ListingComplete DEF c
  <1>15. Lists(q, S)
    BY <1>3, <1>12, <1>13, <1>14 DEF Lists
  <1>16. \A i, j \in 1..c : i < j => NodeFirst(q[i], q[j])
    BY <1>10, <1>13 DEF NodeFirst
  <1> QED
    BY <1>11, <1>13, <1>15, <1>16

(***************************************************************************)
(* extend_graph has every node of the other graph.                         *)
(***************************************************************************)
LEMMA AscendingLists ==
  ASSUME NEW S, IsFiniteSet(S), S \subseteq Int
  PROVE  LET q == Ascending(S) IN
         /\ Lists(q, S)
         /\ \A i, j \in 1..Len(q) : i < j => NodeSooner(q[i], q[j])
  <1> DEFINE c == Cardinality(S)
             Good(s) == \A i, j \in DOMAIN s : i < j => s[i] < s[j]
             q == CHOOSE s \in SetToSeqs(S) : Good(s)
             R == {p \in S \X S : NodeSooner(p[1], p[2])}
  <1>1. \A x, y : <<x, y>> \in R <=> x \in S /\ y \in S /\ NodeSooner(x, y)
    OBVIOUS
  <1>2. Orders(R, S)
    <2> HIDE DEF R
    <2>1. ASSUME NEW x \in S, NEW y \in S PROVE x = y \/ <<x, y>> \in R \/ <<y, x>> \in R
      <3>1. x \in Int /\ y \in Int
        OBVIOUS
      <3>2. x = y \/ NodeSooner(x, y) \/ NodeSooner(y, x)
        BY <3>1 DEF NodeSooner
      <3> QED
        BY <1>1, <3>2
    <2>2. \A x, y, z \in S : <<x, y>> \in R /\ <<y, z>> \in R => <<x, z>> \in R
      BY <1>1 DEF NodeSooner
    <2>3. \A x \in S : <<x, x>> \notin R
      BY <1>1 DEF NodeSooner
    <2> QED
      BY <2>1, <2>2, <2>3, Zenon DEF Orders
  <1>3. c \in Nat
    BY FS_CardinalityType
  <1> HIDE DEF R, c
  <1>4. PICK s : InOrder(s, c, S, R)
    BY <1>2, ListingExists DEF c
  <1>5. s \in [1..c -> S] /\ DOMAIN s = 1..c /\ \A i, j \in 1..c : i < j => NodeSooner(s[i], s[j])
    BY <1>1, <1>4 DEF InOrder
  <1>6. \A x \in S : ~NodeSooner(x, x)
    BY DEF NodeSooner
  <1>7. \A i, j \in 1..c : i # j => s[i] # s[j]
    <2>1. SUFFICES ASSUME NEW i \in 1..c, NEW j \in 1..c, i # j, s[i] = s[j] PROVE FALSE
      OBVIOUS
    <2>2. s[i] \in S
      BY <1>5
    <2>3. i < j \/ j < i
      BY <1>3, <2>1
    <2> QED
      BY <1>5, <1>6, <2>1, <2>2, <2>3
  <1>8. s \in SetToSeqs(S)
    BY <1>5, <1>7 DEF SetToSeqs, c
  <1>9. Good(s)
    BY <1>5 DEF NodeSooner
  <1>10. q \in SetToSeqs(S) /\ Good(q)
    <2> HIDE DEF Good
    <2> QED
      BY <1>8, <1>9
  <1>11. Ascending(S) = q
    BY Zenon DEF Ascending, Sorted
  <1> HIDE DEF q
  <1>12. q \in [1..c -> S] /\ \A i, j \in 1..c : i # j => q[i] # q[j]
    BY <1>10, Zenon DEF SetToSeqs, c
  <1>13. DOMAIN q = 1..c /\ Len(q) = c
    BY <1>3, <1>12
  <1>14. \A x \in S : \E i \in 1..c : q[i] = x
    BY <1>12, ListingComplete DEF c
  <1>15. Lists(q, S)
    BY <1>3, <1>12, <1>13, <1>14 DEF Lists
  <1>16. \A i, j \in 1..c : i < j => NodeSooner(q[i], q[j])
    BY <1>10, <1>13 DEF NodeSooner
  <1> QED
    BY <1>11, <1>13, <1>15, <1>16

-----------------------------------------------------------------------------
(***************************************************************************)
(* What can be seen of a graph, one edge at a time.                        *)
(***************************************************************************)
HasEdge(g, n, e) == n \in DOMAIN g /\ e \in DOMAIN g[n].outgoing

EdgeAt(g, n, e) == g[n].outgoing[e]

Recorded(g, t, n, e) == <<n, e>> \in g[t].incoming

(***************************************************************************)
(* The collections of edges and of nodes.                                  *)
(***************************************************************************)
EdgeEntries == [val : EdgeVals, to : Int, id : EdgeIds]

Outgoing == {c \in Colls(DenseEdges, Int, EdgeEntries) :
               DenseEdges \/ \A e \in DOMAIN c : c[e].val = e}

NodeEntries == [val : NodeVals, outgoing : Outgoing, incoming : SUBSET (Int \X Int)]

Shaped(g) == /\ g \in Colls(DenseNodes, Int, NodeEntries)
             /\ DenseNodes \/ \A n \in DOMAIN g : g[n].val = n

(***************************************************************************)
(* The inductive invariant: the shape, that payloads name nodes, and of    *)
(* the edges that each leads to a node, that ids name them, and that they  *)
(* and no others are recorded where they lead to.                          *)
(***************************************************************************)
EdgesLead(g) == \A n, e : HasEdge(g, n, e) => EdgeAt(g, n, e).to \in DOMAIN g

IdsName(g) ==
  \A n, e, m, k : /\ HasEdge(g, n, e) /\ HasEdge(g, m, k)
                  /\ EdgeAt(g, n, e).id = EdgeAt(g, m, k).id
                  => n = m /\ e = k

IndexExact(g) ==
  Maintained => \A t \in DOMAIN g : \A n, e :
    Recorded(g, t, n, e) <=> HasEdge(g, n, e) /\ EdgeAt(g, n, e).to = t

Whole(g) == Shaped(g) /\ EdgesLead(g) /\ IdsName(g) /\ IndexExact(g) /\ PayloadsDiffer(g)

(***************************************************************************)
(* What can be seen of it by payload and by id: that there is such a node, *)
(* and that the edge of that id leads from one such node to another.       *)
(***************************************************************************)
Holds(g, x) == \E n \in DOMAIN g : g[n].val = x

Joins(g, id, a, b) ==
  \E n, e : /\ HasEdge(g, n, e) /\ EdgeAt(g, n, e).id = id
            /\ g[n].val = a /\ g[EdgeAt(g, n, e).to].val = b

(***************************************************************************)
(* Payloads go on naming nodes that keep them.                             *)
(***************************************************************************)
LEMMA PayloadsStay ==
  ASSUME NEW g, PayloadsDiffer(g), NEW h,
         DOMAIN h = DOMAIN g, \A n \in DOMAIN g : h[n].val = g[n].val
  PROVE  PayloadsDiffer(h)
  BY DEF PayloadsDiffer

(***************************************************************************)
(* The families are told apart by truth values.                            *)
(***************************************************************************)
LEMMA Families ==
  DenseNodes \in BOOLEAN /\ DenseEdges \in BOOLEAN /\ Maintained \in BOOLEAN
  BY ProfileAssumption

(***************************************************************************)
(* What the shape says.                                                    *)
(***************************************************************************)
LEMMA ShapeElim ==
  ASSUME NEW g, Shaped(g)
  PROVE  /\ g = [n \in DOMAIN g |-> g[n]]
         /\ IsFiniteSet(DOMAIN g)
         /\ \A n \in DOMAIN g : /\ n \in Int
                                /\ g[n] \in NodeEntries
                                /\ g[n].val \in NodeVals
                                /\ g[n].outgoing \in Outgoing
                                /\ g[n].incoming \subseteq Int \X Int
         /\ \A n, e : HasEdge(g, n, e) => /\ n \in Int /\ e \in Int
                                          /\ EdgeAt(g, n, e) \in EdgeEntries
  <1>1. g \in Colls(DenseNodes, Int, NodeEntries)
    BY DEF Shaped
  <1>2. /\ g = [n \in DOMAIN g |-> g[n]]
        /\ IsFiniteSet(DOMAIN g)
        /\ \A n \in DOMAIN g : n \in Int /\ g[n] \in NodeEntries
    BY <1>1, CollElim
  <1>3. ASSUME NEW n \in DOMAIN g
        PROVE  /\ g[n].val \in NodeVals
               /\ g[n].outgoing \in Outgoing
               /\ g[n].incoming \subseteq Int \X Int
    <2>1. g[n] \in NodeEntries
      BY <1>2
    <2> QED
      BY <2>1 DEF NodeEntries
  <1>4. ASSUME NEW n, NEW e, HasEdge(g, n, e)
        PROVE  n \in Int /\ e \in Int /\ EdgeAt(g, n, e) \in EdgeEntries
    <2>1. n \in DOMAIN g /\ e \in DOMAIN g[n].outgoing
      BY <1>4 DEF HasEdge
    <2>2. g[n].outgoing \in Colls(DenseEdges, Int, EdgeEntries)
      BY <1>3, <2>1 DEF Outgoing
    <2>3. e \in Int /\ g[n].outgoing[e] \in EdgeEntries
      BY <2>1, <2>2, CollElim
    <2> QED
      BY <1>2, <2>1, <2>3 DEF EdgeAt
  <1> QED
    BY <1>2, <1>3, <1>4

(***************************************************************************)
(* The nodes and the edges of h are those of g.                            *)
(***************************************************************************)
SameEdges(g, h) == /\ DOMAIN h = DOMAIN g
                   /\ \A n \in DOMAIN g : h[n].val = g[n].val /\ h[n].outgoing = g[n].outgoing

(***************************************************************************)
(* h is g with another entry at n.                                         *)
(***************************************************************************)
Replaces(h, g, n, entry) == h = [g EXCEPT ![n] = entry]

(***************************************************************************)
(* One entry of a node collection replaced.                                *)
(***************************************************************************)
LEMMA NodeReplaced ==
  ASSUME NEW g, Shaped(g), NEW n \in DOMAIN g, NEW entry \in NodeEntries, entry.val = g[n].val,
         NEW h, Replaces(h, g, n, entry)
  PROVE  /\ Shaped(h)
         /\ DOMAIN h = DOMAIN g
         /\ h[n] = entry
         /\ \A m \in DOMAIN g : m # n => h[m] = g[m]
  <1>1. /\ g = [m \in DOMAIN g |-> g[m]]
        /\ \A m \in DOMAIN g : g[m] \in NodeEntries
        /\ g \in Colls(DenseNodes, Int, NodeEntries)
    BY ShapeElim DEF Shaped
  <1>2. /\ h = [m \in DOMAIN g |-> h[m]]
        /\ h[n] = entry
        /\ \A m \in DOMAIN g : m # n => h[m] = g[m]
    BY <1>1 DEF Replaces
  <1>3. \A m \in DOMAIN g : h[m] \in NodeEntries
    BY <1>1, <1>2
  <1>4. h \in Colls(DenseNodes, Int, NodeEntries) /\ DOMAIN h = DOMAIN g
    BY <1>1, <1>2, <1>3, CollUpdate, Zenon
  <1>5. DenseNodes \/ \A m \in DOMAIN h : h[m].val = m
    BY <1>2, <1>4 DEF Shaped
  <1> QED
    BY <1>2, <1>4, <1>5 DEF Shaped

(***************************************************************************)
(* record_insert adds one index to one set.                                *)
(***************************************************************************)
LEMMA RecordInsertAdds ==
  ASSUME NEW g, Shaped(g), NEW t \in DOMAIN g, NEW n \in Int, NEW e \in Int,
         NEW h, h = RecordInsert(g, t, <<n, e>>)
  PROVE  /\ Shaped(h)
         /\ SameEdges(g, h)
         /\ Maintained => \A u \in DOMAIN g : \A m, k :
              Recorded(h, u, m, k) <=> Recorded(g, u, m, k) \/ (u = t /\ m = n /\ k = e)
  <1>1. CASE ~Maintained
    BY <1>1 DEF RecordInsert, SameEdges
  <1>2. CASE Maintained
    <2> DEFINE entry == [g[t] EXCEPT !.incoming = @ \cup {<<n, e>>}]
    <2>1. g[t] \in NodeEntries /\ g[t].incoming \subseteq Int \X Int
      BY ShapeElim
    <2>2. /\ entry \in NodeEntries /\ entry.val = g[t].val /\ entry.outgoing = g[t].outgoing
          /\ entry.incoming = g[t].incoming \cup {<<n, e>>}
      BY <2>1 DEF NodeEntries
    <2>3. Replaces(h, g, t, entry)
      BY <1>2 DEF RecordInsert, Replaces
    <2> HIDE DEF entry
    <2>4. /\ Shaped(h) /\ DOMAIN h = DOMAIN g /\ h[t] = entry
          /\ \A m \in DOMAIN g : m # t => h[m] = g[m]
      BY <2>2, <2>3, NodeReplaced
    <2>5. SameEdges(g, h)
      BY <2>2, <2>4 DEF SameEdges
    <2>6. ASSUME NEW u \in DOMAIN g, NEW m, NEW k
          PROVE  Recorded(h, u, m, k) <=> Recorded(g, u, m, k) \/ (u = t /\ m = n /\ k = e)
      <3>1. CASE u = t
        BY <2>2, <2>4, <3>1 DEF Recorded
      <3>2. CASE u # t
        BY <2>4, <3>2 DEF Recorded
      <3> QED
        BY <3>1, <3>2
    <2> QED
      BY <2>4, <2>5, <2>6
  <1> QED
    BY <1>1, <1>2, Families

(***************************************************************************)
(* record_remove takes one index out of one set.                           *)
(***************************************************************************)
LEMMA RecordRemoveDrops ==
  ASSUME NEW g, Shaped(g), NEW t \in DOMAIN g, NEW n \in Int, NEW e \in Int,
         NEW h, h = RecordRemove(g, t, <<n, e>>)
  PROVE  /\ Shaped(h)
         /\ SameEdges(g, h)
         /\ Maintained => \A u \in DOMAIN g : \A m, k :
              Recorded(h, u, m, k) <=> Recorded(g, u, m, k) /\ ~(u = t /\ m = n /\ k = e)
  <1>1. CASE ~Maintained
    BY <1>1 DEF RecordRemove, SameEdges
  <1>2. CASE Maintained
    <2> DEFINE entry == [g[t] EXCEPT !.incoming = @ \ {<<n, e>>}]
    <2>1. g[t] \in NodeEntries /\ g[t].incoming \subseteq Int \X Int
      BY ShapeElim
    <2>2. /\ entry \in NodeEntries /\ entry.val = g[t].val /\ entry.outgoing = g[t].outgoing
          /\ entry.incoming = g[t].incoming \ {<<n, e>>}
      BY <2>1 DEF NodeEntries
    <2>3. Replaces(h, g, t, entry)
      BY <1>2 DEF RecordRemove, Replaces
    <2> HIDE DEF entry
    <2>4. /\ Shaped(h) /\ DOMAIN h = DOMAIN g /\ h[t] = entry
          /\ \A m \in DOMAIN g : m # t => h[m] = g[m]
      BY <2>2, <2>3, NodeReplaced
    <2>5. SameEdges(g, h)
      BY <2>2, <2>4 DEF SameEdges
    <2>6. ASSUME NEW u \in DOMAIN g, NEW m, NEW k
          PROVE  Recorded(h, u, m, k) <=> Recorded(g, u, m, k) /\ ~(u = t /\ m = n /\ k = e)
      <3>1. CASE u = t
        BY <2>2, <2>4, <3>1 DEF Recorded
      <3>2. CASE u # t
        BY <2>4, <3>2 DEF Recorded
      <3> QED
        BY <3>1, <3>2
    <2> QED
      BY <2>4, <2>5, <2>6
  <1> QED
    BY <1>1, <1>2, Families

(***************************************************************************)
(* The same edges can be seen in both.                                     *)
(***************************************************************************)
LEMMA SameEdgesSeen ==
  ASSUME NEW g, NEW h, SameEdges(g, h)
  PROVE  /\ \A n, e : HasEdge(h, n, e) <=> HasEdge(g, n, e)
         /\ \A n, e : HasEdge(g, n, e) => EdgeAt(h, n, e) = EdgeAt(g, n, e)
  BY DEF SameEdges, HasEdge, EdgeAt

(***************************************************************************)
(* h is g with another collection of edges at n.                           *)
(***************************************************************************)
Rewires(h, g, n, c) == h = [g EXCEPT ![n].outgoing = c]

(***************************************************************************)
(* The collection of edges of one node replaced.                           *)
(***************************************************************************)
LEMMA OutgoingReplaced ==
  ASSUME NEW g, Shaped(g), NEW n \in DOMAIN g, NEW c \in Outgoing,
         NEW h, Rewires(h, g, n, c)
  PROVE  /\ Shaped(h)
         /\ DOMAIN h = DOMAIN g
         /\ \A m \in DOMAIN g : h[m].val = g[m].val
         /\ \A m, k : HasEdge(h, m, k) <=> IF m = n THEN k \in DOMAIN c ELSE HasEdge(g, m, k)
         /\ \A k : EdgeAt(h, n, k) = c[k]
         /\ \A m \in DOMAIN g : \A k : m # n => EdgeAt(h, m, k) = EdgeAt(g, m, k)
         /\ \A t \in DOMAIN g : \A m, k : Recorded(h, t, m, k) <=> Recorded(g, t, m, k)
  <1> DEFINE entry == [g[n] EXCEPT !.outgoing = c]
  <1>1. g[n] \in NodeEntries
    BY ShapeElim
  <1>2. /\ entry \in NodeEntries /\ entry.val = g[n].val /\ entry.outgoing = c
        /\ entry.incoming = g[n].incoming
    BY <1>1 DEF NodeEntries
  <1>3. Replaces(h, g, n, entry)
    BY DEF Replaces, Rewires
  <1> HIDE DEF entry
  <1>4. /\ Shaped(h) /\ DOMAIN h = DOMAIN g /\ h[n] = entry
        /\ \A m \in DOMAIN g : m # n => h[m] = g[m]
    BY <1>2, <1>3, NodeReplaced
  <1>5. \A m \in DOMAIN g : h[m].val = g[m].val
    BY <1>2, <1>4
  <1>6. \A m, k : HasEdge(h, m, k) <=> IF m = n THEN k \in DOMAIN c ELSE HasEdge(g, m, k)
    BY <1>2, <1>4 DEF HasEdge
  <1>7. \A k : EdgeAt(h, n, k) = c[k]
    BY <1>2, <1>4 DEF EdgeAt
  <1>8. \A m \in DOMAIN g : \A k : m # n => EdgeAt(h, m, k) = EdgeAt(g, m, k)
    BY <1>4 DEF EdgeAt
  <1>9. \A t \in DOMAIN g : \A m, k : Recorded(h, t, m, k) <=> Recorded(g, t, m, k)
    BY <1>2, <1>4 DEF Recorded
  <1> QED
    BY <1>4, <1>5, <1>6, <1>7, <1>8, <1>9

-----------------------------------------------------------------------------
(***************************************************************************)
(* The position that a removal from the edges of n frees in the end.       *)
(***************************************************************************)
FreedEdge(g, n, e) == Gone(DenseEdges, g[n].outgoing, e)

(***************************************************************************)
(* h is g without the edge at n, e; the last edge of n may have moved      *)
(* there.                                                                  *)
(***************************************************************************)
EdgeTaken(g, h, n, e) ==
  /\ DOMAIN h = DOMAIN g
  /\ \A m \in DOMAIN g : h[m].val = g[m].val
  /\ HasEdge(g, n, FreedEdge(g, n, e))
  /\ FreedEdge(g, n, e) >= e
  /\ DenseEdges \/ FreedEdge(g, n, e) = e
  /\ \A m, k : HasEdge(h, m, k) <=> HasEdge(g, m, k) /\ ~(m = n /\ k = FreedEdge(g, n, e))
  /\ HasEdge(h, n, e) => EdgeAt(h, n, e) = EdgeAt(g, n, FreedEdge(g, n, e))
  /\ \A m, k : HasEdge(h, m, k) /\ ~(m = n /\ k = e) => EdgeAt(h, m, k) = EdgeAt(g, m, k)

(***************************************************************************)
(* A removal from a collection of edges.                                   *)
(***************************************************************************)
LEMMA OutgoingTaken ==
  ASSUME NEW c \in Outgoing, NEW e \in DOMAIN c, NEW d, d = Take(DenseEdges, c, e),
         NEW gone, gone = Gone(DenseEdges, c, e)
  PROVE  /\ d \in Outgoing
         /\ gone \in DOMAIN c /\ gone \in Int /\ e \in Int /\ gone >= e
         /\ DenseEdges \/ gone = e
         /\ Relocates(DenseEdges, c, e) => gone = LastIndex(c) /\ gone # e
         /\ ~Relocates(DenseEdges, c, e) => gone = e
         /\ \A i : i \in DOMAIN d <=> i \in DOMAIN c /\ i # gone
         /\ e \in DOMAIN d => d[e] = c[gone]
         /\ \A i \in DOMAIN d : i # e => d[i] = c[i]
  <1>1. c \in Colls(DenseEdges, Int, EdgeEntries) /\ (DenseEdges \/ \A i \in DOMAIN c : c[i].val = i)
    BY DEF Outgoing
  <1>2. /\ d \in Colls(DenseEdges, Int, EdgeEntries)
        /\ gone \in DOMAIN c
        /\ \A i : i \in DOMAIN d <=> i \in DOMAIN c /\ i # gone
        /\ \A i \in DOMAIN d : d[i] = IF i = e THEN c[gone] ELSE c[i]
        /\ Relocates(DenseEdges, c, e) => gone = LastIndex(c) /\ gone # e
        /\ ~Relocates(DenseEdges, c, e) => gone = e
    BY <1>1, CollTake, Families
  <1>3. /\ \A i \in DOMAIN c : i \in Int
        /\ Size(c) \in Nat
        /\ DenseEdges => DOMAIN c = 0..(Size(c) - 1)
    BY <1>1, CollElim
  <1>4. DenseEdges \/ gone = e
    BY <1>2 DEF Relocates
  <1>5. gone >= e
    <2>1. CASE Relocates(DenseEdges, c, e)
      <3>1. DOMAIN c = 0..(Size(c) - 1)
        BY <1>3, <2>1, Zenon DEF Relocates
      <3>2. gone = Size(c) - 1
        BY <1>2, <2>1 DEF LastIndex
      <3>3. e \in 0..(Size(c) - 1)
        BY <3>1
      <3> QED
        BY <1>3, <3>2, <3>3
    <2>2. CASE ~Relocates(DenseEdges, c, e)
      BY <1>2, <1>3, <2>2
    <2> QED
      BY <2>1, <2>2
  <1>6. e \in DOMAIN d => d[e] = c[gone]
    BY <1>2
  <1>7. \A i \in DOMAIN d : i # e => d[i] = c[i]
    BY <1>2
  <1>8. DenseEdges \/ \A i \in DOMAIN d : d[i].val = i
    BY <1>1, <1>2, <1>4, <1>7, Zenon
  <1>9. d \in Outgoing
    BY <1>2, <1>8, Zenon DEF Outgoing
  <1>10. gone \in Int /\ e \in Int
    BY <1>2, <1>3
  <1> QED
    BY <1>2, <1>4, <1>5, <1>6, <1>7, <1>9, <1>10

(***************************************************************************)
(* take_edge_unchecked takes one edge, and the reverse index follows.      *)
(***************************************************************************)
LEMMA TakeEdgeTakes ==
  ASSUME NEW g, Whole(g), NEW n, NEW e, HasEdge(g, n, e), NEW h, h = TakeEdge(g, <<n, e>>)
  PROVE  Whole(h) /\ EdgeTaken(g, h, n, e)
  <1> DEFINE c == g[n].outgoing
             d == Take(DenseEdges, c, e)
             gone == FreedEdge(g, n, e)
             to0 == EdgeAt(g, n, e).to
             out == [g EXCEPT ![n].outgoing = d]
             taken == RecordRemove(out, to0, <<n, e>>)
             old == <<n, LastIndex(c)>>
             to1 == EdgeAt(taken, n, e).to
             moves == Relocates(DenseEdges, c, e)
             follow == RecordInsert(RecordRemove(taken, to1, old), to1, <<n, e>>)
  <1>1. Shaped(g) /\ EdgesLead(g) /\ IdsName(g) /\ IndexExact(g) /\ PayloadsDiffer(g)
    BY DEF Whole
  <1>2. n \in DOMAIN g /\ e \in DOMAIN c
    BY DEF HasEdge
  <1>3. n \in Int /\ c \in Outgoing
    BY <1>1, <1>2, ShapeElim
  <1>4. h = IF moves /\ old \in taken[to1].incoming THEN follow ELSE taken
    <2>1. <<n, e>>[1] = n /\ <<n, e>>[2] = e
      OBVIOUS
    <2>2. Take(DenseEdges, g[n].outgoing, e) = d
      OBVIOUS
    <2>3. out = [g EXCEPT ![n].outgoing = Take(DenseEdges, @, e)]
      OBVIOUS
    <2> HIDE DEF c, d, out
    <2> QED
      BY <2>1, <2>2, <2>3 DEF TakeEdge, Edge, EdgeAt, c
  <1>5. /\ d \in Outgoing
        /\ gone \in DOMAIN c /\ gone \in Int /\ e \in Int /\ gone >= e
        /\ DenseEdges \/ gone = e
        /\ moves => gone = LastIndex(c) /\ gone # e
        /\ ~moves => gone = e
        /\ \A i : i \in DOMAIN d <=> i \in DOMAIN c /\ i # gone
        /\ e \in DOMAIN d => d[e] = c[gone]
        /\ \A i \in DOMAIN d : i # e => d[i] = c[i]
    <2> HIDE DEF c, d, moves, gone
    <2>1. d = Take(DenseEdges, c, e) /\ gone = Gone(DenseEdges, c, e) /\ (moves <=> Relocates(DenseEdges, c, e))
      BY Zenon DEF c, d, gone, moves, FreedEdge
    <2> QED
      BY <1>2, <1>3, <2>1, OutgoingTaken
  <1>6. to0 \in DOMAIN g
    BY <1>1 DEF EdgesLead
  <1> HIDE DEF d, gone, moves, follow, taken
  <1>7. /\ Shaped(out)
        /\ DOMAIN out = DOMAIN g
        /\ \A m \in DOMAIN g : out[m].val = g[m].val
        /\ \A m, k : HasEdge(out, m, k) <=> IF m = n THEN k \in DOMAIN d ELSE HasEdge(g, m, k)
        /\ \A k : EdgeAt(out, n, k) = d[k]
        /\ \A m \in DOMAIN g : \A k : m # n => EdgeAt(out, m, k) = EdgeAt(g, m, k)
        /\ \A t \in DOMAIN g : \A m, k : Recorded(out, t, m, k) <=> Recorded(g, t, m, k)
    <2>1. Rewires(out, g, n, d)
      BY DEF Rewires
    <2> HIDE DEF out, c
    <2> QED
      BY <1>1, <1>2, <1>5, <2>1, OutgoingReplaced
  <1> HIDE DEF out, c
  <1>8. EdgeTaken(g, out, n, e)
    <2>1. \A k : HasEdge(g, n, k) <=> k \in DOMAIN c
      BY <1>2 DEF HasEdge, c
    <2>2. \A k : EdgeAt(g, n, k) = c[k]
      BY DEF EdgeAt, c
    <2>3. \A m, k : HasEdge(out, m, k) <=> HasEdge(g, m, k) /\ ~(m = n /\ k = gone)
      BY <1>5, <1>7, <2>1
    <2>4. HasEdge(out, n, e) => EdgeAt(out, n, e) = EdgeAt(g, n, gone)
      BY <1>5, <1>7, <2>2
    <2>5. ASSUME NEW m, NEW k, HasEdge(out, m, k), ~(m = n /\ k = e)
          PROVE  EdgeAt(out, m, k) = EdgeAt(g, m, k)
      <3>1. CASE m = n
        BY <1>5, <1>7, <2>2, <2>5, <3>1
      <3>2. CASE m # n
        <4>1. m \in DOMAIN g
          BY <1>7, <2>5, <3>2 DEF HasEdge
        <4> QED
          BY <1>7, <3>2, <4>1
      <3> QED
        BY <3>1, <3>2
    <2>6. HasEdge(g, n, gone)
      BY <1>5, <2>1
    <2> QED
      BY <1>5, <1>7, <2>3, <2>4, <2>5, <2>6 DEF EdgeTaken, gone
  <1>9. /\ Shaped(taken) /\ SameEdges(out, taken)
        /\ Maintained => \A u \in DOMAIN g : \A m, k :
             Recorded(taken, u, m, k) <=> Recorded(g, u, m, k) /\ ~(u = to0 /\ m = n /\ k = e)
    <2> HIDE DEF to0
    <2>1. /\ Shaped(taken) /\ SameEdges(out, taken)
          /\ Maintained => \A u \in DOMAIN out : \A m, k :
               Recorded(taken, u, m, k) <=> Recorded(out, u, m, k) /\ ~(u = to0 /\ m = n /\ k = e)
      BY <1>3, <1>5, <1>6, <1>7, RecordRemoveDrops DEF taken
    <2> QED
      BY <1>7, <2>1
  <1>10. ASSUME NEW x, SameEdges(out, x) PROVE EdgeTaken(g, x, n, e)
    <2>1. /\ \A m, k : HasEdge(x, m, k) <=> HasEdge(out, m, k)
          /\ \A m, k : HasEdge(out, m, k) => EdgeAt(x, m, k) = EdgeAt(out, m, k)
      BY <1>10, SameEdgesSeen
    <2>2. DOMAIN x = DOMAIN g /\ \A m \in DOMAIN g : x[m].val = g[m].val
      BY <1>7, <1>10 DEF SameEdges
    <2> QED
      BY <1>8, <2>1, <2>2 DEF EdgeTaken
  <1>11. ASSUME NEW x, EdgeTaken(g, x, n, e) PROVE EdgesLead(x) /\ IdsName(x)
    <2>1. \A m, k : HasEdge(x, m, k) => \E j : HasEdge(g, m, j) /\ EdgeAt(x, m, k) = EdgeAt(g, m, j)
      BY <1>11 DEF EdgeTaken
    <2>2. EdgesLead(x)
      BY <1>1, <1>11, <2>1 DEF EdgesLead, EdgeTaken
    <2>3. ASSUME NEW m, NEW k, NEW m2, NEW k2, HasEdge(x, m, k), HasEdge(x, m2, k2),
                 EdgeAt(x, m, k).id = EdgeAt(x, m2, k2).id
          PROVE  m = m2 /\ k = k2
      <3> DEFINE src(a, b) == IF a = n /\ b = e THEN gone ELSE b
      <3>1. \A a, b : HasEdge(x, a, b) => /\ HasEdge(g, a, src(a, b))
                                          /\ EdgeAt(x, a, b) = EdgeAt(g, a, src(a, b))
                                          /\ ~(a = n /\ b = gone)
        BY <1>11 DEF EdgeTaken, gone
      <3>2. m = m2 /\ src(m, k) = src(m2, k2)
        <4> HIDE DEF src
        <4>1. /\ HasEdge(g, m, src(m, k)) /\ HasEdge(g, m2, src(m2, k2))
              /\ EdgeAt(g, m, src(m, k)).id = EdgeAt(g, m2, src(m2, k2)).id
          BY <2>3, <3>1
        <4> QED
          BY <1>1, <4>1, Zenon DEF IdsName
      <3>3. ~(m = n /\ k = gone) /\ ~(m2 = n /\ k2 = gone)
        BY <2>3, <3>1
      <3> QED
        BY <3>2, <3>3
    <2> QED
      BY <2>2, <2>3 DEF IdsName
  <1>12. CASE ~Maintained
    <2>1. follow = taken
      BY <1>12 DEF follow, RecordInsert, RecordRemove
    <2>2. h = taken
      BY <1>4, <2>1
    <2>3. EdgeTaken(g, h, n, e)
      BY <1>9, <1>10, <2>2
    <2>4. EdgesLead(h) /\ IdsName(h)
      BY <1>11, <2>3
    <2>5. PayloadsDiffer(h)
      BY <1>1, <2>3, PayloadsStay DEF EdgeTaken
    <2> QED
      BY <1>9, <1>12, <2>2, <2>3, <2>4, <2>5 DEF Whole, IndexExact
  <1>13. CASE Maintained
    <2>1. EdgeTaken(g, taken, n, e)
      BY <1>9, <1>10
    <2>2. CASE ~moves
      <3>1. h = taken
        BY <1>4, <2>2
      <3>2. ASSUME NEW t \in DOMAIN g, NEW m, NEW k
            PROVE  Recorded(taken, t, m, k) <=> HasEdge(taken, m, k) /\ EdgeAt(taken, m, k).to = t
        <4>1. Recorded(g, t, m, k) <=> HasEdge(g, m, k) /\ EdgeAt(g, m, k).to = t
          BY <1>1, <1>13 DEF IndexExact
        <4>2. HasEdge(taken, m, k) <=> HasEdge(g, m, k) /\ ~(m = n /\ k = e)
          BY <1>5, <2>1, <2>2 DEF EdgeTaken, gone
        <4>3. HasEdge(taken, m, k) => EdgeAt(taken, m, k) = EdgeAt(g, m, k)
          BY <2>1, <4>2 DEF EdgeTaken
        <4> QED
          BY <1>9, <1>13, <4>1, <4>2, <4>3
      <3>3. IndexExact(taken)
        BY <2>1, <3>2 DEF IndexExact, EdgeTaken
      <3>4. PayloadsDiffer(taken)
        BY <1>1, <2>1, PayloadsStay DEF EdgeTaken
      <3> QED
        BY <1>9, <1>11, <2>1, <3>1, <3>3, <3>4 DEF Whole
    <2>3. CASE moves
      <3>1. gone = LastIndex(c) /\ gone # e /\ gone \in DOMAIN c
        BY <1>5, <2>3
      <3>2. HasEdge(taken, n, e) /\ EdgeAt(taken, n, e) = EdgeAt(g, n, gone) /\ HasEdge(g, n, gone)
        BY <2>1, <3>1 DEF EdgeTaken, gone
      <3>3. to1 = EdgeAt(g, n, gone).to /\ to1 \in DOMAIN g
        BY <1>1, <3>2 DEF EdgesLead
      <3>4. Recorded(g, to1, n, gone)
        BY <1>1, <1>13, <3>2, <3>3 DEF IndexExact
      <3> HIDE DEF to1
      <3>5. Recorded(taken, to1, n, gone)
        BY <1>9, <1>13, <3>1, <3>3, <3>4
      <3>6. h = follow
        BY <1>4, <2>3, <3>1, <3>5 DEF Recorded
      <3>7. old = <<n, gone>> /\ DOMAIN taken = DOMAIN g
        BY <1>7, <1>9, <3>1 DEF SameEdges
      <3> DEFINE mid == RecordRemove(taken, to1, old)
      <3>8. /\ Shaped(mid) /\ SameEdges(taken, mid)
            /\ \A u \in DOMAIN g : \A m, k :
                 Recorded(mid, u, m, k) <=> Recorded(taken, u, m, k) /\ ~(u = to1 /\ m = n /\ k = gone)
        BY <1>3, <1>5, <1>9, <1>13, <3>3, <3>7, RecordRemoveDrops
      <3>9. DOMAIN mid = DOMAIN g
        BY <3>7, <3>8 DEF SameEdges
      <3>10. h = RecordInsert(mid, to1, <<n, e>>)
        BY <3>6 DEF follow
      <3> HIDE DEF mid
      <3>11. /\ Shaped(h) /\ SameEdges(mid, h)
             /\ \A u \in DOMAIN g : \A m, k :
                  Recorded(h, u, m, k) <=> Recorded(mid, u, m, k) \/ (u = to1 /\ m = n /\ k = e)
        <4> DEFINE y == RecordInsert(mid, to1, <<n, e>>)
        <4>1. to1 \in DOMAIN mid /\ n \in Int /\ e \in Int /\ Shaped(mid)
          BY <1>3, <1>5, <3>3, <3>8, <3>9
        <4>2. /\ Shaped(y) /\ SameEdges(mid, y)
              /\ Maintained => \A u \in DOMAIN mid : \A m, k :
                   Recorded(y, u, m, k) <=> Recorded(mid, u, m, k) \/ (u = to1 /\ m = n /\ k = e)
          BY <4>1, RecordInsertAdds
        <4> QED
          BY <1>13, <3>9, <3>10, <4>2
      <3>12. SameEdges(out, h)
        BY <1>9, <3>8, <3>11 DEF SameEdges
      <3>13. EdgeTaken(g, h, n, e)
        BY <1>10, <3>12
      <3>14. ASSUME NEW t \in DOMAIN g, NEW m, NEW k
             PROVE  Recorded(h, t, m, k) <=> HasEdge(h, m, k) /\ EdgeAt(h, m, k).to = t
        <4>1. Recorded(h, t, m, k) <=>
                \/ Recorded(g, t, m, k) /\ ~(t = to0 /\ m = n /\ k = e)
                                        /\ ~(t = to1 /\ m = n /\ k = gone)
                \/ t = to1 /\ m = n /\ k = e
          BY <1>9, <1>13, <3>8, <3>11
        <4>2. Recorded(g, t, m, k) <=> HasEdge(g, m, k) /\ EdgeAt(g, m, k).to = t
          BY <1>1, <1>13 DEF IndexExact
        <4>3. HasEdge(h, m, k) <=> HasEdge(g, m, k) /\ ~(m = n /\ k = gone)
          BY <3>13 DEF EdgeTaken, gone
        <4>4. HasEdge(h, n, e) /\ EdgeAt(h, n, e).to = to1
          BY <3>1, <3>3, <3>13 DEF EdgeTaken, gone
        <4>5. CASE m = n /\ k = e
          BY <4>1, <4>2, <4>4, <4>5
        <4>6. CASE m = n /\ k = gone
          BY <3>1, <3>3, <4>1, <4>2, <4>3, <4>6
        <4>7. CASE ~(m = n /\ k = e) /\ ~(m = n /\ k = gone)
          <5>1. HasEdge(h, m, k) => EdgeAt(h, m, k) = EdgeAt(g, m, k)
            BY <3>13, <4>7 DEF EdgeTaken
          <5> QED
            BY <4>1, <4>2, <4>3, <4>7, <5>1
        <4> QED
          BY <4>5, <4>6, <4>7
      <3>15. IndexExact(h)
        BY <3>13, <3>14 DEF IndexExact, EdgeTaken
      <3>16. PayloadsDiffer(h)
        BY <1>1, <3>13, PayloadsStay DEF EdgeTaken
      <3> QED
        BY <1>11, <3>11, <3>13, <3>15, <3>16 DEF Whole
    <2> QED
      BY <2>2, <2>3
  <1> QED
    BY <1>12, <1>13, Families

-----------------------------------------------------------------------------
(***************************************************************************)
(* Edge indices are pairs.                                                 *)
(***************************************************************************)
LEMMA EdgeIxsSeen ==
  ASSUME NEW g
  PROVE  /\ \A n, e : <<n, e>> \in EdgeIxs(g) <=> HasEdge(g, n, e)
         /\ \A n, e : Edge(g, <<n, e>>) = EdgeAt(g, n, e)
         /\ \A ix \in EdgeIxs(g) : /\ ix = <<ix[1], ix[2]>>
                                   /\ HasEdge(g, ix[1], ix[2])
                                   /\ Edge(g, ix) = EdgeAt(g, ix[1], ix[2])
  <1>1. \A n, e : <<n, e>> \in EdgeIxs(g) <=> HasEdge(g, n, e)
    BY DEF EdgeIxs, HasEdge
  <1>2. \A n, e : Edge(g, <<n, e>>) = EdgeAt(g, n, e)
    BY DEF Edge, EdgeAt
  <1>3. \A ix \in EdgeIxs(g) : ix = <<ix[1], ix[2]>>
    BY DEF EdgeIxs
  <1> QED
    BY <1>1, <1>2, <1>3

(***************************************************************************)
(* They are finitely many pairs of numbers.                                *)
(***************************************************************************)
LEMMA EdgeIxsFinite ==
  ASSUME NEW g, Shaped(g)
  PROVE  IsFiniteSet(EdgeIxs(g)) /\ EdgeIxs(g) \subseteq Int \X Int
  <1> DEFINE of == [n \in DOMAIN g |-> {n} \X DOMAIN g[n].outgoing]
             R == {{n} \X DOMAIN g[n].outgoing : n \in DOMAIN g}
  <1>1. IsFiniteSet(DOMAIN g)
    BY ShapeElim
  <1>2. IsFiniteSet(R)
    <2>1. of \in Surjection(DOMAIN g, R)
      BY DEF Surjection
    <2> HIDE DEF of, R
    <2> QED
      BY <1>1, <2>1, FS_Surjection
  <1>3. ASSUME NEW n \in DOMAIN g PROVE IsFiniteSet({n} \X DOMAIN g[n].outgoing)
    <2>1. g[n].outgoing \in Colls(DenseEdges, Int, EdgeEntries)
      BY ShapeElim DEF Outgoing
    <2>2. IsFiniteSet(DOMAIN g[n].outgoing)
      BY <2>1, CollElim
    <2>3. IsFiniteSet({n})
      BY FS_Singleton
    <2> QED
      BY <2>2, <2>3, FS_Product
  <1>4. \A T \in R : IsFiniteSet(T)
    BY <1>3
  <1>5. IsFiniteSet(UNION R)
    <2> HIDE DEF R
    <2> QED
      BY <1>2, <1>4, FS_UNION
  <1>6. EdgeIxs(g) = UNION R
    BY Zenon DEF EdgeIxs
  <1>7. ASSUME NEW ix \in EdgeIxs(g) PROVE ix \in Int \X Int
    <2>1. ix = <<ix[1], ix[2]>> /\ HasEdge(g, ix[1], ix[2])
      BY EdgeIxsSeen
    <2>2. ix[1] \in Int /\ ix[2] \in Int
      BY <2>1, ShapeElim
    <2> QED
      BY <2>1, <2>2
  <1> QED
    BY <1>5, <1>6, <1>7

(***************************************************************************)
(* The edges of h are those of g but those at the indices S, possibly at   *)
(* other positions of the same node.                                       *)
(***************************************************************************)
LeftOver(g, h, S) ==
  /\ DOMAIN h = DOMAIN g
  /\ \A m \in DOMAIN g : h[m].val = g[m].val
  /\ \A m, k : HasEdge(h, m, k) =>
       \E j : HasEdge(g, m, j) /\ <<m, j>> \notin S /\ EdgeAt(h, m, k) = EdgeAt(g, m, j)
  /\ \A m, j : HasEdge(g, m, j) /\ <<m, j>> \notin S =>
       \E k : HasEdge(h, m, k) /\ EdgeAt(h, m, k) = EdgeAt(g, m, j)
  /\ DenseEdges \/ \A m, k : HasEdge(h, m, k) => /\ HasEdge(g, m, k)
                                                 /\ EdgeAt(h, m, k) = EdgeAt(g, m, k)

(***************************************************************************)
(* The next removal: f is what is left of g without S, n, e is an index of *)
(* g that still names the same edge.                                       *)
(***************************************************************************)
LEMMA NextEdgeTaken ==
  ASSUME NEW g, Whole(g), NEW f, Whole(f), NEW S, LeftOver(g, f, S),
         NEW n, NEW e, HasEdge(g, n, e), HasEdge(f, n, e), EdgeAt(f, n, e) = EdgeAt(g, n, e),
         NEW h, EdgeTaken(f, h, n, e)
  PROVE  LeftOver(g, h, S \cup {<<n, e>>})
  <1> DEFINE gone == FreedEdge(f, n, e)
             T == S \cup {<<n, e>>}
  <1>0. \A m, k : <<m, k>> \in T <=> <<m, k>> \in S \/ (m = n /\ k = e)
    OBVIOUS
  <1> HIDE DEF T
  <1>1. IdsName(f) /\ IdsName(g)
    BY DEF Whole
  <1>2. DOMAIN h = DOMAIN g /\ \A m \in DOMAIN g : h[m].val = g[m].val
    BY DEF LeftOver, EdgeTaken
  <1>3. /\ HasEdge(f, n, gone)
        /\ \A m, k : HasEdge(h, m, k) <=> HasEdge(f, m, k) /\ ~(m = n /\ k = gone)
        /\ HasEdge(h, n, e) => EdgeAt(h, n, e) = EdgeAt(f, n, gone)
        /\ \A m, k : HasEdge(h, m, k) /\ ~(m = n /\ k = e) => EdgeAt(h, m, k) = EdgeAt(f, m, k)
        /\ DenseEdges \/ gone = e
    BY DEF EdgeTaken
  <1> HIDE DEF gone
  <1>4. ASSUME NEW m, NEW k, HasEdge(h, m, k)
        PROVE  \E j : HasEdge(g, m, j) /\ <<m, j>> \notin T /\ EdgeAt(h, m, k) = EdgeAt(g, m, j)
    <2>1. PICK i : /\ HasEdge(f, m, i) /\ EdgeAt(h, m, k) = EdgeAt(f, m, i)
                   /\ ~(m = n /\ i = e)
      <3>1. CASE m = n /\ k = e
        <4>1. gone # e
          BY <1>3, <1>4, <3>1
        <4>2. HasEdge(f, m, gone) /\ EdgeAt(h, m, k) = EdgeAt(f, m, gone)
          BY <1>3, <1>4, <3>1
        <4> QED
          BY <4>1, <4>2
      <3>2. CASE ~(m = n /\ k = e)
        BY <1>3, <1>4, <3>2
      <3> QED
        BY <3>1, <3>2
    <2>2. PICK j : HasEdge(g, m, j) /\ <<m, j>> \notin S /\ EdgeAt(f, m, i) = EdgeAt(g, m, j)
      BY <2>1 DEF LeftOver
    <2>3. ~(m = n /\ j = e)
      <3>1. SUFFICES ASSUME m = n, j = e PROVE FALSE
        OBVIOUS
      <3>2. EdgeAt(f, m, i).id = EdgeAt(f, n, e).id
        BY <2>2, <3>1
      <3>3. m = n /\ i = e
        BY <1>1, <2>1, <3>2 DEF IdsName
      <3> QED
        BY <2>1, <3>3
    <2> QED
      BY <1>0, <2>1, <2>2, <2>3
  <1>5. ASSUME NEW m, NEW j, HasEdge(g, m, j), <<m, j>> \notin T
        PROVE  \E k : HasEdge(h, m, k) /\ EdgeAt(h, m, k) = EdgeAt(g, m, j)
    <2>1. <<m, j>> \notin S /\ ~(m = n /\ j = e)
      BY <1>0, <1>5
    <2>2. PICK k : HasEdge(f, m, k) /\ EdgeAt(f, m, k) = EdgeAt(g, m, j)
      BY <1>5, <2>1 DEF LeftOver
    <2>3. ~(m = n /\ k = e)
      <3>1. SUFFICES ASSUME m = n, k = e PROVE FALSE
        OBVIOUS
      <3>2. EdgeAt(g, m, j).id = EdgeAt(g, n, e).id
        BY <2>2, <3>1
      <3>3. m = n /\ j = e
        BY <1>1, <1>5, <3>2 DEF IdsName
      <3> QED
        BY <2>1, <3>3
    <2>4. CASE m = n /\ k = gone
      <3>1. HasEdge(h, n, e)
        BY <1>3, <2>3, <2>4
      <3>2. EdgeAt(h, n, e) = EdgeAt(g, m, j)
        BY <1>3, <2>2, <2>4, <3>1
      <3> QED
        BY <2>4, <3>1, <3>2
    <2>5. CASE ~(m = n /\ k = gone)
      <3>1. HasEdge(h, m, k) /\ EdgeAt(h, m, k) = EdgeAt(f, m, k)
        BY <1>3, <2>2, <2>3, <2>5
      <3> QED
        BY <2>2, <3>1
    <2> QED
      BY <2>4, <2>5
  <1>6. DenseEdges \/ \A m, k : HasEdge(h, m, k) => /\ HasEdge(g, m, k)
                                                    /\ EdgeAt(h, m, k) = EdgeAt(g, m, k)
    <2>1. SUFFICES ASSUME ~DenseEdges, NEW m, NEW k, HasEdge(h, m, k)
                   PROVE  HasEdge(g, m, k) /\ EdgeAt(h, m, k) = EdgeAt(g, m, k)
      BY Families
    <2>2. HasEdge(f, m, k) /\ EdgeAt(h, m, k) = EdgeAt(f, m, k)
      BY <1>3, <2>1
    <2> QED
      BY <2>1, <2>2 DEF LeftOver
  <1>7. LeftOver(g, h, T)
    BY <1>2, <1>4, <1>5, <1>6 DEF LeftOver
  <1> QED
    BY <1>7 DEF T

(***************************************************************************)
(* f[k] is what k removals have left of the graph.                         *)
(***************************************************************************)
TakesEdges(f, g, q) == Runs(f, "take edges", <<>>, <<>>, g, q)

(***************************************************************************)
(* The k-th finds at its index what was there at first.                    *)
(***************************************************************************)
EdgesInTurn(f, g, q) ==
  \A k \in 1..Len(q) : /\ HasEdge(f[k - 1], q[k][1], q[k][2])
                       /\ EdgeAt(f[k - 1], q[k][1], q[k][2]) = EdgeAt(g, q[k][1], q[k][2])

(***************************************************************************)
(* A list of edges in the order of a batch.                                *)
(***************************************************************************)
BatchOfEdges(q, S) == Lists(q, S) /\ \A i, j \in 1..Len(q) : i < j => EdgeFirst(q[i], q[j])

(***************************************************************************)
(* The removals take the edges that their indices named at first, although *)
(* they move edges.                                                        *)
(***************************************************************************)
LEMMA EdgesTakenInTurn ==
  ASSUME NEW g, Whole(g), NEW S, S \subseteq EdgeIxs(g), NEW q, BatchOfEdges(q, S),
         NEW f, TakesEdges(f, g, q)
  PROVE  /\ Whole(f[Len(q)]) /\ LeftOver(g, f[Len(q)], S)
         /\ EdgesInTurn(f, g, q)
  <1> DEFINE N == Len(q)
             Past(k) == {q[i] : i \in 1..k}
             Still(x, k) == \A i \in 1..N : i > k =>
                              /\ HasEdge(x, q[i][1], q[i][2])
                              /\ EdgeAt(x, q[i][1], q[i][2]) = EdgeAt(g, q[i][1], q[i][2])
  <1>1. S \subseteq Int \X Int
    BY EdgeIxsFinite DEF Whole
  <1>2. Lists(q, S) /\ \A i, j \in 1..N : i < j => EdgeFirst(q[i], q[j])
    BY DEF BatchOfEdges
  <1>3. /\ N \in Nat /\ DOMAIN q = 1..N
        /\ \A i \in 1..N : q[i] \in S
        /\ \A x \in S : \E i \in 1..N : q[i] = x
    BY <1>2 DEF Lists
  <1>4. f[0] = g /\ \A k \in 1..N : f[k] = TakeEdge(f[k - 1], q[k])
    BY DEF TakesEdges, Runs, Turn
  <1> HIDE DEF N
  <1>5. \A i \in 1..N : /\ q[i] = <<q[i][1], q[i][2]>>
                        /\ HasEdge(g, q[i][1], q[i][2])
                        /\ q[i][1] \in Int /\ q[i][2] \in Int
    <2>1. \A i \in 1..N : q[i] \in EdgeIxs(g) /\ q[i] \in Int \X Int
      BY <1>1, <1>3
    <2> QED
      BY <2>1, EdgeIxsSeen
  <1> DEFINE Good == {k \in 0..N : Whole(f[k]) /\ LeftOver(g, f[k], Past(k)) /\ Still(f[k], k)}
  <1>6. 0 \in Good
    <2>1. Past(0) = {}
      OBVIOUS
    <2>2. LeftOver(g, g, {})
      BY DEF LeftOver
    <2>3. Still(g, 0)
      BY <1>5
    <2>4. 0 \in 0..N
      BY <1>3
    <2> HIDE DEF Past, Still
    <2> QED
      BY <1>4, <2>1, <2>2, <2>3, <2>4
  <1>7. \A k \in 1..N : k - 1 \in Good => k \in Good
    <2>1. SUFFICES ASSUME NEW k \in 1..N, k - 1 \in Good PROVE k \in Good
      OBVIOUS
    <2> DEFINE n == q[k][1]
               e == q[k][2]
               x == f[k - 1]
               y == f[k]
    <2>2. Whole(x) /\ LeftOver(g, x, Past(k - 1)) /\ Still(x, k - 1)
      BY <2>1
    <2>3. k > k - 1 /\ k \in 0..N /\ N \in Nat
      BY <1>3, <2>1
    <2>4. /\ HasEdge(x, n, e) /\ EdgeAt(x, n, e) = EdgeAt(g, n, e) /\ HasEdge(g, n, e)
          /\ q[k] = <<n, e>> /\ n \in Int /\ e \in Int
      BY <1>5, <2>2, <2>3
    <2>5. y = TakeEdge(x, <<n, e>>)
      BY <1>4, <2>4
    <2>6. Past(k) = Past(k - 1) \cup {<<n, e>>}
      <3>1. \A i : i \in 1..k <=> i \in 1..(k - 1) \/ i = k
        BY <2>3
      <3> QED
        BY <2>4, <3>1
    <2>7. \A i \in 1..N : i > k => i > k - 1 /\ EdgeFirst(<<n, e>>, q[i])
      BY <1>2, <2>3, <2>4
    <2> HIDE DEF Past, x, y, n, e
    <2>8. Whole(y) /\ EdgeTaken(x, y, n, e)
      BY <2>2, <2>4, <2>5, TakeEdgeTakes
    <2>9. LeftOver(g, y, Past(k))
      BY <2>2, <2>4, <2>6, <2>8, NextEdgeTaken
    <2>10. ASSUME NEW i \in 1..N, i > k
           PROVE  /\ HasEdge(y, q[i][1], q[i][2])
                  /\ EdgeAt(y, q[i][1], q[i][2]) = EdgeAt(g, q[i][1], q[i][2])
      <3> DEFINE m == q[i][1]
                 j == q[i][2]
      <3>1. HasEdge(x, m, j) /\ EdgeAt(x, m, j) = EdgeAt(g, m, j) /\ m \in Int /\ j \in Int
        BY <1>5, <2>2, <2>7, <2>10
      <3>2. n > m \/ (n = m /\ e > j)
        BY <2>7, <2>10 DEF EdgeFirst
      <3>3. FreedEdge(x, n, e) >= e
        BY <2>8 DEF EdgeTaken
      <3>4. FreedEdge(x, n, e) \in Int
        <4>1. HasEdge(x, n, FreedEdge(x, n, e)) /\ Shaped(x)
          BY <2>2, <2>8 DEF EdgeTaken, Whole
        <4> QED
          BY <4>1, ShapeElim
      <3> HIDE DEF m, j
      <3>5. ~(m = n /\ j = e) /\ ~(m = n /\ j = FreedEdge(x, n, e))
        BY <2>4, <3>1, <3>2, <3>3, <3>4
      <3>6. HasEdge(y, m, j) /\ EdgeAt(y, m, j) = EdgeAt(x, m, j)
        BY <2>8, <3>1, <3>5 DEF EdgeTaken
      <3> QED
        BY <3>1, <3>6 DEF m, j
    <2>11. Still(y, k)
      BY <2>10
    <2> HIDE DEF Still
    <2> QED
      BY <2>3, <2>8, <2>9, <2>11 DEF y
  <1>8. N \in Good
    <2>1. N \in 0..N
      BY <1>3
    <2> HIDE DEF Good
    <2> QED
      BY <1>3, <1>6, <1>7, <2>1, RoundInduction
  <1>9. Past(N) = S
    BY <1>3
  <1>10. ASSUME NEW k \in 0..N PROVE k \in Good
    <2>1. k \in Nat /\ \A i \in 1..k : i \in 1..N
      BY <1>3
    <2>2. \A i \in 1..k : i - 1 \in Good => i \in Good
      <3> HIDE DEF Good
      <3> QED
        BY <1>7, <2>1
    <2>3. k \in 0..k
      BY <2>1
    <2> HIDE DEF Good
    <2> QED
      BY <1>6, <2>1, <2>2, <2>3, RoundInduction
  <1>11. EdgesInTurn(f, g, q)
    <2>1. SUFFICES ASSUME NEW k \in 1..N
                   PROVE  /\ HasEdge(f[k - 1], q[k][1], q[k][2])
                          /\ EdgeAt(f[k - 1], q[k][1], q[k][2]) = EdgeAt(g, q[k][1], q[k][2])
      BY DEF EdgesInTurn, N
    <2>2. k - 1 \in 0..N /\ k > k - 1
      BY <1>3
    <2>3. Still(f[k - 1], k - 1)
      BY <1>10, <2>2
    <2> QED
      BY <2>2, <2>3
  <1> HIDE DEF Past
  <1>12. Whole(f[N]) /\ LeftOver(g, f[N], Past(N))
    BY <1>8
  <1> QED
    BY <1>9, <1>11, <1>12 DEF N

(***************************************************************************)
(* A batch is in that order.                                               *)
(***************************************************************************)
LEMMA DescendingBatch ==
  ASSUME NEW g, Whole(g), NEW S, S \subseteq EdgeIxs(g)
  PROVE  BatchOfEdges(Descending(S), S)
  <1>1. IsFiniteSet(EdgeIxs(g)) /\ EdgeIxs(g) \subseteq Int \X Int
    BY EdgeIxsFinite DEF Whole
  <1>2. IsFiniteSet(S) /\ S \subseteq Int \X Int
    BY <1>1, FS_Subset
  <1> QED
    BY <1>2, DescendingLists DEF BatchOfEdges

(***************************************************************************)
(* take_edges takes the edges that its indices name.                       *)
(***************************************************************************)
LEMMA TakeEdgesTakes ==
  ASSUME NEW g, Whole(g), NEW S, S \subseteq EdgeIxs(g), NEW q, BatchOfEdges(q, S),
         NEW r, r = FoldLeft(TakeEdge, g, q)
  PROVE  Whole(r) /\ LeftOver(g, r, S)
  <1>1. Len(q) \in Nat /\ DOMAIN q = 1..Len(q)
    BY DEF BatchOfEdges, Lists
  <1>2. RunsTo(r, "take edges", <<>>, <<>>, g, q)
    BY <1>1, TakeEdgesRuns
  <1>3. PICK f : Runs(f, "take edges", <<>>, <<>>, g, q) /\ f[Len(q)] = r
    BY <1>2 DEF RunsTo
  <1>4. TakesEdges(f, g, q)
    BY <1>3 DEF TakesEdges
  <1> QED
    BY <1>3, <1>4, EdgesTakenInTurn

(***************************************************************************)
(* So does a batch.                                                        *)
(***************************************************************************)
LEMMA BatchTakes ==
  ASSUME NEW g, Whole(g), NEW S, S \subseteq EdgeIxs(g)
  PROVE  Whole(TakeEdges(g, S)) /\ LeftOver(g, TakeEdges(g, S), S)
  <1> DEFINE q == Descending(S)
  <1>1. BatchOfEdges(q, S) /\ TakeEdges(g, S) = FoldLeft(TakeEdge, g, q)
    BY DescendingBatch DEF TakeEdges
  <1> HIDE DEF q
  <1> QED
    BY <1>1, TakeEdgesTakes

-----------------------------------------------------------------------------
(***************************************************************************)
(* What an edge is after node old has become node new, and where a node of *)
(* now was before.                                                         *)
(***************************************************************************)
Redirected(entry, old, new) == [entry EXCEPT !.to = IF @ = old THEN new ELSE @]

(***************************************************************************)
(* Only the target differs.                                                *)
(***************************************************************************)
LEMMA RedirectedEntry ==
  ASSUME NEW entry \in EdgeEntries, NEW old, NEW new \in Int
  PROVE  /\ Redirected(entry, old, new) \in EdgeEntries
         /\ Redirected(entry, old, new).val = entry.val
         /\ Redirected(entry, old, new).id = entry.id
         /\ entry.to = old => Redirected(entry, old, new).to = new
         /\ entry.to # old => /\ Redirected(entry, old, new).to = entry.to
                              /\ Redirected(entry, old, new) = entry
  <1>1. entry = [val |-> entry.val, to |-> entry.to, id |-> entry.id]
    BY DEF EdgeEntries
  <1>2. CASE entry.to = old
    BY <1>2 DEF Redirected, EdgeEntries
  <1>3. CASE entry.to # old
    <2>1. Redirected(entry, old, new) = entry
      BY <1>1, <1>3 DEF Redirected
    <2> QED
      BY <1>3, <2>1
  <1> QED
    BY <1>2, <1>3

(***************************************************************************)
(* Renumber rewrites the targets of edges and the tails in the sets.       *)
(***************************************************************************)
LEMMA RenumberRenames ==
  ASSUME NEW g, Shaped(g), NEW old \in Int, NEW new \in Int, NEW h, h = Renumber(g, old, new)
  PROVE  /\ Shaped(h)
         /\ DOMAIN h = DOMAIN g
         /\ \A m \in DOMAIN g : h[m].val = g[m].val
         /\ \A m, k : HasEdge(h, m, k) <=> HasEdge(g, m, k)
         /\ \A m, k : HasEdge(g, m, k) => EdgeAt(h, m, k) = Redirected(EdgeAt(g, m, k), old, new)
         /\ \A t \in DOMAIN g : \A m, k :
              Recorded(h, t, m, k) <=> \E i : /\ Recorded(g, t, i, k)
                                              /\ m = IF i = old THEN new ELSE i
  <1> DEFINE Renamed(n) == IF n = old THEN new ELSE n
             out(n) == [e \in DOMAIN g[n].outgoing |-> Redirected(g[n].outgoing[e], old, new)]
             inc(n) == {<<Renamed(ix[1]), ix[2]>> : ix \in g[n].incoming}
  <1>1. h = [n \in DOMAIN g |-> [g[n] EXCEPT !.outgoing = out(n), !.incoming = inc(n)]]
    BY Zenon DEF Renumber, Redirected
  <1>2. \A n \in DOMAIN g : /\ g[n] \in NodeEntries /\ g[n].outgoing \in Outgoing
                            /\ g[n].incoming \subseteq Int \X Int
    BY ShapeElim
  <1>3. ASSUME NEW n \in DOMAIN g PROVE out(n) \in Outgoing /\ DOMAIN out(n) = DOMAIN g[n].outgoing
    <2> DEFINE c == g[n].outgoing
               d == [e \in DOMAIN c |-> Redirected(c[e], old, new)]
    <2>1. c \in Colls(DenseEdges, Int, EdgeEntries) /\ (DenseEdges \/ \A e \in DOMAIN c : c[e].val = e)
      BY <1>2 DEF Outgoing
    <2>2. \A e \in DOMAIN c : c[e] \in EdgeEntries
      BY <2>1, CollElim
    <2>3. d = [e \in DOMAIN c |-> d[e]] /\ DOMAIN d = DOMAIN c
      OBVIOUS
    <2>4. \A e \in DOMAIN c : d[e] = Redirected(c[e], old, new)
      OBVIOUS
    <2> HIDE DEF d, c
    <2>5. \A e \in DOMAIN c : d[e] \in EdgeEntries /\ d[e].val = c[e].val
      BY <2>2, <2>4, RedirectedEntry
    <2>6. d \in Colls(DenseEdges, Int, EdgeEntries)
      BY <2>1, <2>3, <2>5, CollUpdate, Zenon
    <2>7. DenseEdges \/ \A e \in DOMAIN d : d[e].val = e
      BY <2>1, <2>3, <2>5
    <2>8. d \in Outgoing
      BY <2>6, <2>7 DEF Outgoing
    <2> QED
      BY <2>3, <2>8 DEF d, c
  <1>4. ASSUME NEW n \in DOMAIN g PROVE inc(n) \in SUBSET (Int \X Int)
    BY <1>2
  <1> HIDE DEF out, inc, Renamed
  <1>5. /\ h = [n \in DOMAIN g |-> h[n]]
        /\ DOMAIN h = DOMAIN g
        /\ \A n \in DOMAIN g : h[n] = [g[n] EXCEPT !.outgoing = out(n), !.incoming = inc(n)]
    BY <1>1
  <1>6. ASSUME NEW n \in DOMAIN g
        PROVE  /\ h[n] \in NodeEntries /\ h[n].val = g[n].val
               /\ h[n].outgoing = out(n) /\ h[n].incoming = inc(n)
    <2>1. g[n] \in NodeEntries /\ out(n) \in Outgoing /\ inc(n) \in SUBSET (Int \X Int)
      BY <1>2, <1>3, <1>4
    <2>2. h[n] = [g[n] EXCEPT !.outgoing = out(n), !.incoming = inc(n)]
      BY <1>5
    <2> QED
      BY <2>1, <2>2 DEF NodeEntries
  <1>7. Shaped(h)
    <2>1. g \in Colls(DenseNodes, Int, NodeEntries) /\ (DenseNodes \/ \A n \in DOMAIN g : g[n].val = n)
      BY DEF Shaped
    <2>2. h \in Colls(DenseNodes, Int, NodeEntries)
      <3>1. \A n \in DOMAIN g : h[n] \in NodeEntries
        BY <1>6
      <3>2. h = [n \in DOMAIN g |-> h[n]]
        BY <1>5
      <3>3. g \in Colls(DenseNodes, Int, NodeEntries)
        BY <2>1
      <3>4. ASSUME NEW x, x = [n \in DOMAIN g |-> x[n]], \A n \in DOMAIN g : x[n] \in NodeEntries
            PROVE  x \in Colls(DenseNodes, Int, NodeEntries)
        BY <3>3, <3>4, CollUpdate, Zenon
      <3> QED
        BY <3>1, <3>2, <3>4
    <2>3. DenseNodes \/ \A n \in DOMAIN h : h[n].val = n
      BY <1>5, <1>6, <2>1
    <2> QED
      BY <2>2, <2>3 DEF Shaped
  <1>8. \A m, k : HasEdge(h, m, k) <=> HasEdge(g, m, k)
    BY <1>3, <1>5, <1>6 DEF HasEdge
  <1>9. ASSUME NEW m, NEW k, HasEdge(g, m, k)
        PROVE  EdgeAt(h, m, k) = Redirected(EdgeAt(g, m, k), old, new)
    <2>1. m \in DOMAIN g /\ k \in DOMAIN g[m].outgoing
      BY <1>9 DEF HasEdge
    <2>2. out(m)[k] = Redirected(g[m].outgoing[k], old, new)
      BY <2>1 DEF out
    <2> QED
      BY <1>6, <2>1, <2>2 DEF EdgeAt
  <1>10. ASSUME NEW t \in DOMAIN g, NEW m, NEW k
         PROVE  Recorded(h, t, m, k) <=> \E i : Recorded(g, t, i, k) /\ m = Renamed(i)
    <2>1. h[t].incoming = inc(t) /\ g[t].incoming \subseteq Int \X Int
      BY <1>2, <1>6
    <2>2. ASSUME Recorded(h, t, m, k) PROVE \E i : Recorded(g, t, i, k) /\ m = Renamed(i)
      <3>1. <<m, k>> \in inc(t)
        BY <2>1, <2>2 DEF Recorded
      <3>2. PICK ix \in g[t].incoming : <<m, k>> = <<Renamed(ix[1]), ix[2]>>
        BY <3>1 DEF inc
      <3>3. ix = <<ix[1], ix[2]>> /\ m = Renamed(ix[1]) /\ k = ix[2]
        BY <2>1, <3>2
      <3>4. Recorded(g, t, ix[1], k)
        BY <3>2, <3>3 DEF Recorded
      <3> QED
        BY <3>3, <3>4
    <2>3. ASSUME NEW i, Recorded(g, t, i, k), m = Renamed(i) PROVE Recorded(h, t, m, k)
      <3>1. <<i, k>> \in g[t].incoming /\ <<i, k>>[1] = i /\ <<i, k>>[2] = k
        BY <2>3 DEF Recorded
      <3>2. <<m, k>> \in inc(t)
        BY <2>3, <3>1 DEF inc
      <3> QED
        BY <2>1, <3>2 DEF Recorded
    <2> QED
      BY <2>2, <2>3
  <1> QED
    BY <1>5, <1>6, <1>7, <1>8, <1>9, <1>10 DEF Renamed

(***************************************************************************)
(* The index that the removal of a node frees in the end, and what the     *)
(* node at m was before and will be after it.                              *)
(***************************************************************************)
FreedNode(g, n) == Gone(DenseNodes, g, n)

Before(g, n, m) == IF m = n THEN FreedNode(g, n) ELSE m

(***************************************************************************)
(* No edge leads to or from n.                                             *)
(***************************************************************************)
Alone(g, n) == \A m, k : HasEdge(g, m, k) => m # n /\ EdgeAt(g, m, k).to # n

(***************************************************************************)
(* h is g without the node n, which had no edges; the last node may have   *)
(* moved to its index.                                                     *)
(***************************************************************************)
LoneNodeTaken(g, h, n) ==
  /\ FreedNode(g, n) \in DOMAIN g
  /\ FreedNode(g, n) >= n
  /\ DenseNodes \/ FreedNode(g, n) = n
  /\ \A m : m \in DOMAIN h <=> m \in DOMAIN g /\ m # FreedNode(g, n)
  /\ \A m \in DOMAIN h : h[m].val = g[Before(g, n, m)].val
  /\ \A m, k : HasEdge(h, m, k) <=> m \in DOMAIN h /\ HasEdge(g, Before(g, n, m), k)
  /\ \A m, k : HasEdge(h, m, k) =>
       EdgeAt(h, m, k) = Redirected(EdgeAt(g, Before(g, n, m), k), FreedNode(g, n), n)

(***************************************************************************)
(* The removal of such a node, in either case.                             *)
(***************************************************************************)
TakeLone(g, n) ==
  IF Relocates(DenseNodes, g, n) THEN Renumber(Take(DenseNodes, g, n), LastIndex(g), n)
                                 ELSE Take(DenseNodes, g, n)

(***************************************************************************)
(* What a removal does to the collection of nodes.                         *)
(***************************************************************************)
LEMMA NodeEntryTaken ==
  ASSUME NEW g, Shaped(g), NEW n \in DOMAIN g, NEW d, d = Take(DenseNodes, g, n),
         NEW gone, gone = FreedNode(g, n)
  PROVE  /\ Shaped(d)
         /\ gone \in DOMAIN g /\ gone \in Int /\ n \in Int /\ gone >= n
         /\ DenseNodes \/ gone = n
         /\ Relocates(DenseNodes, g, n) => gone = LastIndex(g) /\ gone # n
         /\ ~Relocates(DenseNodes, g, n) => gone = n
         /\ \A m : m \in DOMAIN d <=> m \in DOMAIN g /\ m # gone
         /\ \A m \in DOMAIN d : d[m] = g[Before(g, n, m)]
  <1>1. g \in Colls(DenseNodes, Int, NodeEntries) /\ (DenseNodes \/ \A m \in DOMAIN g : g[m].val = m)
    BY DEF Shaped
  <1>2. gone = Gone(DenseNodes, g, n)
    BY DEF FreedNode
  <1>3. /\ d \in Colls(DenseNodes, Int, NodeEntries)
        /\ gone \in DOMAIN g
        /\ \A m : m \in DOMAIN d <=> m \in DOMAIN g /\ m # gone
        /\ \A m \in DOMAIN d : d[m] = IF m = n THEN g[gone] ELSE g[m]
        /\ Relocates(DenseNodes, g, n) => gone = LastIndex(g) /\ gone # n
        /\ ~Relocates(DenseNodes, g, n) => gone = n
    BY <1>1, <1>2, CollTake, Families
  <1>4. /\ \A m \in DOMAIN g : m \in Int
        /\ Size(g) \in Nat
        /\ DenseNodes => DOMAIN g = 0..(Size(g) - 1)
    BY <1>1, CollElim
  <1>5. DenseNodes \/ gone = n
    BY <1>3 DEF Relocates
  <1>6. gone >= n
    <2>1. CASE Relocates(DenseNodes, g, n)
      <3>1. DOMAIN g = 0..(Size(g) - 1)
        BY <1>4, <2>1, Zenon DEF Relocates
      <3>2. gone = Size(g) - 1
        BY <1>3, <2>1 DEF LastIndex
      <3>3. n \in 0..(Size(g) - 1)
        BY <3>1
      <3> QED
        BY <1>4, <3>2, <3>3
    <2>2. CASE ~Relocates(DenseNodes, g, n)
      BY <1>3, <1>4, <2>2
    <2> QED
      BY <2>1, <2>2
  <1>7. \A m \in DOMAIN d : d[m] = g[Before(g, n, m)]
    BY <1>3 DEF Before
  <1>8. DenseNodes \/ \A m \in DOMAIN d : d[m].val = m
    <2>1. SUFFICES ASSUME ~DenseNodes, NEW m \in DOMAIN d PROVE d[m].val = m
      BY Families
    <2>2. gone = n /\ m \in DOMAIN g /\ m # n
      BY <1>3, <1>5, <2>1
    <2>3. d[m] = g[m]
      BY <1>3, <2>2
    <2> QED
      BY <1>1, <2>1, <2>2, <2>3
  <1>9. Shaped(d)
    BY <1>3, <1>8 DEF Shaped
  <1>10. gone \in Int /\ n \in Int
    BY <1>3, <1>4
  <1> QED
    BY <1>3, <1>5, <1>6, <1>7, <1>9, <1>10

(***************************************************************************)
(* The node is taken, edges follow the node that moves, and so does the    *)
(* reverse index.                                                          *)
(***************************************************************************)
LEMMA TakeLoneTakes ==
  ASSUME NEW g, Whole(g), NEW n \in DOMAIN g, Alone(g, n), NEW h, h = TakeLone(g, n)
  PROVE  Whole(h) /\ LoneNodeTaken(g, h, n)
  <1> DEFINE gone == FreedNode(g, n)
             d == Take(DenseNodes, g, n)
             B(m) == Before(g, n, m)
             moves == Relocates(DenseNodes, g, n)
  <1>1. Shaped(g) /\ EdgesLead(g) /\ IdsName(g) /\ IndexExact(g) /\ PayloadsDiffer(g)
    BY DEF Whole
  <1>2. /\ Shaped(d)
        /\ gone \in DOMAIN g /\ gone \in Int /\ n \in Int /\ gone >= n
        /\ DenseNodes \/ gone = n
        /\ moves => gone = LastIndex(g) /\ gone # n
        /\ ~moves => gone = n
        /\ \A m : m \in DOMAIN d <=> m \in DOMAIN g /\ m # gone
        /\ \A m \in DOMAIN d : d[m] = g[B(m)]
    BY <1>1, NodeEntryTaken
  <1>3. h = IF moves THEN Renumber(d, gone, n) ELSE d
    BY <1>2 DEF TakeLone
  <1> HIDE DEF d, moves
  <1>4. \A m : B(m) = IF m = n THEN gone ELSE m
    BY DEF Before
  <1>5. \A m \in DOMAIN d : (B(m) \in DOMAIN g /\ B(m) # n) \/ (B(m) = n /\ gone = n)
    BY <1>2, <1>4
  <1> HIDE DEF B, gone
  <1>6. /\ \A m, k : HasEdge(d, m, k) <=> m \in DOMAIN d /\ HasEdge(g, B(m), k)
        /\ \A m, k : HasEdge(d, m, k) => EdgeAt(d, m, k) = EdgeAt(g, B(m), k)
        /\ \A t \in DOMAIN d : \A m, k : Recorded(d, t, m, k) <=> Recorded(g, B(t), m, k)
    <2>1. \A m \in DOMAIN d : d[m] = g[B(m)] /\ B(m) \in DOMAIN g
      BY <1>2, <1>4
    <2> QED
      BY <2>1 DEF HasEdge, EdgeAt, Recorded
  <1>7. /\ Shaped(h)
        /\ DOMAIN h = DOMAIN d
        /\ \A m \in DOMAIN d : h[m].val = d[m].val
        /\ \A m, k : HasEdge(h, m, k) <=> HasEdge(d, m, k)
        /\ \A m, k : HasEdge(d, m, k) => EdgeAt(h, m, k) = Redirected(EdgeAt(d, m, k), gone, n)
        /\ \A t \in DOMAIN d : \A m, k :
             Recorded(h, t, m, k) <=> \E i : /\ Recorded(d, t, i, k)
                                             /\ m = IF i = gone THEN n ELSE i
    <2>1. CASE moves
      BY <1>2, <1>3, <2>1, RenumberRenames
    <2>2. CASE ~moves
      <3>1. h = d /\ gone = n
        BY <1>2, <1>3, <2>2
      <3>2. ASSUME NEW m, NEW k, HasEdge(d, m, k)
            PROVE  EdgeAt(d, m, k) = Redirected(EdgeAt(d, m, k), gone, n)
        <4>1. EdgeAt(d, m, k) \in EdgeEntries /\ n \in Int
          BY <1>2, <3>2, ShapeElim
        <4>2. EdgeAt(d, m, k).to # gone
          BY <1>6, <3>1, <3>2 DEF Alone
        <4> QED
          BY <4>1, <4>2, RedirectedEntry
      <3>3. \A i : (IF i = gone THEN n ELSE i) = i
        BY <3>1
      <3> QED
        BY <1>2, <3>1, <3>2, <3>3
    <2> QED
      BY <2>1, <2>2
  <1>8. \A m, k : HasEdge(h, m, k) <=> m \in DOMAIN h /\ HasEdge(g, B(m), k)
    BY <1>6, <1>7
  <1>9. \A m, k : HasEdge(h, m, k) => EdgeAt(h, m, k) = Redirected(EdgeAt(g, B(m), k), gone, n)
    BY <1>6, <1>7
  <1>10. LoneNodeTaken(g, h, n)
    <2>1. \A m : m \in DOMAIN h <=> m \in DOMAIN g /\ m # gone
      BY <1>2, <1>7
    <2>2. \A m \in DOMAIN h : h[m].val = g[B(m)].val
      BY <1>2, <1>7
    <2> QED
      BY <1>2, <1>8, <1>9, <2>1, <2>2 DEF LoneNodeTaken, B, gone
  <1>11. ASSUME NEW m, NEW k, HasEdge(g, m, k)
         PROVE  /\ m # n /\ EdgeAt(g, m, k).to # n /\ EdgeAt(g, m, k).to \in DOMAIN g
                /\ EdgeAt(g, m, k) \in EdgeEntries
    BY <1>1, <1>11, ShapeElim DEF Alone, EdgesLead
  <1>12. ASSUME NEW m, NEW k, HasEdge(h, m, k)
         PROVE  /\ HasEdge(g, B(m), k)
                /\ EdgeAt(h, m, k).id = EdgeAt(g, B(m), k).id
                /\ EdgeAt(h, m, k).to = IF EdgeAt(g, B(m), k).to = gone
                                          THEN n ELSE EdgeAt(g, B(m), k).to
    <2>1. HasEdge(g, B(m), k)
      BY <1>8, <1>12
    <2>2. EdgeAt(g, B(m), k) \in EdgeEntries
      BY <1>11, <2>1
    <2> QED
      BY <1>2, <1>9, <1>12, <2>1, <2>2, RedirectedEntry
  <1>13. EdgesLead(h)
    <2>1. SUFFICES ASSUME NEW m, NEW k, HasEdge(h, m, k) PROVE EdgeAt(h, m, k).to \in DOMAIN h
      BY DEF EdgesLead
    <2>2. HasEdge(g, B(m), k)
      BY <1>12, <2>1
    <2>3. EdgeAt(g, B(m), k).to # n /\ EdgeAt(g, B(m), k).to \in DOMAIN g
      BY <1>11, <2>2
    <2>4. CASE EdgeAt(g, B(m), k).to = gone
      <3>1. n # gone /\ n \in DOMAIN d
        BY <1>2, <2>3, <2>4
      <3> QED
        BY <1>7, <1>12, <2>1, <2>4, <3>1
    <2>5. CASE EdgeAt(g, B(m), k).to # gone
      BY <1>2, <1>7, <1>12, <2>1, <2>3, <2>5
    <2> QED
      BY <2>4, <2>5
  <1>14. \A m, i \in DOMAIN h : B(m) = B(i) => m = i
    BY <1>2, <1>4, <1>7
  <1>15. IdsName(h)
    <2>1. SUFFICES ASSUME NEW m, NEW k, NEW m2, NEW k2, HasEdge(h, m, k), HasEdge(h, m2, k2),
                          EdgeAt(h, m, k).id = EdgeAt(h, m2, k2).id
                   PROVE  m = m2 /\ k = k2
      BY Zenon DEF IdsName
    <2>2. HasEdge(g, B(m), k) /\ HasEdge(g, B(m2), k2) /\ m \in DOMAIN h /\ m2 \in DOMAIN h
      BY <1>8, <2>1
    <2>3. EdgeAt(g, B(m), k).id = EdgeAt(g, B(m2), k2).id
      BY <1>12, <2>1
    <2>4. B(m) = B(m2) /\ k = k2
      BY <1>1, <2>2, <2>3, Zenon DEF IdsName
    <2> QED
      BY <1>14, <2>2, <2>4
  <1>16. IndexExact(h)
    <2>1. SUFFICES ASSUME Maintained, NEW t \in DOMAIN h, NEW m, NEW k
                   PROVE  Recorded(h, t, m, k) <=> HasEdge(h, m, k) /\ EdgeAt(h, m, k).to = t
      BY DEF IndexExact
    <2>2. t \in DOMAIN d /\ B(t) \in DOMAIN g
      BY <1>2, <1>4, <1>7, <2>1
    <2>3. Recorded(h, t, m, k) <=> \E i : Recorded(g, B(t), i, k) /\ m = IF i = gone THEN n ELSE i
      BY <1>6, <1>7, <2>2
    <2>4. \A i : Recorded(g, B(t), i, k) <=> HasEdge(g, i, k) /\ EdgeAt(g, i, k).to = B(t)
      BY <1>1, <2>1, <2>2 DEF IndexExact
    <2>5. ASSUME Recorded(h, t, m, k) PROVE HasEdge(h, m, k) /\ EdgeAt(h, m, k).to = t
      <3>1. PICK i : HasEdge(g, i, k) /\ EdgeAt(g, i, k).to = B(t) /\ m = IF i = gone THEN n ELSE i
        BY <2>3, <2>4, <2>5
      <3>2. i # n /\ B(t) # n /\ i \in DOMAIN g
        BY <1>11, <3>1 DEF HasEdge
      <3>3. m \in DOMAIN h /\ B(m) = i
        BY <1>2, <1>4, <1>7, <3>1, <3>2
      <3>4. HasEdge(h, m, k)
        BY <1>8, <3>1, <3>3
      <3>5. EdgeAt(h, m, k).to = IF B(t) = gone THEN n ELSE B(t)
        BY <1>12, <3>1, <3>3, <3>4
      <3>6. (IF B(t) = gone THEN n ELSE B(t)) = t
        BY <1>2, <1>4, <2>2, <3>2
      <3> QED
        BY <3>4, <3>5, <3>6
    <2>6. ASSUME HasEdge(h, m, k), EdgeAt(h, m, k).to = t PROVE Recorded(h, t, m, k)
      <3>1. HasEdge(g, B(m), k) /\ m \in DOMAIN h
        BY <1>8, <2>6
      <3>2. t = IF EdgeAt(g, B(m), k).to = gone THEN n ELSE EdgeAt(g, B(m), k).to
        BY <1>12, <2>6
      <3>3. EdgeAt(g, B(m), k).to # n /\ B(m) # n
        BY <1>11, <3>1
      <3>4. EdgeAt(g, B(m), k).to = B(t)
        BY <1>4, <3>2, <3>3
      <3>5. m = IF B(m) = gone THEN n ELSE B(m)
        BY <1>2, <1>4, <1>7, <3>1, <3>3
      <3> QED
        BY <2>3, <2>4, <3>1, <3>4, <3>5
    <2> QED
      BY <2>5, <2>6
  <1>17. PayloadsDiffer(h)
    <2>1. \A m \in DOMAIN h : h[m].val = g[B(m)].val /\ B(m) \in DOMAIN g
      BY <1>2, <1>4, <1>7
    <2> QED
      BY <1>1, <1>14, <2>1 DEF PayloadsDiffer
  <1> QED
    BY <1>7, <1>10, <1>13, <1>15, <1>16, <1>17 DEF Whole

-----------------------------------------------------------------------------
(***************************************************************************)
(* The edges from and to n.                                                *)
(***************************************************************************)
IncidentTo(g, n) == {ix \in EdgeIxs(g) : ix[1] = n \/ Edge(g, ix).to = n}

(***************************************************************************)
(* h is g without the node n and its edges.                                *)
(***************************************************************************)
NodeTaken(g, h, n) ==
  \E a : /\ Whole(a) /\ LeftOver(g, a, IncidentTo(g, n)) /\ Alone(a, n)
         /\ LoneNodeTaken(a, h, n)

(***************************************************************************)
(* What collect_incoming finds, recorded or by a scan.                     *)
(***************************************************************************)
LEMMA IncomingCollected ==
  ASSUME NEW g, Whole(g), NEW n \in DOMAIN g
  PROVE  LET S == {ix \in CollectIncoming(g, n) : ix[1] # n} IN
         /\ S \subseteq EdgeIxs(g)
         /\ \A m, k : <<m, k>> \in S <=> HasEdge(g, m, k) /\ EdgeAt(g, m, k).to = n /\ m # n
  <1>1. Shaped(g) /\ IndexExact(g)
    BY DEF Whole
  <1>2. \A m, k : <<m, k>> \in CollectIncoming(g, n) <=> HasEdge(g, m, k) /\ EdgeAt(g, m, k).to = n
    <2>1. CASE Maintained
      <3>1. \A m, k : Recorded(g, n, m, k) <=> HasEdge(g, m, k) /\ EdgeAt(g, m, k).to = n
        BY <1>1, <2>1 DEF IndexExact
      <3>2. CollectIncoming(g, n) = g[n].incoming
        BY <2>1 DEF CollectIncoming
      <3> QED
        BY <3>1, <3>2 DEF Recorded
    <2>2. CASE ~Maintained
      <3>1. CollectIncoming(g, n) = {ix \in EdgeIxs(g) : Edge(g, ix).to = n}
        BY <2>2 DEF CollectIncoming
      <3> QED
        BY <3>1, EdgeIxsSeen
    <2> QED
      BY <2>1, <2>2, Families
  <1>3. \A ix \in CollectIncoming(g, n) : ix = <<ix[1], ix[2]>>
    <2>1. g[n].incoming \subseteq Int \X Int
      BY <1>1, ShapeElim
    <2>2. CASE Maintained
      BY <2>1, <2>2 DEF CollectIncoming
    <2>3. CASE ~Maintained
      BY <2>3, EdgeIxsSeen DEF CollectIncoming
    <2> QED
      BY <2>2, <2>3, Families
  <1>4. \A ix \in CollectIncoming(g, n) : ix \in EdgeIxs(g)
    BY <1>2, <1>3, EdgeIxsSeen
  <1> QED
    BY <1>2, <1>4

(***************************************************************************)
(* take_node_unchecked takes the node and its edges and keeps the          *)
(* invariant.                                                              *)
(***************************************************************************)
LEMMA TakeNodeTakes ==
  ASSUME NEW g, Whole(g), NEW n \in DOMAIN g, NEW h, h = TakeNode(g, n)
  PROVE  Whole(h) /\ NodeTaken(g, h, n)
  <1> DEFINE S1 == {ix \in CollectIncoming(g, n) : ix[1] # n}
             b == TakeEdges(g, S1)
             S2 == {n} \X DOMAIN b[n].outgoing
             a == TakeEdges(b, S2)
  <1>1. h = TakeLone(a, n)
    BY Zenon DEF TakeNode, TakeLone
  <1>2. /\ S1 \subseteq EdgeIxs(g)
        /\ \A m, k : <<m, k>> \in S1 <=> HasEdge(g, m, k) /\ EdgeAt(g, m, k).to = n /\ m # n
    BY IncomingCollected
  <1> HIDE DEF S1
  <1>3. Whole(b) /\ LeftOver(g, b, S1)
    BY <1>2, BatchTakes
  <1> HIDE DEF b
  <1>4. n \in DOMAIN b
    BY <1>3 DEF LeftOver
  <1>5. \A m, k : <<m, k>> \in S2 <=> HasEdge(b, m, k) /\ m = n
    BY <1>4 DEF HasEdge
  <1>6. S2 \subseteq EdgeIxs(b)
    BY <1>5, EdgeIxsSeen
  <1> HIDE DEF S2
  <1>7. Whole(a) /\ LeftOver(b, a, S2)
    BY <1>3, <1>6, BatchTakes
  <1> HIDE DEF a
  <1>8. \A m, k : <<m, k>> \in IncidentTo(g, n) <=> HasEdge(g, m, k) /\ (m = n \/ EdgeAt(g, m, k).to = n)
    BY EdgeIxsSeen DEF IncidentTo
  <1>9. ASSUME NEW m, NEW k, HasEdge(a, m, k)
        PROVE  \E j : /\ HasEdge(g, m, j) /\ EdgeAt(a, m, k) = EdgeAt(g, m, j)
                      /\ m # n /\ EdgeAt(g, m, j).to # n
    <2>1. PICK i : HasEdge(b, m, i) /\ <<m, i>> \notin S2 /\ EdgeAt(a, m, k) = EdgeAt(b, m, i)
      BY <1>7, <1>9 DEF LeftOver
    <2>2. PICK j : HasEdge(g, m, j) /\ <<m, j>> \notin S1 /\ EdgeAt(b, m, i) = EdgeAt(g, m, j)
      <3>1. \A x, y : HasEdge(b, x, y) =>
              \E j : HasEdge(g, x, j) /\ <<x, j>> \notin S1 /\ EdgeAt(b, x, y) = EdgeAt(g, x, j)
        BY <1>3 DEF LeftOver
      <3> QED
        BY <2>1, <3>1
    <2>3. m # n
      BY <1>5, <2>1
    <2>4. EdgeAt(g, m, j).to # n
      BY <1>2, <2>2, <2>3
    <2> QED
      BY <2>1, <2>2, <2>3, <2>4
  <1>10. Alone(a, n)
    BY <1>9 DEF Alone
  <1>11. LeftOver(g, a, IncidentTo(g, n))
    <2> DEFINE I == IncidentTo(g, n)
    <2> HIDE DEF I
    <2>0. \A m, k : <<m, k>> \in I <=> HasEdge(g, m, k) /\ (m = n \/ EdgeAt(g, m, k).to = n)
      BY <1>8 DEF I
    <2>1. DOMAIN a = DOMAIN g /\ \A m \in DOMAIN g : a[m].val = g[m].val
      BY <1>3, <1>7 DEF LeftOver
    <2>2. ASSUME NEW m, NEW k, HasEdge(a, m, k)
          PROVE  \E j : HasEdge(g, m, j) /\ <<m, j>> \notin I /\ EdgeAt(a, m, k) = EdgeAt(g, m, j)
      BY <1>9, <2>0, <2>2
    <2>3. ASSUME NEW m, NEW j, HasEdge(g, m, j), <<m, j>> \notin I
          PROVE  \E k : HasEdge(a, m, k) /\ EdgeAt(a, m, k) = EdgeAt(g, m, j)
      <3>1. <<m, j>> \notin S1 /\ m # n
        BY <1>2, <2>0, <2>3
      <3>2. PICK i : HasEdge(b, m, i) /\ EdgeAt(b, m, i) = EdgeAt(g, m, j)
        BY <1>3, <2>3, <3>1 DEF LeftOver
      <3>3. <<m, i>> \notin S2
        BY <1>5, <3>1
      <3>4. PICK k : HasEdge(a, m, k) /\ EdgeAt(a, m, k) = EdgeAt(b, m, i)
        BY <1>7, <3>2, <3>3 DEF LeftOver
      <3> QED
        BY <3>2, <3>4
    <2>4. DenseEdges \/ \A m, k : HasEdge(a, m, k) => /\ HasEdge(g, m, k)
                                                      /\ EdgeAt(a, m, k) = EdgeAt(g, m, k)
      <3>1. SUFFICES ASSUME ~DenseEdges, NEW m, NEW k, HasEdge(a, m, k)
                     PROVE  HasEdge(g, m, k) /\ EdgeAt(a, m, k) = EdgeAt(g, m, k)
        BY Families
      <3>2. HasEdge(b, m, k) /\ EdgeAt(a, m, k) = EdgeAt(b, m, k)
        BY <1>7, <3>1 DEF LeftOver
      <3> QED
        BY <1>3, <3>1, <3>2 DEF LeftOver
    <2>5. LeftOver(g, a, I)
      BY <2>1, <2>2, <2>3, <2>4 DEF LeftOver
    <2> QED
      BY <2>5 DEF I
  <1>12. n \in DOMAIN a
    BY <1>4, <1>7 DEF LeftOver
  <1>13. Whole(h) /\ LoneNodeTaken(a, h, n)
    BY <1>1, <1>7, <1>10, <1>12, TakeLoneTakes
  <1> QED
    BY <1>7, <1>10, <1>11, <1>13 DEF NodeTaken

(***************************************************************************)
(* Every edge of h is the same in g.                                       *)
(***************************************************************************)
OnlyRemoved(g, h) ==
  \A m, k : HasEdge(h, m, k) => HasEdge(g, m, k) /\ EdgeAt(h, m, k) = EdgeAt(g, m, k)

(***************************************************************************)
(* Of the nodes one index goes, and with maps nothing moves.               *)
(***************************************************************************)
LEMMA NodeTakenSeen ==
  ASSUME NEW g, Whole(g), NEW n \in DOMAIN g, NEW h, NodeTaken(g, h, n)
  PROVE  /\ FreedNode(g, n) \in DOMAIN g /\ FreedNode(g, n) >= n
         /\ DenseNodes \/ FreedNode(g, n) = n
         /\ \A m : m \in DOMAIN h <=> m \in DOMAIN g /\ m # FreedNode(g, n)
         /\ \A m \in DOMAIN h : h[m].val = g[Before(g, n, m)].val
         /\ DenseNodes \/ DenseEdges \/ OnlyRemoved(g, h)
  <1>1. PICK a : /\ Whole(a) /\ LeftOver(g, a, IncidentTo(g, n)) /\ Alone(a, n)
                 /\ LoneNodeTaken(a, h, n)
    BY DEF NodeTaken
  <1>2. DOMAIN a = DOMAIN g /\ \A m \in DOMAIN g : a[m].val = g[m].val
    BY <1>1 DEF LeftOver
  <1>3. FreedNode(a, n) = FreedNode(g, n)
    BY <1>2, Zenon DEF FreedNode, Gone, Relocates, LastIndex, Size
  <1>4. \A m : Before(a, n, m) = Before(g, n, m)
    BY <1>3 DEF Before
  <1>5. \A m \in DOMAIN h : Before(g, n, m) \in DOMAIN g
    BY <1>1, <1>2, <1>3 DEF LoneNodeTaken, Before
  <1>6. \A m \in DOMAIN h : h[m].val = g[Before(g, n, m)].val
    BY <1>1, <1>2, <1>4, <1>5 DEF LoneNodeTaken
  <1>7. DenseNodes \/ DenseEdges \/ OnlyRemoved(g, h)
    <2>1. SUFFICES ASSUME ~DenseNodes, ~DenseEdges, NEW m, NEW k, HasEdge(h, m, k)
                   PROVE  HasEdge(g, m, k) /\ EdgeAt(h, m, k) = EdgeAt(g, m, k)
      BY Families DEF OnlyRemoved
    <2>2. FreedNode(a, n) = n /\ Before(a, n, m) = m
      BY <1>1, <2>1 DEF LoneNodeTaken, Before
    <2>3. HasEdge(a, m, k) /\ EdgeAt(h, m, k) = Redirected(EdgeAt(a, m, k), n, n)
      BY <1>1, <2>1, <2>2 DEF LoneNodeTaken
    <2>4. EdgeAt(a, m, k) \in EdgeEntries /\ EdgeAt(a, m, k).to # n
      BY <1>1, <2>3, ShapeElim DEF Whole, Alone
    <2>5. Shaped(g) /\ n \in Int
      BY ShapeElim DEF Whole
    <2>6. EdgeAt(h, m, k) = EdgeAt(a, m, k)
      BY <2>3, <2>4, <2>5, RedirectedEntry
    <2> QED
      BY <1>1, <2>1, <2>3, <2>6 DEF LeftOver
  <1>8. /\ FreedNode(g, n) \in DOMAIN g /\ FreedNode(g, n) >= n
        /\ DenseNodes \/ FreedNode(g, n) = n
        /\ \A m : m \in DOMAIN h <=> m \in DOMAIN g /\ m # FreedNode(g, n)
    BY <1>1, <1>2, <1>3 DEF LoneNodeTaken
  <1> QED
    BY <1>6, <1>7, <1>8

-----------------------------------------------------------------------------
(***************************************************************************)
(* h is g without the nodes of payloads V, their edges, and the edges of   *)
(* ids I.                                                                  *)
(***************************************************************************)
Loses(g, h, V, I) ==
  /\ \A x : Holds(h, x) <=> Holds(g, x) /\ x \notin V
  /\ \A id, a, b : Joins(h, id, a, b)
                     <=> Joins(g, id, a, b) /\ id \notin I /\ a \notin V /\ b \notin V

ValsAt(g, S) == {g[n].val : n \in S}

IdsAt(g, S) == {Edge(g, ix).id : ix \in S}

(***************************************************************************)
(* One loss after the other.                                               *)
(***************************************************************************)
LEMMA LosesMore ==
  ASSUME NEW f, NEW g, NEW h, NEW V, NEW I, NEW W, NEW J, Loses(f, g, V, I), Loses(g, h, W, J),
         NEW X, X = V \cup W, NEW K, K = I \cup J
  PROVE  Loses(f, h, X, K)
  BY DEF Loses

(***************************************************************************)
(* The ids of edges taken.                                                 *)
(***************************************************************************)
LEMMA IdTaken ==
  ASSUME NEW g, Whole(g), NEW S, S \subseteq EdgeIxs(g), NEW n, NEW e, HasEdge(g, n, e)
  PROVE  EdgeAt(g, n, e).id \in IdsAt(g, S) <=> <<n, e>> \in S
  <1>1. CASE <<n, e>> \in S
    <2>1. Edge(g, <<n, e>>) = EdgeAt(g, n, e)
      BY EdgeIxsSeen
    <2> QED
      BY <1>1, <2>1 DEF IdsAt
  <1>2. ASSUME NEW ix \in S, EdgeAt(g, n, e).id = Edge(g, ix).id PROVE <<n, e>> \in S
    <2>1. ix = <<ix[1], ix[2]>> /\ HasEdge(g, ix[1], ix[2]) /\ Edge(g, ix) = EdgeAt(g, ix[1], ix[2])
      BY EdgeIxsSeen
    <2>2. n = ix[1] /\ e = ix[2]
      BY <1>2, <2>1 DEF Whole, IdsName
    <2> QED
      BY <2>1, <2>2
  <1> QED
    BY <1>1, <1>2 DEF IdsAt

(***************************************************************************)
(* Edges are taken.                                                        *)
(***************************************************************************)
LEMMA EdgesLost ==
  ASSUME NEW g, Whole(g), NEW S, S \subseteq EdgeIxs(g), NEW h, LeftOver(g, h, S)
  PROVE  Loses(g, h, {}, IdsAt(g, S))
  <1> DEFINE I == IdsAt(g, S)
  <1>1. DOMAIN h = DOMAIN g /\ \A m \in DOMAIN g : h[m].val = g[m].val
    BY DEF LeftOver
  <1>2. \A n, e : HasEdge(g, n, e) => (EdgeAt(g, n, e).id \in I <=> <<n, e>> \in S)
    BY IdTaken
  <1>3. \A n, e : HasEdge(g, n, e) => n \in DOMAIN g /\ EdgeAt(g, n, e).to \in DOMAIN g
    BY DEF Whole, EdgesLead, HasEdge
  <1> HIDE DEF I
  <1>4. \A x : Holds(h, x) <=> Holds(g, x)
    BY <1>1 DEF Holds
  <1>5. ASSUME NEW id, NEW a, NEW b, Joins(h, id, a, b) PROVE Joins(g, id, a, b) /\ id \notin I
    <2>1. PICK m, k : /\ HasEdge(h, m, k) /\ EdgeAt(h, m, k).id = id
                      /\ h[m].val = a /\ h[EdgeAt(h, m, k).to].val = b
      BY <1>5 DEF Joins
    <2>2. PICK j : HasEdge(g, m, j) /\ <<m, j>> \notin S /\ EdgeAt(h, m, k) = EdgeAt(g, m, j)
      BY <2>1 DEF LeftOver
    <2> QED
      BY <1>1, <1>2, <1>3, <2>1, <2>2 DEF Joins
  <1>6. ASSUME NEW id, NEW a, NEW b, Joins(g, id, a, b), id \notin I PROVE Joins(h, id, a, b)
    <2>1. PICK m, j : /\ HasEdge(g, m, j) /\ EdgeAt(g, m, j).id = id
                      /\ g[m].val = a /\ g[EdgeAt(g, m, j).to].val = b
      BY <1>6 DEF Joins
    <2>2. PICK k : HasEdge(h, m, k) /\ EdgeAt(h, m, k) = EdgeAt(g, m, j)
      BY <1>2, <1>6, <2>1 DEF LeftOver
    <2> QED
      BY <1>1, <1>3, <2>1, <2>2 DEF Joins
  <1>7. \A x : x \notin {}
    OBVIOUS
  <1> QED
    BY <1>4, <1>5, <1>6, <1>7 DEF Loses, I

(***************************************************************************)
(* A node is taken that has no edges, and the last one may be renumbered.  *)
(***************************************************************************)
LEMMA LoneNodeLost ==
  ASSUME NEW g, Whole(g), NEW n \in DOMAIN g, Alone(g, n), NEW h, LoneNodeTaken(g, h, n)
  PROVE  Loses(g, h, {g[n].val}, {})
  <1> DEFINE gone == FreedNode(g, n)
             v == g[n].val
             B(m) == Before(g, n, m)
             To(m, k) == EdgeAt(g, m, k).to
  <1>1. PayloadsDiffer(g) /\ EdgesLead(g) /\ Shaped(g)
    BY DEF Whole
  <1>2. /\ gone \in DOMAIN g
        /\ \A m : m \in DOMAIN h <=> m \in DOMAIN g /\ m # gone
        /\ \A m \in DOMAIN h : h[m].val = g[B(m)].val
        /\ \A m, k : HasEdge(h, m, k) <=> m \in DOMAIN h /\ HasEdge(g, B(m), k)
        /\ \A m, k : HasEdge(h, m, k) => EdgeAt(h, m, k) = Redirected(EdgeAt(g, B(m), k), gone, n)
    BY DEF LoneNodeTaken
  <1>3. /\ \A m : m # n => B(m) = m
        /\ B(n) = gone
    BY DEF Before
  <1> HIDE DEF gone, B, v
  <1>4. \A m, k : HasEdge(g, m, k) => m \in DOMAIN g /\ m # n /\ To(m, k) \in DOMAIN g /\ To(m, k) # n
    BY <1>1 DEF Alone, EdgesLead, HasEdge
  <1>5. \A m \in DOMAIN g : g[m].val = v <=> m = n
    BY <1>1 DEF PayloadsDiffer, v
  <1>6. \A m \in DOMAIN h : B(m) \in DOMAIN g /\ B(m) # n
    BY <1>2, <1>3
  <1>7. \A m \in DOMAIN g : m # n => \E i \in DOMAIN h : B(i) = m
    BY <1>2, <1>3
  <1>8. \A x : Holds(h, x) <=> Holds(g, x) /\ x # v
    <2>1. ASSUME NEW x, Holds(h, x) PROVE Holds(g, x) /\ x # v
      BY <1>2, <1>5, <1>6, <2>1 DEF Holds
    <2>2. ASSUME NEW x, Holds(g, x), x # v PROVE Holds(h, x)
      <3>1. PICK m \in DOMAIN g : g[m].val = x
        BY <2>2 DEF Holds
      <3>2. m # n
        BY <1>5, <2>2, <3>1
      <3>3. PICK i \in DOMAIN h : B(i) = m
        BY <1>7, <3>2
      <3> QED
        BY <1>2, <3>1, <3>3 DEF Holds
    <2> QED
      BY <2>1, <2>2
  <1>9. ASSUME NEW i, NEW k, HasEdge(h, i, k)
        PROVE  /\ HasEdge(g, B(i), k) /\ EdgeAt(h, i, k).id = EdgeAt(g, B(i), k).id
               /\ h[i].val = g[B(i)].val /\ h[EdgeAt(h, i, k).to].val = g[To(B(i), k)].val
    <2> DEFINE entry == EdgeAt(g, B(i), k)
               t == EdgeAt(h, i, k).to
    <2>1. /\ HasEdge(g, B(i), k) /\ h[i].val = g[B(i)].val
          /\ EdgeAt(h, i, k) = Redirected(entry, gone, n)
      BY <1>2, <1>9
    <2>2. entry \in EdgeEntries /\ n \in Int
      BY <1>1, <2>1, ShapeElim
    <2>3. EdgeAt(h, i, k).id = entry.id
      BY <2>1, <2>2, RedirectedEntry
    <2>4. t = IF entry.to = gone THEN n ELSE entry.to
      <3> HIDE DEF entry
      <3> QED
        BY <2>1, <2>2 DEF Redirected, EdgeEntries
    <2>5. entry.to \in DOMAIN g /\ entry.to # n
      BY <1>4, <2>1
    <2> HIDE DEF t, entry
    <2>6. t \in DOMAIN h /\ B(t) = entry.to
      BY <1>2, <1>3, <2>4, <2>5
    <2>7. h[t].val = g[entry.to].val
      BY <1>2, <2>6
    <2> QED
      BY <2>1, <2>3, <2>7 DEF t, entry
  <1>10. ASSUME NEW id, NEW a, NEW b, Joins(h, id, a, b)
         PROVE  Joins(g, id, a, b) /\ a # v /\ b # v
    <2>1. PICK i, k : /\ HasEdge(h, i, k) /\ EdgeAt(h, i, k).id = id
                      /\ h[i].val = a /\ h[EdgeAt(h, i, k).to].val = b
      BY <1>10 DEF Joins
    <2>2. /\ HasEdge(g, B(i), k) /\ EdgeAt(g, B(i), k).id = id
          /\ g[B(i)].val = a /\ g[To(B(i), k)].val = b
      BY <1>9, <2>1
    <2> QED
      BY <1>4, <1>5, <2>2 DEF Joins
  <1>11. ASSUME NEW id, NEW a, NEW b, Joins(g, id, a, b)
         PROVE  Joins(h, id, a, b)
    <2>1. PICK m, k : /\ HasEdge(g, m, k) /\ EdgeAt(g, m, k).id = id
                      /\ g[m].val = a /\ g[To(m, k)].val = b
      BY <1>11 DEF Joins
    <2>2. PICK i \in DOMAIN h : B(i) = m
      BY <1>4, <1>7, <2>1
    <2>3. HasEdge(h, i, k)
      BY <1>2, <2>1, <2>2
    <2> QED
      BY <1>9, <2>1, <2>2, <2>3 DEF Joins
  <1>12. \A x : (x \in {v} <=> x = v) /\ x \notin {}
    OBVIOUS
  <1>13. Loses(g, h, {v}, {})
    BY <1>8, <1>10, <1>11, <1>12 DEF Loses
  <1> QED
    BY <1>13 DEF v

(***************************************************************************)
(* A node is taken with its edges.                                         *)
(***************************************************************************)
LEMMA NodeLost ==
  ASSUME NEW g, Whole(g), NEW n \in DOMAIN g, NEW h, NodeTaken(g, h, n)
  PROVE  Loses(g, h, {g[n].val}, {})
  <1> DEFINE S == IncidentTo(g, n)
             v == g[n].val
             I == IdsAt(g, S)
  <1>1. PICK f : /\ Whole(f) /\ LeftOver(g, f, S) /\ Alone(f, n)
                 /\ LoneNodeTaken(f, h, n)
    BY DEF NodeTaken
  <1>2. n \in DOMAIN f /\ f[n].val = v
    BY <1>1 DEF LeftOver
  <1>3. S \subseteq EdgeIxs(g)
    BY DEF IncidentTo
  <1>4. Loses(g, f, {}, I)
    BY <1>1, <1>3, EdgesLost
  <1>5. Loses(f, h, {v}, {})
    BY <1>1, <1>2, LoneNodeLost
  <1>6. ASSUME NEW id, NEW a, NEW b, Joins(g, id, a, b) PROVE id \in I <=> a = v \/ b = v
    <2>1. PICK m, k : /\ HasEdge(g, m, k) /\ EdgeAt(g, m, k).id = id
                      /\ g[m].val = a /\ g[EdgeAt(g, m, k).to].val = b
      BY <1>6 DEF Joins
    <2>2. m \in DOMAIN g /\ EdgeAt(g, m, k).to \in DOMAIN g
      BY <2>1 DEF Whole, EdgesLead, HasEdge
    <2>3. (a = v <=> m = n) /\ (b = v <=> EdgeAt(g, m, k).to = n)
      BY <2>1, <2>2 DEF Whole, PayloadsDiffer
    <2>4. <<m, k>> \in S <=> m = n \/ EdgeAt(g, m, k).to = n
      BY <2>1, EdgeIxsSeen DEF IncidentTo
    <2>5. EdgeAt(g, m, k).id \in I <=> <<m, k>> \in S
      BY <1>3, <2>1, IdTaken
    <2> QED
      BY <2>1, <2>3, <2>4, <2>5
  <1> HIDE DEF S, I, v
  <1>7. Loses(g, h, {v}, I)
    <2>1. {v} = {} \cup {v} /\ I = I \cup {}
      OBVIOUS
    <2> QED
      BY <1>4, <1>5, <2>1, LosesMore, Zenon
  <1>8. Loses(g, h, {v}, {})
    BY <1>6, <1>7 DEF Loses
  <1> QED
    BY <1>8 DEF v

(***************************************************************************)
(* f[k] is what k removals of nodes have left of the graph; a list of      *)
(* nodes in the order of a batch; and the k-th removal finds at its index  *)
(* what was there at first.                                                *)
(***************************************************************************)
TakesNodes(f, g, q) == Runs(f, "take nodes", <<>>, <<>>, g, q)

BatchOfNodes(q, S) == Lists(q, S) /\ \A i, j \in 1..Len(q) : i < j => NodeFirst(q[i], q[j])

NodesInTurn(f, g, q) ==
  \A k \in 1..Len(q) : q[k] \in DOMAIN f[k - 1] /\ f[k - 1][q[k]].val = g[q[k]].val

(***************************************************************************)
(* take_nodes, after the edges of a batch: the removals take the nodes     *)
(* that their indices named at first, although they move nodes.            *)
(***************************************************************************)
LEMMA NodesTakenInTurn ==
  ASSUME NEW g, Whole(g), NEW S, S \subseteq DOMAIN g, NEW q, BatchOfNodes(q, S),
         NEW f, TakesNodes(f, g, q)
  PROVE  /\ Whole(f[Len(q)])
         /\ DenseNodes \/ DenseEdges \/ OnlyRemoved(g, f[Len(q)])
         /\ NodesInTurn(f, g, q)
         /\ Loses(g, f[Len(q)], ValsAt(g, S), {})
  <1> DEFINE N == Len(q)
             Past(k) == {q[i] : i \in 1..k}
             Still(x, k) == \A i \in 1..N : i > k => q[i] \in DOMAIN x /\ x[q[i]].val = g[q[i]].val
             Stable(x) == DenseNodes \/ DenseEdges \/ OnlyRemoved(g, x)
             Lost(x, k) == Loses(g, x, ValsAt(g, Past(k)), {})
  <1>1. S \subseteq Int
    BY ShapeElim DEF Whole
  <1>2. Lists(q, S) /\ \A i, j \in 1..N : i < j => NodeFirst(q[i], q[j])
    BY DEF BatchOfNodes
  <1>3. /\ N \in Nat /\ DOMAIN q = 1..N
        /\ \A i \in 1..N : q[i] \in S
        /\ \A x \in S : \E i \in 1..N : q[i] = x
    BY <1>2 DEF Lists
  <1>4. f[0] = g /\ \A k \in 1..N : f[k] = TakeNode(f[k - 1], q[k])
    BY DEF TakesNodes, Runs, Turn
  <1> HIDE DEF N
  <1> DEFINE Good == {k \in 0..N : Whole(f[k]) /\ Still(f[k], k) /\ Stable(f[k]) /\ Lost(f[k], k)}
  <1>5. 0 \in Good
    <2>1. 0 \in 0..N /\ Still(g, 0) /\ Stable(g)
      BY <1>3 DEF OnlyRemoved
    <2>2. Past(0) = {}
      OBVIOUS
    <2>3. ValsAt(g, {}) = {}
      BY DEF ValsAt
    <2>4. Lost(g, 0)
      BY <2>2, <2>3 DEF Loses
    <2> HIDE DEF Still, Stable, Lost
    <2> QED
      BY <1>4, <2>1, <2>4
  <1>6. \A k \in 1..N : k - 1 \in Good => k \in Good
    <2>1. SUFFICES ASSUME NEW k \in 1..N, k - 1 \in Good PROVE k \in Good
      OBVIOUS
    <2> DEFINE n == q[k]
               x == f[k - 1]
               y == f[k]
    <2>2. Whole(x) /\ Still(x, k - 1) /\ Stable(x) /\ Lost(x, k - 1)
      BY <2>1
    <2>3. k > k - 1 /\ k \in 0..N
      BY <1>3, <2>1
    <2>4. n \in DOMAIN x /\ x[n].val = g[n].val /\ n \in Int
      BY <1>1, <1>3, <2>2, <2>3
    <2>5. y = TakeNode(x, n)
      BY <1>4
    <2>6. \A i \in 1..N : i > k => i > k - 1 /\ n > q[i] /\ q[i] \in Int
      BY <1>1, <1>2, <1>3, <2>3 DEF NodeFirst
    <2>7. Past(k) = Past(k - 1) \cup {n}
      <3>1. \A i : i \in 1..k <=> i \in 1..(k - 1) \/ i = k
        BY <2>3
      <3> QED
        BY <3>1
    <2> HIDE DEF x, y, n, Stable, Past
    <2>8. Whole(y) /\ NodeTaken(x, y, n)
      BY <2>2, <2>4, <2>5, TakeNodeTakes
    <2>9. /\ FreedNode(x, n) \in DOMAIN x /\ FreedNode(x, n) >= n
          /\ \A m : m \in DOMAIN y <=> m \in DOMAIN x /\ m # FreedNode(x, n)
          /\ \A m \in DOMAIN y : y[m].val = x[Before(x, n, m)].val
          /\ DenseNodes \/ DenseEdges \/ OnlyRemoved(x, y)
      BY <2>2, <2>4, <2>8, NodeTakenSeen
    <2>10. FreedNode(x, n) \in Int
      BY <2>2, <2>9, ShapeElim DEF Whole
    <2>11. Still(y, k)
      <3>1. SUFFICES ASSUME NEW i \in 1..N, i > k
                     PROVE  q[i] \in DOMAIN y /\ y[q[i]].val = g[q[i]].val
        OBVIOUS
      <3>2. q[i] \in DOMAIN x /\ x[q[i]].val = g[q[i]].val /\ n > q[i] /\ q[i] \in Int
        BY <2>2, <2>6, <3>1
      <3>3. q[i] # FreedNode(x, n) /\ q[i] # n
        BY <2>4, <2>9, <2>10, <3>2
      <3> QED
        BY <2>9, <3>2, <3>3 DEF Before
    <2>12. Stable(y)
      BY <2>2, <2>9 DEF Stable, OnlyRemoved
    <2>13. Loses(x, y, {g[n].val}, {})
      BY <2>2, <2>4, <2>8, NodeLost
    <2>14. Lost(y, k)
      <3>1. ValsAt(g, Past(k)) = ValsAt(g, Past(k - 1)) \cup {g[n].val}
        BY <2>7 DEF ValsAt
      <3>2. {} = {} \cup {}
        OBVIOUS
      <3>3. Loses(g, x, ValsAt(g, Past(k - 1)), {})
        BY <2>2
      <3>4. Loses(g, y, ValsAt(g, Past(k)), {})
        BY <2>13, <3>1, <3>2, <3>3, LosesMore, Zenon
      <3> QED
        BY <3>4
    <2> HIDE DEF Still, Lost
    <2> QED
      BY <2>3, <2>8, <2>11, <2>12, <2>14 DEF y
  <1>7. ASSUME NEW k \in 0..N PROVE k \in Good
    <2>1. k \in Nat /\ \A i \in 1..k : i \in 1..N
      BY <1>3
    <2> HIDE DEF Good
    <2>2. \A i \in 1..k : i - 1 \in Good => i \in Good
      BY <1>6, <2>1
    <2>3. k \in 0..k
      BY <2>1
    <2> QED
      BY <1>5, <2>1, <2>2, <2>3, RoundInduction
  <1>8. NodesInTurn(f, g, q)
    <2>1. SUFFICES ASSUME NEW k \in 1..N
                   PROVE  q[k] \in DOMAIN f[k - 1] /\ f[k - 1][q[k]].val = g[q[k]].val
      BY DEF NodesInTurn, N
    <2>2. k - 1 \in 0..N /\ k > k - 1
      BY <1>3
    <2>3. Still(f[k - 1], k - 1)
      BY <1>7, <2>2
    <2> QED
      BY <2>2, <2>3
  <1>9. Past(N) = S
    BY <1>3
  <1>10. N \in Good
    <2>1. N \in 0..N
      BY <1>3
    <2> HIDE DEF Good
    <2> QED
      BY <1>7, <2>1
  <1> HIDE DEF Past
  <1>11. Whole(f[N]) /\ Stable(f[N]) /\ Loses(g, f[N], ValsAt(g, S), {})
    BY <1>9, <1>10
  <1> QED
    BY <1>8, <1>11 DEF N

(***************************************************************************)
(* A batch is in that order.                                               *)
(***************************************************************************)
LEMMA DescendingNodesBatch ==
  ASSUME NEW g, Whole(g), NEW S, S \subseteq DOMAIN g
  PROVE  BatchOfNodes(DescendingNodes(S), S)
  <1>1. IsFiniteSet(DOMAIN g) /\ DOMAIN g \subseteq Int
    BY ShapeElim DEF Whole
  <1>2. IsFiniteSet(S) /\ S \subseteq Int
    BY <1>1, FS_Subset
  <1> QED
    BY <1>2, DescendingNodesLists DEF BatchOfNodes

(***************************************************************************)
(* take_nodes takes the nodes that its indices name.                       *)
(***************************************************************************)
LEMMA TakeNodesTakes ==
  ASSUME NEW g, Whole(g), NEW S, S \subseteq DOMAIN g, NEW q, BatchOfNodes(q, S),
         NEW r, r = FoldLeft(TakeNode, g, q)
  PROVE  /\ Whole(r) /\ (DenseNodes \/ DenseEdges \/ OnlyRemoved(g, r))
         /\ Loses(g, r, ValsAt(g, S), {})
  <1>1. Len(q) \in Nat /\ DOMAIN q = 1..Len(q)
    BY DEF BatchOfNodes, Lists
  <1>2. RunsTo(r, "take nodes", <<>>, <<>>, g, q)
    BY <1>1, TakeNodesRuns
  <1>3. PICK f : Runs(f, "take nodes", <<>>, <<>>, g, q) /\ f[Len(q)] = r
    BY <1>2 DEF RunsTo
  <1>4. TakesNodes(f, g, q)
    BY <1>3 DEF TakesNodes
  <1> QED
    BY <1>3, <1>4, NodesTakenInTurn

(***************************************************************************)
(* What is left of g has fewer edges, with maps where they were.           *)
(***************************************************************************)
LEMMA LeftOverOnlyRemoved ==
  ASSUME NEW g, NEW h, NEW S, LeftOver(g, h, S)
  PROVE  DenseEdges \/ OnlyRemoved(g, h)
  BY DEF LeftOver, OnlyRemoved

(***************************************************************************)
(* Edges in the order of a batch, then nodes: the invariant is kept, with  *)
(* maps nothing moves, and the graph loses what was asked for.             *)
(***************************************************************************)
TakenBoth(g, h, ns, ixs) ==
  /\ Whole(h) /\ (DenseNodes \/ DenseEdges \/ OnlyRemoved(g, h))
  /\ Loses(g, h, ValsAt(g, ns), IdsAt(g, ixs))

(***************************************************************************)
(* A batch of edges, then one of nodes.                                    *)
(***************************************************************************)
LEMMA BothTaken ==
  ASSUME NEW g, Whole(g), NEW ns, ns \subseteq DOMAIN g, NEW ixs, ixs \subseteq EdgeIxs(g),
         NEW e, BatchOfEdges(e, ixs), NEW n, BatchOfNodes(n, ns),
         NEW a, a = FoldLeft(TakeEdge, g, e), NEW h, h = FoldLeft(TakeNode, a, n)
  PROVE  TakenBoth(g, h, ns, ixs)
  <1>1. Whole(a) /\ LeftOver(g, a, ixs)
    BY TakeEdgesTakes
  <1>2. ns \subseteq DOMAIN a /\ \A m \in ns : a[m].val = g[m].val
    BY <1>1 DEF LeftOver
  <1>3. /\ Whole(h) /\ (DenseNodes \/ DenseEdges \/ OnlyRemoved(a, h))
        /\ Loses(a, h, ValsAt(a, ns), {})
    BY <1>1, <1>2, TakeNodesTakes
  <1>4. DenseEdges \/ OnlyRemoved(g, a)
    BY <1>1, LeftOverOnlyRemoved
  <1>5. DenseNodes \/ DenseEdges \/ OnlyRemoved(g, h)
    BY <1>3, <1>4 DEF OnlyRemoved
  <1>6. ValsAt(a, ns) = ValsAt(g, ns)
    BY <1>2 DEF ValsAt
  <1>7. Loses(g, a, {}, IdsAt(g, ixs))
    BY <1>1, EdgesLost
  <1>8. Loses(g, h, ValsAt(g, ns), IdsAt(g, ixs))
    <2>1. /\ ValsAt(g, ns) = {} \cup ValsAt(g, ns)
          /\ IdsAt(g, ixs) = IdsAt(g, ixs) \cup {}
      OBVIOUS
    <2> QED
      BY <1>3, <1>6, <1>7, <2>1, LosesMore, Zenon
  <1> QED
    BY <1>3, <1>5, <1>8 DEF TakenBoth

(***************************************************************************)
(* take_nodes_edges_unchecked.                                             *)
(***************************************************************************)
LEMMA TakeNodesEdgesTakes ==
  ASSUME NEW g, Whole(g), NEW ns, ns \subseteq DOMAIN g, NEW ixs, ixs \subseteq EdgeIxs(g)
  PROVE  TakenBoth(g, TakeNodesEdges(g, ns, ixs), ns, ixs)
  <1> DEFINE e == Descending(ixs)
             n == DescendingNodes(ns)
  <1>1. BatchOfEdges(e, ixs) /\ BatchOfNodes(n, ns)
    BY DescendingBatch, DescendingNodesBatch
  <1>2. TakeNodesEdges(g, ns, ixs) = FoldLeft(TakeNode, FoldLeft(TakeEdge, g, e), n)
    BY DEF TakeNodesEdges, TakeEdges
  <1> HIDE DEF e, n
  <1> QED
    BY <1>1, <1>2, BothTaken

(***************************************************************************)
(* A set as a list.                                                        *)
(***************************************************************************)
LEMMA SetToSeqLists ==
  ASSUME NEW S, IsFiniteSet(S)
  PROVE  Lists(SetToSeq(S), S) /\ Len(SetToSeq(S)) = Cardinality(S)
  <1> DEFINE c == Cardinality(S)
             q == SetToSeq(S)
  <1>1. c \in Nat /\ \E f : f \in Bijection(1..c, S)
    BY FS_CardinalityType DEF ExistsBijection
  <1>2. PICK f : f \in Bijection(1..c, S)
    BY <1>1
  <1>3. f \in [1..c -> S] /\ IsInjective(f)
    BY <1>2 DEF Bijection, Injection
  <1>4. q \in [1..c -> S] /\ IsInjective(q)
    BY <1>3 DEF SetToSeq
  <1> HIDE DEF q
  <1>5. DOMAIN q = 1..c /\ Len(q) = c
    BY <1>1, <1>4
  <1>6. \A i, j \in 1..c : i # j => q[i] # q[j]
    BY <1>4, <1>5 DEF IsInjective
  <1>7. \A x \in S : \E i \in 1..c : q[i] = x
    BY <1>4, <1>6, ListingComplete
  <1> HIDE DEF c
  <1>8. Lists(q, S)
    BY <1>1, <1>4, <1>5, <1>6, <1>7 DEF Lists
  <1> QED
    BY <1>5, <1>8 DEF q, c

(***************************************************************************)
(* A list of at most one element is in any order.                          *)
(***************************************************************************)
LEMMA SingleInOrder ==
  ASSUME NEW q, NEW S, Lists(q, S), Len(q) <= 1
  PROVE  BatchOfEdges(q, S) /\ BatchOfNodes(q, S)
  <1> DEFINE c == Len(q)
  <1>1. c \in Nat /\ c <= 1
    BY DEF Lists
  <1> HIDE DEF c
  <1>2. \A i, j \in 1..c : ~(i < j)
    BY <1>1
  <1> QED
    BY <1>2 DEF BatchOfEdges, BatchOfNodes, c

(***************************************************************************)
(* The short way of a scope.                                               *)
(***************************************************************************)
LEMMA TakeSingleTakes ==
  ASSUME NEW g, Whole(g), NEW ns, ns \subseteq DOMAIN g, NEW ixs, ixs \subseteq EdgeIxs(g),
         Cardinality(ns) <= 1, Cardinality(ixs) <= 1
  PROVE  TakenBoth(g, TakeSingle(g, ns, ixs), ns, ixs)
  <1> DEFINE e == SetToSeq(ixs)
             n == SetToSeq(ns)
  <1>1. IsFiniteSet(ns) /\ IsFiniteSet(ixs)
    <2>1. Shaped(g)
      BY DEF Whole
    <2>2. IsFiniteSet(DOMAIN g) /\ IsFiniteSet(EdgeIxs(g))
      BY <2>1, ShapeElim, EdgeIxsFinite
    <2> QED
      BY <2>2, FS_Subset
  <1>2. /\ Lists(e, ixs) /\ Len(e) <= 1
        /\ Lists(n, ns) /\ Len(n) <= 1
    BY <1>1, SetToSeqLists
  <1>3. TakeSingle(g, ns, ixs) = FoldLeft(TakeNode, FoldLeft(TakeEdge, g, e), n)
    BY DEF TakeSingle
  <1> HIDE DEF e, n
  <1>4. BatchOfEdges(e, ixs) /\ BatchOfNodes(n, ns)
    BY <1>2, SingleInOrder
  <1> QED
    BY <1>1, <1>3, <1>4, BothTaken

-----------------------------------------------------------------------------
(***************************************************************************)
(* All of g is in h, unchanged.                                            *)
(***************************************************************************)
Within(g, h) ==
  /\ \A n \in DOMAIN g : n \in DOMAIN h /\ h[n].val = g[n].val
  /\ \A n, e : HasEdge(g, n, e) => HasEdge(h, n, e) /\ EdgeAt(h, n, e) = EdgeAt(g, n, e)

(***************************************************************************)
(* insert_node_unchecked adds a node without edges.                        *)
(***************************************************************************)
LEMMA InsertNodeInserts ==
  ASSUME NEW g, Whole(g), NEW v \in NodeVals, CanInsert(DenseNodes, g, v), ~Holds(g, v),
         NEW i, i = IndexOfNew(DenseNodes, g, v), NEW h, h = InsertNode(g, v)
  PROVE  /\ Whole(h) /\ Within(g, h)
         /\ i \notin DOMAIN g /\ i \in Int
         /\ \A m : m \in DOMAIN h <=> m \in DOMAIN g \/ m = i
         /\ h[i].val = v
         /\ \A m, k : HasEdge(h, m, k) <=> HasEdge(g, m, k)
  <1> DEFINE entry == [val |-> v, outgoing |-> <<>>, incoming |-> {}]
  <1>1. Shaped(g) /\ EdgesLead(g) /\ IdsName(g) /\ IndexExact(g) /\ PayloadsDiffer(g)
    BY DEF Whole
  <1>2. g \in Colls(DenseNodes, Int, NodeEntries) /\ (DenseNodes \/ \A n \in DOMAIN g : g[n].val = n)
    BY <1>1 DEF Shaped
  <1>3. entry \in NodeEntries /\ entry.val = v /\ DOMAIN entry.outgoing = {} /\ entry.incoming = {}
    <2>1. <<>> \in Colls(DenseEdges, Int, EdgeEntries) /\ DOMAIN <<>> = {}
      BY CollEmpty
    <2>2. <<>> \in Outgoing
      BY <2>1 DEF Outgoing
    <2> QED
      BY <2>1, <2>2 DEF NodeEntries
  <1>4. i \in Int
    <2>1. Size(g) \in Nat
      BY <1>2, CollElim
    <2>2. DenseNodes \/ v \in Int
      BY KeysAssumption
    <2> QED
      BY <2>1, <2>2, Families DEF IndexOfNew
  <1>5. h = Insert(DenseNodes, g, entry)
    BY DEF InsertNode
  <1> HIDE DEF entry
  <1>6. /\ h \in Colls(DenseNodes, Int, NodeEntries)
        /\ i \notin DOMAIN g
        /\ \A m : m \in DOMAIN h <=> m \in DOMAIN g \/ m = i
        /\ h[i] = entry
        /\ \A m \in DOMAIN g : h[m] = g[m]
    BY <1>2, <1>3, <1>4, <1>5, CollInsert, Families
  <1>7. Shaped(h)
    <2>1. DenseNodes \/ i = v
      BY Families DEF IndexOfNew
    <2>2. DenseNodes \/ \A n \in DOMAIN h : h[n].val = n
      BY <1>2, <1>3, <1>6, <2>1
    <2> QED
      BY <1>6, <2>2 DEF Shaped
  <1>8. \A m, k : HasEdge(h, m, k) <=> HasEdge(g, m, k)
    BY <1>3, <1>6 DEF HasEdge
  <1>9. \A m, k : HasEdge(g, m, k) => EdgeAt(h, m, k) = EdgeAt(g, m, k) /\ m \in DOMAIN g
    BY <1>6 DEF HasEdge, EdgeAt
  <1>10. Within(g, h)
    BY <1>6, <1>8, <1>9 DEF Within
  <1>11. EdgesLead(h)
    BY <1>1, <1>6, <1>8, <1>9 DEF EdgesLead
  <1>12. IdsName(h)
    BY <1>1, <1>8, <1>9 DEF IdsName
  <1>13. IndexExact(h)
    <2>1. SUFFICES ASSUME Maintained, NEW t \in DOMAIN h, NEW m, NEW k
                   PROVE  Recorded(h, t, m, k) <=> HasEdge(h, m, k) /\ EdgeAt(h, m, k).to = t
      BY DEF IndexExact
    <2>2. CASE t = i
      <3>1. ~Recorded(h, t, m, k)
        BY <1>3, <1>6, <2>2 DEF Recorded
      <3>2. HasEdge(h, m, k) => EdgeAt(h, m, k).to # t
        BY <1>1, <1>6, <1>8, <1>9, <2>2 DEF EdgesLead
      <3> QED
        BY <3>1, <3>2
    <2>3. CASE t # i
      <3>1. t \in DOMAIN g /\ h[t] = g[t]
        BY <1>6, <2>1, <2>3
      <3>2. Recorded(h, t, m, k) <=> Recorded(g, t, m, k)
        BY <3>1 DEF Recorded
      <3>3. Recorded(g, t, m, k) <=> HasEdge(g, m, k) /\ EdgeAt(g, m, k).to = t
        BY <1>1, <2>1, <3>1 DEF IndexExact
      <3> QED
        BY <1>8, <1>9, <3>2, <3>3
    <2> QED
      BY <2>2, <2>3
  <1>14. PayloadsDiffer(h)
    <2>1. \A m \in DOMAIN g : h[m].val = g[m].val /\ g[m].val # v
      BY <1>6 DEF Holds
    <2>2. h[i].val = v
      BY <1>3, <1>6
    <2> QED
      BY <1>1, <1>6, <2>1, <2>2 DEF PayloadsDiffer
  <1> QED
    BY <1>3, <1>4, <1>6, <1>7, <1>8, <1>10, <1>11, <1>12, <1>13, <1>14 DEF Whole

(***************************************************************************)
(* No edge of g has that name.                                             *)
(***************************************************************************)
NewId(g, id) == \A n, e : HasEdge(g, n, e) => EdgeAt(g, n, e).id # id

(***************************************************************************)
(* h has the edges of g, and another from n unless n has one of that key.  *)
(***************************************************************************)
EdgeOffered(g, h, n, entry) ==
  /\ Within(g, h) /\ DOMAIN h = DOMAIN g
  /\ \A m, k : HasEdge(h, m, k) => \/ HasEdge(g, m, k) /\ EdgeAt(h, m, k) = EdgeAt(g, m, k)
                                   \/ m = n /\ EdgeAt(h, m, k) = entry
  /\ \E k : \/ HasEdge(h, n, k) /\ EdgeAt(h, n, k) = entry
            \/ ~DenseEdges /\ HasEdge(g, n, k) /\ EdgeAt(g, n, k).val = entry.val

(***************************************************************************)
(* An edge that is not refused is where its index says.                    *)
(***************************************************************************)
EdgePlaced(g, h, n, entry) ==
  CanInsert(DenseEdges, g[n].outgoing, entry.val) =>
    LET k == IndexOfNew(DenseEdges, g[n].outgoing, entry.val)
    IN HasEdge(h, n, k) /\ EdgeAt(h, n, k) = entry

(***************************************************************************)
(* insert_edge_unchecked adds an edge and records it, or refuses it.       *)
(***************************************************************************)
LEMMA InsertEdgeInserts ==
  ASSUME NEW g, Whole(g), NEW n \in DOMAIN g, NEW entry \in EdgeEntries,
         entry.to \in DOMAIN g, NewId(g, entry.id), NEW h, h = InsertEdge(g, entry, n)
  PROVE  Whole(h) /\ EdgeOffered(g, h, n, entry) /\ EdgePlaced(g, h, n, entry)
  <1> DEFINE c == g[n].outgoing
             e == IndexOfNew(DenseEdges, c, entry.val)
             d == Insert(DenseEdges, c, entry)
             out == [g EXCEPT ![n].outgoing = d]
             to == entry.to
  <1>1. Shaped(g) /\ EdgesLead(g) /\ IdsName(g) /\ IndexExact(g) /\ PayloadsDiffer(g)
    BY DEF Whole
  <1>2. h = IF CanInsert(DenseEdges, c, entry.val) THEN RecordInsert(out, to, <<n, e>>) ELSE g
    BY DEF InsertEdge
  <1>3. n \in Int /\ c \in Outgoing
    BY <1>1, ShapeElim
  <1>4. CASE ~CanInsert(DenseEdges, c, entry.val)
    <2>1. h = g
      BY <1>2, <1>4
    <2>2. /\ ~DenseEdges /\ HasEdge(g, n, entry.val)
          /\ EdgeAt(g, n, entry.val).val = entry.val
      <3>1. ~DenseEdges /\ entry.val \in DOMAIN c
        BY <1>4, Families DEF CanInsert
      <3>2. c[entry.val].val = entry.val
        BY <1>3, <3>1 DEF Outgoing
      <3> QED
        BY <3>1, <3>2 DEF HasEdge, EdgeAt
    <2> QED
      BY <1>4, <2>1, <2>2 DEF EdgeOffered, EdgePlaced, Within
  <1>5. CASE CanInsert(DenseEdges, c, entry.val)
    <2>1. c \in Colls(DenseEdges, Int, EdgeEntries) /\ (DenseEdges \/ \A k \in DOMAIN c : c[k].val = k)
      BY <1>3 DEF Outgoing
    <2>2. e \in Int
      <3>1. Size(c) \in Nat
        BY <2>1, CollElim
      <3>2. DenseEdges \/ entry.val \in Int
        BY KeysAssumption DEF EdgeEntries
      <3> QED
        BY <3>1, <3>2, Families DEF IndexOfNew
    <2> HIDE DEF c, e
    <2>3. /\ d \in Colls(DenseEdges, Int, EdgeEntries)
          /\ e \notin DOMAIN c
          /\ \A k : k \in DOMAIN d <=> k \in DOMAIN c \/ k = e
          /\ d[e] = entry
          /\ \A k \in DOMAIN c : d[k] = c[k]
      <3>1. e = IndexOfNew(DenseEdges, c, entry.val)
        BY DEF e
      <3> QED
        BY <1>5, <2>1, <2>2, <3>1, CollInsert, Families
    <2> HIDE DEF d
    <2>4. d \in Outgoing
      <3>1. DenseEdges \/ e = entry.val
        BY Families DEF IndexOfNew, e
      <3>2. DenseEdges \/ \A k \in DOMAIN d : d[k].val = k
        BY <2>1, <2>3, <3>1
      <3> QED
        BY <2>3, <3>2 DEF Outgoing
    <2>5. /\ Shaped(out)
          /\ DOMAIN out = DOMAIN g
          /\ \A m \in DOMAIN g : out[m].val = g[m].val
          /\ \A m, k : HasEdge(out, m, k) <=> IF m = n THEN k \in DOMAIN d ELSE HasEdge(g, m, k)
          /\ \A k : EdgeAt(out, n, k) = d[k]
          /\ \A m \in DOMAIN g : \A k : m # n => EdgeAt(out, m, k) = EdgeAt(g, m, k)
          /\ \A t \in DOMAIN g : \A m, k : Recorded(out, t, m, k) <=> Recorded(g, t, m, k)
      <3>1. Rewires(out, g, n, d)
        BY DEF Rewires
      <3> HIDE DEF out
      <3> QED
        BY <1>1, <2>4, <3>1, OutgoingReplaced
    <2> HIDE DEF out
    <2>6. /\ \A k : HasEdge(g, n, k) <=> k \in DOMAIN c
          /\ \A k : EdgeAt(g, n, k) = c[k]
      BY DEF HasEdge, EdgeAt, c
    <2>7. /\ Shaped(h) /\ SameEdges(out, h)
          /\ Maintained => \A t \in DOMAIN g : \A m, k :
               Recorded(h, t, m, k) <=> Recorded(g, t, m, k) \/ (t = to /\ m = n /\ k = e)
      <3> DEFINE y == RecordInsert(out, to, <<n, e>>)
      <3>1. to \in DOMAIN out
        BY <2>5
      <3>2. /\ Shaped(y) /\ SameEdges(out, y)
            /\ Maintained => \A t \in DOMAIN out : \A m, k :
                 Recorded(y, t, m, k) <=> Recorded(out, t, m, k) \/ (t = to /\ m = n /\ k = e)
        BY <1>3, <2>2, <2>5, <3>1, RecordInsertAdds
      <3>3. h = y
        BY <1>2, <1>5
      <3> QED
        BY <2>5, <3>2, <3>3
    <2>8. /\ \A m, k : HasEdge(h, m, k) <=> HasEdge(g, m, k) \/ (m = n /\ k = e)
          /\ EdgeAt(h, n, e) = entry
          /\ ~HasEdge(g, n, e)
          /\ \A m, k : HasEdge(g, m, k) => EdgeAt(h, m, k) = EdgeAt(g, m, k)
      <3>1. /\ \A m, k : HasEdge(h, m, k) <=> HasEdge(out, m, k)
            /\ \A m, k : HasEdge(out, m, k) => EdgeAt(h, m, k) = EdgeAt(out, m, k)
        BY <2>7, SameEdgesSeen
      <3>2. \A m, k : HasEdge(out, m, k) <=> HasEdge(g, m, k) \/ (m = n /\ k = e)
        BY <2>3, <2>5, <2>6
      <3>3. EdgeAt(out, n, e) = entry
        BY <2>3, <2>5
      <3>4. ASSUME NEW m, NEW k, HasEdge(g, m, k) PROVE EdgeAt(out, m, k) = EdgeAt(g, m, k)
        <4>1. CASE m = n
          BY <2>3, <2>5, <2>6, <3>4, <4>1
        <4>2. CASE m # n
          <5>1. m \in DOMAIN g
            BY <3>4 DEF HasEdge
          <5> QED
            BY <2>5, <4>2, <5>1
        <4> QED
          BY <4>1, <4>2
      <3> QED
        BY <2>3, <2>6, <3>1, <3>2, <3>3, <3>4
    <2>9. DOMAIN h = DOMAIN g /\ \A m \in DOMAIN g : h[m].val = g[m].val
      BY <2>5, <2>7 DEF SameEdges
    <2>10. EdgeOffered(g, h, n, entry)
      <3>1. HasEdge(h, n, e) /\ EdgeAt(h, n, e) = entry
        BY <2>8
      <3>2. Within(g, h) /\ DOMAIN h = DOMAIN g
        BY <2>8, <2>9 DEF Within
      <3>3. \A m, k : HasEdge(h, m, k) => \/ HasEdge(g, m, k) /\ EdgeAt(h, m, k) = EdgeAt(g, m, k)
                                          \/ m = n /\ EdgeAt(h, m, k) = entry
        BY <2>8
      <3> QED
        BY <3>1, <3>2, <3>3 DEF EdgeOffered
    <2>11. EdgesLead(h)
      BY <1>1, <2>8, <2>9 DEF EdgesLead
    <2>12. IdsName(h)
      BY <1>1, <2>8 DEF IdsName, NewId
    <2>13. IndexExact(h)
      <3>1. SUFFICES ASSUME Maintained, NEW t \in DOMAIN g, NEW m, NEW k
                     PROVE  Recorded(h, t, m, k) <=> HasEdge(h, m, k) /\ EdgeAt(h, m, k).to = t
        BY <2>9 DEF IndexExact
      <3>2. Recorded(g, t, m, k) <=> HasEdge(g, m, k) /\ EdgeAt(g, m, k).to = t
        BY <1>1, <3>1 DEF IndexExact
      <3>3. Recorded(h, t, m, k) <=> Recorded(g, t, m, k) \/ (t = to /\ m = n /\ k = e)
        BY <2>7, <3>1
      <3> QED
        BY <2>8, <3>2, <3>3
    <2>14. PayloadsDiffer(h)
      BY <1>1, <2>9, PayloadsStay
    <2>15. EdgePlaced(g, h, n, entry)
      BY <2>8 DEF EdgePlaced, c, e
    <2> QED
      BY <2>7, <2>10, <2>11, <2>12, <2>13, <2>14, <2>15 DEF Whole
  <1> QED
    BY <1>4, <1>5

-----------------------------------------------------------------------------
(***************************************************************************)
(* An edge with another target.                                            *)
(***************************************************************************)
LeadingTo(entry, to) == [entry EXCEPT !.to = to]

(***************************************************************************)
(* Only the target differs.                                                *)
(***************************************************************************)
LEMMA LeadingToEntry ==
  ASSUME NEW entry \in EdgeEntries, NEW to \in Int
  PROVE  /\ LeadingTo(entry, to) \in EdgeEntries
         /\ LeadingTo(entry, to).to = to
         /\ LeadingTo(entry, to).id = entry.id
         /\ LeadingTo(entry, to).val = entry.val
  BY DEF LeadingTo, EdgeEntries

(***************************************************************************)
(* Every order in which a graph can be drained lists its edges.            *)
(***************************************************************************)
LEMMA DrainOrderLists ==
  ASSUME NEW g, Shaped(g), NEW q \in DrainOrders(g)
  PROVE  Lists(q, EdgeIxs(g))
  <1> DEFINE S == EdgeIxs(g)
             c == Cardinality(S)
  <1>1. IsFiniteSet(S)
    BY EdgeIxsFinite
  <1>2. q \in SetToSeqs(S)
    BY DEF DrainOrders
  <1> HIDE DEF S
  <1>3. q \in [1..c -> S] /\ \A i, j \in 1..c : i # j => q[i] # q[j]
    BY <1>2 DEF SetToSeqs
  <1>4. c \in Nat /\ \A x \in S : \E i \in 1..c : q[i] = x
    BY <1>1, <1>3, ListingComplete
  <1>5. DOMAIN q = 1..c /\ Len(q) = c
    BY <1>3, <1>4
  <1> QED
    BY <1>3, <1>4, <1>5 DEF Lists, S

(***************************************************************************)
(* The nodes alone.                                                        *)
(***************************************************************************)
LEMMA EmptiedWhole ==
  ASSUME NEW g, Whole(g), NEW h, h = Emptied(g)
  PROVE  /\ Whole(h)
         /\ DOMAIN h = DOMAIN g
         /\ \A n \in DOMAIN g : h[n].val = g[n].val
         /\ \A n, e : ~HasEdge(h, n, e)
  <1>1. /\ Shaped(g)
        /\ g \in Colls(DenseNodes, Int, NodeEntries)
        /\ \A n \in DOMAIN g : g[n] \in NodeEntries
    BY ShapeElim DEF Whole, Shaped
  <1>2. <<>> \in Outgoing /\ DOMAIN <<>> = {}
    <2>1. <<>> \in Colls(DenseEdges, Int, EdgeEntries) /\ DOMAIN <<>> = {}
      BY CollEmpty
    <2> QED
      BY <2>1 DEF Outgoing
  <1>3. ASSUME NEW n \in DOMAIN g
        PROVE  /\ h[n] \in NodeEntries /\ h[n].val = g[n].val
               /\ h[n].outgoing = <<>> /\ h[n].incoming = {}
    <2>1. g[n] \in NodeEntries /\ h[n] = [g[n] EXCEPT !.outgoing = <<>>, !.incoming = {}]
      BY <1>1 DEF Emptied
    <2> QED
      BY <1>2, <2>1 DEF NodeEntries
  <1>4. h = [n \in DOMAIN g |-> h[n]]
    BY DEF Emptied
  <1>5. h \in Colls(DenseNodes, Int, NodeEntries) /\ DOMAIN h = DOMAIN g
    <2>1. ASSUME NEW d, d = [n \in DOMAIN g |-> d[n]], \A n \in DOMAIN g : d[n] \in NodeEntries
          PROVE  d \in Colls(DenseNodes, Int, NodeEntries) /\ DOMAIN d = DOMAIN g
      BY <1>1, <2>1, CollUpdate, Zenon
    <2>2. \A n \in DOMAIN g : h[n] \in NodeEntries
      BY <1>3
    <2> QED
      BY <1>4, <2>1, <2>2, Zenon
  <1>6. Shaped(h)
    BY <1>1, <1>3, <1>5 DEF Shaped
  <1>7. \A n, e : ~HasEdge(h, n, e)
    BY <1>2, <1>3, <1>5 DEF HasEdge
  <1>8. \A t \in DOMAIN h : \A n, e : ~Recorded(h, t, n, e)
    BY <1>3, <1>5 DEF Recorded
  <1>9. PayloadsDiffer(h)
    BY <1>3, <1>5, PayloadsStay DEF Whole
  <1> QED
    BY <1>3, <1>5, <1>6, <1>7, <1>8, <1>9 DEF Whole, EdgesLead, IdsName, IndexExact

(***************************************************************************)
(* Every edge of h is one of g with its ends exchanged.                    *)
(***************************************************************************)
Reversed(g, h) ==
  /\ DOMAIN h = DOMAIN g
  /\ \A n \in DOMAIN g : h[n].val = g[n].val
  /\ \A m, k : HasEdge(h, m, k) =>
       \E n, e : /\ HasEdge(g, n, e) /\ m = EdgeAt(g, n, e).to
                 /\ EdgeAt(h, m, k) = LeadingTo(EdgeAt(g, n, e), n)

(***************************************************************************)
(* The edge of g at n, e is in h, reversed.                                *)
(***************************************************************************)
Kept(g, h, n, e) ==
  \E k : /\ HasEdge(h, EdgeAt(g, n, e).to, k)
         /\ EdgeAt(h, EdgeAt(g, n, e).to, k) = LeadingTo(EdgeAt(g, n, e), n)

(***************************************************************************)
(* An edge of g with the key and the head of the one at n, e is in h, and  *)
(* that is the one at n, e itself if edges have no keys.                   *)
(***************************************************************************)
KeptOrClashed(g, h, n, e) ==
  \E m, k : /\ HasEdge(g, m, k)
            /\ EdgeAt(g, m, k).val = EdgeAt(g, n, e).val
            /\ EdgeAt(g, m, k).to = EdgeAt(g, n, e).to
            /\ Kept(g, h, m, k)
            /\ DenseEdges => m = n /\ k = e

(***************************************************************************)
(* What is kept stays.                                                     *)
(***************************************************************************)
LEMMA KeptStays ==
  ASSUME NEW g, NEW x, NEW y, Within(x, y), NEW n, NEW e, KeptOrClashed(g, x, n, e)
  PROVE  KeptOrClashed(g, y, n, e)
  <1>1. \A m, k : Kept(g, x, m, k) => Kept(g, y, m, k)
    BY DEF Kept, Within
  <1> QED
    BY <1>1 DEF KeptOrClashed

(***************************************************************************)
(* reverse keeps the invariant in whatever order it drains the graph: an   *)
(* edge that comes back is another than those already back.                *)
(***************************************************************************)
LEMMA ReverseEdgesReverses ==
  ASSUME NEW g, Whole(g), NEW q \in DrainOrders(g)
  PROVE  /\ Whole(ReverseEdges(g, q)) /\ Reversed(g, ReverseEdges(g, q))
         /\ \A n, e : HasEdge(g, n, e) => KeptOrClashed(g, ReverseEdges(g, q), n, e)
  <1> DEFINE N == Len(q)
             empty == Emptied(g)
             Back(x, m, k, i) ==
               /\ EdgeAt(x, m, k) = LeadingTo(EdgeAt(g, q[i][1], q[i][2]), q[i][1])
               /\ m = EdgeAt(g, q[i][1], q[i][2]).to
             Past(x, j) == /\ DOMAIN x = DOMAIN g
                           /\ \A n \in DOMAIN g : x[n].val = g[n].val
                           /\ \A m, k : HasEdge(x, m, k) =>
                                \E i \in 1..N : i <= j /\ Back(x, m, k, i)
             Met(x, j) == \A i \in 1..N : i <= j => KeptOrClashed(g, x, q[i][1], q[i][2])
  <1>1. Shaped(g) /\ EdgesLead(g) /\ IdsName(g)
    BY DEF Whole
  <1>2. Lists(q, EdgeIxs(g))
    BY <1>1, DrainOrderLists
  <1>3. /\ N \in Nat /\ DOMAIN q = 1..N
        /\ \A i \in 1..N : q[i] \in EdgeIxs(g)
        /\ \A i, j \in 1..N : i # j => q[i] # q[j]
        /\ \A ix \in EdgeIxs(g) : \E i \in 1..N : q[i] = ix
    BY <1>2 DEF Lists
  <1>4. \A i \in 1..N : /\ q[i] = <<q[i][1], q[i][2]>>
                        /\ HasEdge(g, q[i][1], q[i][2])
                        /\ Edge(g, q[i]) = EdgeAt(g, q[i][1], q[i][2])
    BY <1>3, EdgeIxsSeen
  <1>5. RunsTo(ReverseEdges(g, q), "reverse", g, <<>>, empty, q)
    BY <1>3, ReverseRuns
  <1>7. PICK f : Runs(f, "reverse", g, <<>>, empty, q) /\ f[N] = ReverseEdges(g, q)
    BY <1>5 DEF RunsTo
  <1>8. f[0] = empty /\ \A k \in 1..N : f[k] = Reinserted(g, f[k - 1], q[k])
    BY <1>7 DEF Runs, Turn
  <1>9. /\ Whole(empty) /\ DOMAIN empty = DOMAIN g
        /\ \A n \in DOMAIN g : empty[n].val = g[n].val
        /\ \A n, e : ~HasEdge(empty, n, e)
    BY EmptiedWhole
  <1> HIDE DEF empty
  <1> DEFINE Good == {k \in 0..N : Whole(f[k]) /\ Past(f[k], k) /\ Met(f[k], k)}
  <1>10. 0 \in Good
    <2>1. Past(empty, 0) /\ Met(empty, 0)
      BY <1>9
    <2>2. 0 \in 0..N
      BY <1>3
    <2> HIDE DEF Past, Met
    <2> QED
      BY <1>8, <1>9, <2>1, <2>2
  <1>11. \A k \in 1..N : k - 1 \in Good => k \in Good
    <2>1. SUFFICES ASSUME NEW k \in 1..N, k - 1 \in Good PROVE k \in Good
      OBVIOUS
    <2> DEFINE n == q[k][1]
               e == q[k][2]
               old == EdgeAt(g, n, e)
               entry == LeadingTo(old, n)
               x == f[k - 1]
               y == f[k]
    <2>2. Whole(x) /\ Past(x, k - 1) /\ Met(x, k - 1)
      BY <2>1
    <2>3. /\ k \in 0..N /\ N \in Nat
          /\ \A i \in 1..N : i <= k - 1 => i <= k /\ i # k
          /\ \A i \in 1..N : i <= k => i <= k - 1 \/ i = k
      BY <1>3, <2>1
    <2>4. HasEdge(g, n, e) /\ Edge(g, q[k]) = old /\ q[k] = <<n, e>>
      BY <1>4
    <2>5. n \in DOMAIN g /\ n \in Int /\ old \in EdgeEntries /\ old.to \in DOMAIN g
      <3>1. n \in DOMAIN g
        BY <2>4 DEF HasEdge
      <3> HIDE DEF old, n, e
      <3> QED
        BY <1>1, <2>4, <3>1, ShapeElim DEF EdgesLead, old
    <2>6. y = InsertEdge(x, entry, old.to)
      <3>1. y = InsertEdge(x, [Edge(g, q[k]) EXCEPT !.to = q[k][1]], Edge(g, q[k]).to)
        BY <1>8 DEF Reinserted
      <3> QED
        BY <2>4, <3>1 DEF LeadingTo
    <2> HIDE DEF n, e, old, x, y
    <2>7. entry \in EdgeEntries /\ entry.to = n /\ entry.id = old.id
      BY <2>5, LeadingToEntry
    <2> HIDE DEF entry
    <2>8. DOMAIN x = DOMAIN g /\ \A m \in DOMAIN g : x[m].val = g[m].val
      BY <2>2
    <2>9. NewId(x, entry.id)
      <3>1. SUFFICES ASSUME NEW m, NEW j, HasEdge(x, m, j) PROVE EdgeAt(x, m, j).id # old.id
        BY <2>7 DEF NewId
      <3>2. PICK i \in 1..N : i <= k - 1 /\ Back(x, m, j, i)
        BY <2>2, <3>1
      <3>3. EdgeAt(g, q[i][1], q[i][2]) \in EdgeEntries /\ q[i][1] \in Int
        BY <1>1, <1>4, ShapeElim
      <3>4. EdgeAt(x, m, j).id = EdgeAt(g, q[i][1], q[i][2]).id
        <4>1. \A b \in EdgeEntries, to \in Int : LeadingTo(b, to).id = b.id
          BY LeadingToEntry
        <4> QED
          BY <3>2, <3>3, <4>1
      <3>5. q[i] # q[k] /\ q[i] = <<q[i][1], q[i][2]>> /\ HasEdge(g, q[i][1], q[i][2])
        BY <1>3, <1>4, <2>3, <3>2
      <3> QED
        BY <1>1, <2>4, <3>4, <3>5 DEF IdsName, old
    <2>10. Whole(y) /\ EdgeOffered(x, y, old.to, entry)
      BY <2>2, <2>5, <2>6, <2>7, <2>8, <2>9, InsertEdgeInserts
    <2>11. Past(y, k)
      <3>1. DOMAIN y = DOMAIN g /\ \A m \in DOMAIN g : y[m].val = g[m].val
        BY <2>8, <2>10 DEF EdgeOffered, Within
      <3>2. ASSUME NEW m, NEW j, HasEdge(y, m, j)
            PROVE  \E i \in 1..N : i <= k /\ Back(y, m, j, i)
        <4>1. CASE HasEdge(x, m, j) /\ EdgeAt(y, m, j) = EdgeAt(x, m, j)
          <5>1. PICK i \in 1..N : i <= k - 1 /\ Back(x, m, j, i)
            BY <2>2, <4>1
          <5> QED
            BY <2>3, <4>1, <5>1
        <4>2. CASE m = old.to /\ EdgeAt(y, m, j) = entry
          <5>1. Back(y, m, j, k)
            BY <4>2 DEF entry, old, n, e
          <5> QED
            BY <2>3, <5>1
        <4> QED
          BY <2>10, <3>2, <4>1, <4>2 DEF EdgeOffered
      <3> QED
        BY <3>1, <3>2
    <2>12. KeptOrClashed(g, y, n, e)
      <3>1. PICK j : \/ HasEdge(y, old.to, j) /\ EdgeAt(y, old.to, j) = entry
                     \/ ~DenseEdges /\ HasEdge(x, old.to, j) /\ EdgeAt(x, old.to, j).val = entry.val
        BY <2>10 DEF EdgeOffered
      <3>2. CASE HasEdge(y, old.to, j) /\ EdgeAt(y, old.to, j) = entry
        <4>1. Kept(g, y, n, e)
          BY <3>2 DEF Kept, entry, old
        <4> QED
          BY <2>4, <4>1 DEF KeptOrClashed
      <3>3. CASE ~DenseEdges /\ HasEdge(x, old.to, j) /\ EdgeAt(x, old.to, j).val = entry.val
        <4>1. PICK i \in 1..N : Back(x, old.to, j, i)
          BY <2>2, <3>3
        <4> DEFINE m == q[i][1]
                   l == q[i][2]
                   other == EdgeAt(g, m, l)
        <4>2. EdgeAt(x, old.to, j) = LeadingTo(other, m) /\ old.to = other.to
          BY <4>1
        <4>3. HasEdge(g, m, l) /\ other \in EdgeEntries /\ m \in Int
          BY <1>1, <1>4, ShapeElim
        <4>4. other = EdgeAt(g, m, l)
          OBVIOUS
        <4> HIDE DEF other, m, l
        <4>5. other.val = old.val
          <5>1. LeadingTo(other, m).val = other.val
            BY <4>3, LeadingToEntry
          <5>2. LeadingTo(old, n).val = old.val
            BY <2>5, LeadingToEntry
          <5> QED
            BY <3>3, <4>2, <5>1, <5>2 DEF entry
        <4>6. HasEdge(y, old.to, j) /\ EdgeAt(y, old.to, j) = LeadingTo(other, m)
          BY <2>10, <3>3, <4>2 DEF EdgeOffered, Within
        <4>7. Kept(g, y, m, l)
          BY <4>2, <4>4, <4>6 DEF Kept
        <4> QED
          BY <3>3, <4>2, <4>3, <4>4, <4>5, <4>7 DEF KeptOrClashed, old
      <3> QED
        BY <3>1, <3>2, <3>3
    <2>13. Met(y, k)
      <3>1. SUFFICES ASSUME NEW i \in 1..N, i <= k PROVE KeptOrClashed(g, y, q[i][1], q[i][2])
        OBVIOUS
      <3>2. CASE i = k
        BY <2>12, <3>2 DEF n, e
      <3>3. CASE i <= k - 1
        <4>1. KeptOrClashed(g, x, q[i][1], q[i][2])
          BY <2>2, <3>3
        <4>2. Within(x, y)
          BY <2>10 DEF EdgeOffered
        <4> QED
          BY <4>1, <4>2, KeptStays
      <3> QED
        BY <2>3, <3>1, <3>2, <3>3
    <2> HIDE DEF Past, Met
    <2> QED
      BY <2>3, <2>10, <2>11, <2>13 DEF y
  <1>12. N \in Good
    <2>1. N \in 0..N
      BY <1>3
    <2> HIDE DEF Good, N
    <2> QED
      BY <1>3, <1>10, <1>11, <2>1, RoundInduction
  <1>13. Whole(f[N]) /\ Past(f[N], N) /\ Met(f[N], N)
    BY <1>12
  <1>14. Reversed(g, f[N])
    <2> DEFINE x == f[N]
    <2>1. Past(x, N)
      BY <1>13
    <2> HIDE DEF x
    <2>2. ASSUME NEW m, NEW k, HasEdge(x, m, k)
          PROVE  \E n, e : /\ HasEdge(g, n, e) /\ m = EdgeAt(g, n, e).to
                           /\ EdgeAt(x, m, k) = LeadingTo(EdgeAt(g, n, e), n)
      <3>1. PICK i \in 1..N : Back(x, m, k, i)
        BY <2>1, <2>2
      <3> QED
        BY <1>4, <3>1
    <2> QED
      BY <2>1, <2>2 DEF Reversed, x
  <1>15. ASSUME NEW n, NEW e, HasEdge(g, n, e) PROVE KeptOrClashed(g, f[N], n, e)
    <2>1. <<n, e>> \in EdgeIxs(g) /\ <<n, e>>[1] = n /\ <<n, e>>[2] = e
      BY <1>15, EdgeIxsSeen
    <2>2. PICK i \in 1..N : q[i] = <<n, e>>
      BY <1>3, <2>1
    <2>3. i <= N
      BY <1>3
    <2>4. KeptOrClashed(g, f[N], q[i][1], q[i][2])
      BY <1>13, <2>3
    <2> QED
      BY <2>1, <2>2, <2>4
  <1> QED
    BY <1>7, <1>13, <1>14, <1>15

-----------------------------------------------------------------------------
(***************************************************************************)
(* What a graph to extend by is known to be.                               *)
(***************************************************************************)
Offered(other) ==
  /\ IsFiniteSet(DOMAIN other) /\ IsFiniteSet(EdgeIxs(other))
  /\ EdgeIxs(other) \subseteq Int \X Int
  /\ \A n \in DOMAIN other : n \in Int /\ other[n].val \in NodeVals
  /\ DenseNodes \/ \A n \in DOMAIN other : other[n].val = n
  /\ \A n, e : HasEdge(other, n, e) => /\ EdgeAt(other, n, e) \in EdgeEntries
                                       /\ EdgeAt(other, n, e).to \in DOMAIN other
                                       /\ DenseEdges \/ EdgeAt(other, n, e).val = e
  /\ IdsName(other) /\ PayloadsDiffer(other)

(***************************************************************************)
(* As many names as edges: every name has one edge.                        *)
(***************************************************************************)
LEMMA NamesCounted ==
  ASSUME NEW S, IsFiniteSet(S), NEW name,
         Cardinality({name[x] : x \in S}) = Cardinality(S)
  PROVE  \A x, y \in S : name[x] = name[y] => x = y
  <1> DEFINE T == {name[x] : x \in S}
             f == [x \in S |-> name[x]]
  <1>1. f \in Surjection(S, T)
    BY DEF Surjection
  <1>2. \A x \in S : f[x] = name[x]
    OBVIOUS
  <1> HIDE DEF f
  <1>3. Cardinality(T) = Cardinality(S)
    OBVIOUS
  <1> HIDE DEF T
  <1>4. f \in Injection(S, T)
    BY <1>1, <1>3, FS_Surjection
  <1> QED
    BY <1>2, <1>4 DEF Injection, IsInjective

(***************************************************************************)
(* An index of a collection is a number.                                   *)
(***************************************************************************)
LEMMA IndexedFacts ==
  ASSUME NEW dense \in BOOLEAN, NEW c, Indexed(dense, c),
         dense \/ \A i \in DOMAIN c : c[i].val \in Int
  PROVE  /\ IsFiniteSet(DOMAIN c)
         /\ \A i \in DOMAIN c : i \in Int
         /\ dense \/ \A i \in DOMAIN c : c[i].val = i
  <1>1. IsFiniteSet(DOMAIN c)
    BY DEF Indexed
  <1>2. CASE dense
    <2>1. DOMAIN c = 0..(Size(c) - 1)
      BY <1>2, Zenon DEF Indexed
    <2>2. Size(c) \in Nat
      BY <1>1, FS_CardinalityType DEF Size
    <2> QED
      BY <1>1, <1>2, <2>1, <2>2
  <1>3. CASE ~dense
    <2>1. \A i \in DOMAIN c : c[i].val = i
      BY <1>3, Zenon DEF Indexed
    <2> QED
      BY <1>1, <1>3, <2>1
  <1> QED
    BY <1>2, <1>3

(***************************************************************************)
(* The graphs that OthersAssumption speaks of.                             *)
(***************************************************************************)
LEMMA WellFormedOffered ==
  ASSUME NEW other, WellFormed(other), PayloadsDiffer(other)
  PROVE  Offered(other)
  <1>1. /\ Indexed(DenseNodes, other)
        /\ \A n \in DOMAIN other : /\ other[n].val \in NodeVals
                                   /\ Indexed(DenseEdges, other[n].outgoing)
        /\ \A n, e : HasEdge(other, n, e) =>
             EdgeAt(other, n, e) \in [val : EdgeVals, to : DOMAIN other, id : EdgeIds]
        /\ Cardinality({Edge(other, ix).id : ix \in EdgeIxs(other)}) = Cardinality(EdgeIxs(other))
    BY DEF WellFormed, HasEdge, EdgeAt
  <1>2. /\ IsFiniteSet(DOMAIN other)
        /\ \A n \in DOMAIN other : n \in Int
        /\ DenseNodes \/ \A n \in DOMAIN other : other[n].val = n
    <2>1. DenseNodes \/ \A n \in DOMAIN other : other[n].val \in Int
      BY <1>1, KeysAssumption
    <2> QED
      BY <1>1, <2>1, IndexedFacts, Families
  <1>3. \A n, e : HasEdge(other, n, e) => /\ EdgeAt(other, n, e) \in EdgeEntries
                                          /\ EdgeAt(other, n, e).to \in DOMAIN other
    BY <1>1, <1>2 DEF EdgeEntries
  <1>4. ASSUME NEW n \in DOMAIN other
        PROVE  /\ IsFiniteSet(DOMAIN other[n].outgoing)
               /\ \A e \in DOMAIN other[n].outgoing : e \in Int
    <2> DEFINE c == other[n].outgoing
    <2>1. \A e \in DOMAIN c : HasEdge(other, n, e) /\ EdgeAt(other, n, e) = c[e]
      BY DEF HasEdge, EdgeAt
    <2>2. Indexed(DenseEdges, c)
      BY <1>1
    <2> HIDE DEF c
    <2>3. \A e \in DOMAIN c : c[e].val \in EdgeVals
      <3>1. \A x \in EdgeEntries : x.val \in EdgeVals
        BY DEF EdgeEntries
      <3> QED
        BY <1>3, <2>1, <3>1
    <2>4. DenseEdges \/ \A e \in DOMAIN c : c[e].val \in Int
      BY <2>3, KeysAssumption
    <2>5. IsFiniteSet(DOMAIN c) /\ \A e \in DOMAIN c : e \in Int
      BY <2>2, <2>4, IndexedFacts, Families
    <2> QED
      BY <2>5 DEF c
  <1>5. IsFiniteSet(EdgeIxs(other))
    <2> DEFINE of == [n \in DOMAIN other |-> {n} \X DOMAIN other[n].outgoing]
               R == {{n} \X DOMAIN other[n].outgoing : n \in DOMAIN other}
    <2>1. of \in Surjection(DOMAIN other, R)
      BY DEF Surjection
    <2>2. IsFiniteSet(R)
      <3> HIDE DEF of, R
      <3> QED
        BY <1>2, <2>1, FS_Surjection
    <2>3. \A n \in DOMAIN other : IsFiniteSet({n} \X DOMAIN other[n].outgoing)
      BY <1>4, FS_Singleton, FS_Product
    <2>4. \A T \in R : IsFiniteSet(T)
      BY <2>3
    <2>5. EdgeIxs(other) = UNION R
      BY Zenon DEF EdgeIxs
    <2> HIDE DEF R
    <2> QED
      BY <2>2, <2>4, <2>5, FS_UNION
  <1>6. ASSUME NEW ix \in EdgeIxs(other) PROVE ix \in Int \X Int
    <2>1. ix = <<ix[1], ix[2]>> /\ ix[1] \in DOMAIN other /\ ix[2] \in DOMAIN other[ix[1]].outgoing
      BY EdgeIxsSeen DEF HasEdge
    <2> QED
      BY <1>2, <1>4, <2>1
  <1>7. IdsName(other)
    <2> DEFINE S == EdgeIxs(other)
               name == [ix \in S |-> Edge(other, ix).id]
    <2>1. \A ix \in S : name[ix] = Edge(other, ix).id
      OBVIOUS
    <2>2. {name[ix] : ix \in S} = {Edge(other, ix).id : ix \in S}
      OBVIOUS
    <2>3. \A x, y \in S : name[x] = name[y] => x = y
      <3> HIDE DEF name
      <3> QED
        BY <1>1, <1>5, <2>2, NamesCounted
    <2> HIDE DEF name
    <2>4. SUFFICES ASSUME NEW n, NEW e, NEW m, NEW k, HasEdge(other, n, e), HasEdge(other, m, k),
                          EdgeAt(other, n, e).id = EdgeAt(other, m, k).id
                   PROVE  n = m /\ e = k
      BY DEF IdsName
    <2>5. /\ <<n, e>> \in S /\ Edge(other, <<n, e>>) = EdgeAt(other, n, e)
          /\ <<m, k>> \in S /\ Edge(other, <<m, k>>) = EdgeAt(other, m, k)
      BY <2>4, EdgeIxsSeen
    <2>6. <<n, e>> = <<m, k>>
      BY <2>1, <2>3, <2>4, <2>5
    <2> QED
      BY <2>6
  <1>8. ASSUME NEW n, NEW e, HasEdge(other, n, e) PROVE DenseEdges \/ EdgeAt(other, n, e).val = e
    <2>1. Indexed(DenseEdges, other[n].outgoing) /\ e \in DOMAIN other[n].outgoing
      BY <1>1, <1>8 DEF HasEdge
    <2> QED
      BY <2>1, Families DEF Indexed, EdgeAt
  <1> QED
    BY <1>1, <1>2, <1>3, <1>5, <1>6, <1>7, <1>8 DEF Offered

(***************************************************************************)
(* No node of other has a payload that a node of g has, and no edge the    *)
(* name of an edge of g.                                                   *)
(***************************************************************************)
Foreign(g, other) ==
  /\ \A n \in DOMAIN g : \A m \in DOMAIN other : other[m].val # g[n].val
  /\ \A m, k : HasEdge(other, m, k) => NewId(g, EdgeAt(other, m, k).id)

(***************************************************************************)
(* The nodes of other are in h, at the indices new.                        *)
(***************************************************************************)
NodesAdded(g, other, h, new) ==
  /\ Whole(h) /\ Within(g, h)
  /\ \A m, k : HasEdge(h, m, k) <=> HasEdge(g, m, k)
  /\ \A n \in DOMAIN other : /\ new[n] \in DOMAIN h /\ new[n] \in Int /\ new[n] \notin DOMAIN g
                             /\ h[new[n]].val = other[n].val
  /\ \A m \in DOMAIN h : m \in DOMAIN g \/ \E n \in DOMAIN other : m = new[n]

(***************************************************************************)
(* Within is transitive.                                                   *)
(***************************************************************************)
LEMMA WithinMore ==
  ASSUME NEW f, NEW g, NEW h, Within(f, g), Within(g, h)
  PROVE  Within(f, h)
  BY DEF Within

(***************************************************************************)
(* The loop of extend_graph over the nodes: no payload is there yet.       *)
(***************************************************************************)
LEMMA AddNodesAdds ==
  ASSUME NEW g, Whole(g), NEW other, Offered(other), Foreign(g, other),
         NEW r, r = AddNodes(g, other)
  PROVE  NodesAdded(g, other, r.g, r.new)
  <1> DEFINE q == Ascending(DOMAIN other)
             N == Len(q)
             first == [g |-> g, new |-> <<>>]
             Known(x, k) == \A n : n \in DOMAIN x.new <=> \E i \in 1..N : i <= k /\ q[i] = n
             Placed(x) == \A n \in DOMAIN x.new :
                            /\ x.new[n] \in DOMAIN x.g /\ x.new[n] \in Int /\ x.new[n] \notin DOMAIN g
                            /\ x.g[x.new[n]].val = other[n].val
             NoMore(x) == \A m \in DOMAIN x.g :
                            m \in DOMAIN g \/ \E n \in DOMAIN x.new : m = x.new[n]
             Grown(x) == /\ Whole(x.g) /\ Within(g, x.g)
                         /\ \A m, k : HasEdge(x.g, m, k) <=> HasEdge(g, m, k)
  <1>1. /\ IsFiniteSet(DOMAIN other) /\ DOMAIN other \subseteq Int
        /\ \A n \in DOMAIN other : n \in Int /\ other[n].val \in NodeVals
        /\ DenseNodes \/ \A n \in DOMAIN other : other[n].val = n
        /\ PayloadsDiffer(other)
    BY DEF Offered
  <1>2. Lists(q, DOMAIN other)
    BY <1>1, AscendingLists
  <1>3. /\ N \in Nat /\ DOMAIN q = 1..N
        /\ \A i \in 1..N : q[i] \in DOMAIN other
        /\ \A i, j \in 1..N : i # j => q[i] # q[j]
        /\ \A n \in DOMAIN other : \E i \in 1..N : q[i] = n
    BY <1>2 DEF Lists
  <1>4. q = Ascending(DOMAIN other) /\ r = AddNodes(g, other)
    OBVIOUS
  <1> HIDE DEF q
  <1>5. RunsTo(r, "add nodes", other, <<>>, first, q)
    <2>1. RunsTo(AddNodes(g, other), "add nodes", other, <<>>, first, q)
      BY <1>3, <1>4, AddNodesRuns, Zenon
    <2> QED
      BY <1>4, <2>1, Zenon
  <1>6. PICK f : Runs(f, "add nodes", other, <<>>, first, q) /\ f[N] = r
    BY <1>5 DEF RunsTo
  <1>7. f[0] = first /\ \A k \in 1..N : f[k] = AddedNode(other, f[k - 1], q[k])
    BY <1>6 DEF Runs, Turn
  <1> DEFINE Good == {k \in 0..N : Known(f[k], k) /\ Placed(f[k]) /\ NoMore(f[k]) /\ Grown(f[k])}
  <1>8. 0 \in Good
    <2>1. first.g = g /\ first.new = <<>> /\ DOMAIN <<>> = {}
      OBVIOUS
    <2> HIDE DEF first
    <2>2. Grown(first)
      BY <2>1 DEF Within
    <2>3. Known(first, 0) /\ Placed(first) /\ NoMore(first)
      BY <1>3, <2>1
    <2>4. 0 \in 0..N
      BY <1>3
    <2> HIDE DEF Known, Placed, NoMore, Grown
    <2> QED
      BY <1>7, <2>2, <2>3, <2>4
  <1>9. \A k \in 1..N : k - 1 \in Good => k \in Good
    <2>1. SUFFICES ASSUME NEW k \in 1..N, k - 1 \in Good PROVE k \in Good
      OBVIOUS
    <2> DEFINE n == q[k]
               v == other[n].val
               x == f[k - 1]
               y == f[k]
               at == IndexOfNew(DenseNodes, x.g, v)
    <2>2. Known(x, k - 1) /\ Placed(x) /\ NoMore(x) /\ Grown(x)
      BY <2>1
    <2>3. /\ k \in 0..N /\ N \in Nat /\ k <= k
          /\ \A i \in 1..N : i <= k - 1 => i <= k /\ i # k
          /\ \A i \in 1..N : i <= k => i <= k - 1 \/ i = k
      BY <1>3, <2>1
    <2>4. n \in DOMAIN other /\ v \in NodeVals /\ (DenseNodes \/ v = n)
      BY <1>1, <1>3
    <2>5. /\ y.g = InsertNode(x.g, v)
          /\ y.new = Joined(x.new, [m \in {n} |-> at])
      <3>1. y = AddedNode(other, x, n)
        BY <1>7
      <3> HIDE DEF x, y, n
      <3> QED
        BY <3>1 DEF AddedNode
    <2>6. n = q[k]
      OBVIOUS
    <2>7. \A m \in DOMAIN g : v # g[m].val
      BY <2>4 DEF Foreign
    <2>8. /\ Whole(x.g) /\ Within(g, x.g)
          /\ \A m, j : HasEdge(x.g, m, j) <=> HasEdge(g, m, j)
      BY <2>2
    <2>9. at = IndexOfNew(DenseNodes, x.g, v)
      OBVIOUS
    <2> HIDE DEF n, v, x, y, at
    <2>10. \A i \in 1..N : i <= k - 1 => q[i] # n
      BY <1>3, <2>3, <2>6
    <2>11. n \notin DOMAIN x.new
      BY <2>2, <2>10
    <2>12. ~Holds(x.g, v) /\ CanInsert(DenseNodes, x.g, v)
      <3>1. ~Holds(x.g, v)
        <4>1. SUFFICES ASSUME NEW m \in DOMAIN x.g, x.g[m].val = v PROVE FALSE
          BY DEF Holds
        <4>2. CASE m \in DOMAIN g
          BY <2>7, <2>8, <4>1, <4>2 DEF Within
        <4>3. ASSUME NEW o \in DOMAIN x.new, m = x.new[o] PROVE FALSE
          <5>1. other[o].val = other[n].val /\ o \in DOMAIN other
            BY <1>3, <2>2, <4>1, <4>3 DEF v
          <5>2. o = n
            BY <1>1, <2>4, <5>1 DEF PayloadsDiffer
          <5> QED
            BY <2>11, <4>3, <5>2
        <4> QED
          BY <2>2, <4>2, <4>3
      <3>2. DenseNodes \/ v \notin DOMAIN x.g
        BY <2>8, <3>1 DEF Whole, Shaped, Holds
      <3> QED
        BY <3>1, <3>2 DEF CanInsert
    <2>13. /\ Whole(y.g) /\ Within(x.g, y.g)
           /\ at \notin DOMAIN x.g /\ at \in Int
           /\ \A m : m \in DOMAIN y.g <=> m \in DOMAIN x.g \/ m = at
           /\ y.g[at].val = v
           /\ \A m, j : HasEdge(y.g, m, j) <=> HasEdge(x.g, m, j)
      BY <2>4, <2>5, <2>8, <2>9, <2>12, InsertNodeInserts
    <2>14. /\ \A m : m \in DOMAIN y.new <=> m \in DOMAIN x.new \/ m = n
           /\ \A m \in DOMAIN x.new : y.new[m] = x.new[m]
           /\ y.new[n] = at
      <3> DEFINE s == [m \in {n} |-> at]
      <3>1. DOMAIN s = {n} /\ s[n] = at
        OBVIOUS
      <3>2. y.new = Joined(x.new, s)
        BY <2>5
      <3> HIDE DEF s
      <3>3. ASSUME NEW o, NEW h, h = Joined(o, s), n \notin DOMAIN o
            PROVE  /\ \A m : m \in DOMAIN h <=> m \in DOMAIN o \/ m = n
                   /\ \A m \in DOMAIN o : h[m] = o[m]
                   /\ h[n] = at
        BY <3>1, <3>3 DEF Joined
      <3> QED
        BY <2>11, <3>2, <3>3, Zenon
    <2>15. Grown(y)
      BY <2>8, <2>13, WithinMore
    <2>16. Known(y, k)
      BY <2>2, <2>3, <2>6, <2>14
    <2>17. Placed(y)
      <3>1. SUFFICES ASSUME NEW m \in DOMAIN y.new
                     PROVE  /\ y.new[m] \in DOMAIN y.g /\ y.new[m] \in Int /\ y.new[m] \notin DOMAIN g
                            /\ y.g[y.new[m]].val = other[m].val
        OBVIOUS
      <3>2. CASE m = n
        BY <2>8, <2>13, <2>14, <3>2 DEF v, Within
      <3>3. CASE m # n
        <4>1. m \in DOMAIN x.new /\ y.new[m] = x.new[m]
          BY <2>14, <3>1, <3>3
        <4> QED
          BY <2>2, <2>13, <4>1 DEF Within
      <3> QED
        BY <3>2, <3>3
    <2>18. NoMore(y)
      BY <2>2, <2>13, <2>14
    <2> HIDE DEF Known, Placed, NoMore, Grown
    <2> QED
      BY <2>3, <2>15, <2>16, <2>17, <2>18 DEF y
  <1>10. N \in Good
    <2>1. N \in 0..N
      BY <1>3
    <2> HIDE DEF Good, N
    <2> QED
      BY <1>3, <1>8, <1>9, <2>1, RoundInduction
  <1>11. Known(r, N) /\ Placed(r) /\ NoMore(r) /\ Grown(r)
    <2> HIDE DEF Known, Placed, NoMore, Grown
    <2> QED
      BY <1>6, <1>10
  <1>12. \A n \in DOMAIN other : n \in DOMAIN r.new
    <2>1. \A i \in 1..N : i <= N
      BY <1>3
    <2> QED
      BY <1>3, <1>11, <2>1
  <1>13. \A n \in DOMAIN r.new : n \in DOMAIN other
    BY <1>3, <1>11
  <1> QED
    BY <1>11, <1>12, <1>13 DEF NodesAdded

(***************************************************************************)
(* A list backwards is a list of the same elements.                        *)
(***************************************************************************)
LEMMA ReverseLists ==
  ASSUME NEW q, NEW S, Lists(q, S)
  PROVE  Lists(Reverse(q), S)
  <1> DEFINE N == Len(q)
             r == Reverse(q)
  <1>1. /\ N \in Nat /\ DOMAIN q = 1..N
        /\ \A i \in 1..N : q[i] \in S
        /\ \A i, j \in 1..N : i # j => q[i] # q[j]
        /\ \A x \in S : \E i \in 1..N : q[i] = x
    BY DEF Lists
  <1>2. r = [i \in 1..N |-> q[(N - i) + 1]]
    BY Zenon DEF Reverse
  <1> HIDE DEF r, N
  <1>3. DOMAIN r = 1..N /\ Len(r) = N
    BY <1>1, <1>2
  <1>4. \A i \in 1..N : (N - i) + 1 \in 1..N /\ r[i] = q[(N - i) + 1] /\ (N - ((N - i) + 1)) + 1 = i
    BY <1>1, <1>2
  <1>5. \A i \in 1..N : r[i] \in S
    BY <1>1, <1>4
  <1>6. \A i, j \in 1..N : i # j => r[i] # r[j]
    <2>1. SUFFICES ASSUME NEW i \in 1..N, NEW j \in 1..N, i # j PROVE r[i] # r[j]
      OBVIOUS
    <2>2. (N - i) + 1 # (N - j) + 1
      BY <1>1, <2>1
    <2> QED
      BY <1>1, <1>4, <2>2
  <1>7. \A x \in S : \E i \in 1..N : r[i] = x
    <2>1. SUFFICES ASSUME NEW x \in S PROVE \E i \in 1..N : r[i] = x
      OBVIOUS
    <2>2. PICK i \in 1..N : q[i] = x
      BY <1>1
    <2>3. (N - i) + 1 \in 1..N /\ r[(N - i) + 1] = q[i]
      BY <1>4
    <2> QED
      BY <2>2, <2>3
  <1> QED
    BY <1>1, <1>3, <1>5, <1>6, <1>7 DEF Lists, r

(***************************************************************************)
(* The edge of other at n, e is at k in h, between the indices new.        *)
(***************************************************************************)
Moved(other, h, new, n, e, k) ==
  /\ HasEdge(h, new[n], k)
  /\ EdgeAt(h, new[n], k) = LeadingTo(EdgeAt(other, n, e), new[EdgeAt(other, n, e).to])

(***************************************************************************)
(* The edges of h are those of g and those of other.                       *)
(***************************************************************************)
EdgesAdded(g, other, h, new) ==
  /\ Within(g, h) /\ DOMAIN h = DOMAIN g
  /\ \A m, k : HasEdge(h, m, k) =>
       \/ HasEdge(g, m, k)
       \/ \E n, e : HasEdge(other, n, e) /\ m = new[n] /\ Moved(other, h, new, n, e, k)
  /\ \A n, e : HasEdge(other, n, e) => \E k : Moved(other, h, new, n, e, k)

(***************************************************************************)
(* The loop of extend_graph over the edges: the name of each is new, and   *)
(* so is its key, as the keys of other differ within every tail.           *)
(***************************************************************************)
LEMMA AddEdgesAdds ==
  ASSUME NEW g, Whole(g), NEW other, Offered(other), NEW new,
         \A m, k : HasEdge(other, m, k) => NewId(g, EdgeAt(other, m, k).id),
         \A n \in DOMAIN other : /\ new[n] \in DOMAIN g /\ new[n] \in Int
                                 /\ \A k : ~HasEdge(g, new[n], k),
         \A n, m \in DOMAIN other : new[n] = new[m] => n = m,
         NEW r, r = AddEdges(g, other, new)
  PROVE  Whole(r) /\ EdgesAdded(g, other, r, new)
  <1> DEFINE q == Reverse(Descending(EdgeIxs(other)))
             N == Len(q)
             At(x, i, k) == Moved(other, x, new, q[i][1], q[i][2], k)
             Past(x, j) == /\ Within(g, x) /\ DOMAIN x = DOMAIN g
                           /\ \A m, k : HasEdge(x, m, k) =>
                                \/ HasEdge(g, m, k)
                                \/ \E i \in 1..N : i <= j /\ m = new[q[i][1]] /\ At(x, i, k)
             Met(x, j) == \A i \in 1..N : i <= j => \E k : At(x, i, k)
  <1>1. /\ IsFiniteSet(EdgeIxs(other)) /\ EdgeIxs(other) \subseteq Int \X Int
        /\ \A n, e : HasEdge(other, n, e) => /\ EdgeAt(other, n, e) \in EdgeEntries
                                             /\ EdgeAt(other, n, e).to \in DOMAIN other
                                             /\ DenseEdges \/ EdgeAt(other, n, e).val = e
        /\ IdsName(other)
    BY DEF Offered
  <1>2. Lists(q, EdgeIxs(other))
    BY <1>1, DescendingLists, ReverseLists
  <1>3. /\ N \in Nat /\ DOMAIN q = 1..N
        /\ \A i \in 1..N : q[i] \in EdgeIxs(other)
        /\ \A i, j \in 1..N : i # j => q[i] # q[j]
        /\ \A ix \in EdgeIxs(other) : \E i \in 1..N : q[i] = ix
    BY <1>2 DEF Lists
  <1>4. \A i \in 1..N : /\ q[i] = <<q[i][1], q[i][2]>>
                        /\ HasEdge(other, q[i][1], q[i][2])
                        /\ Edge(other, q[i]) = EdgeAt(other, q[i][1], q[i][2])
    BY <1>3, EdgeIxsSeen
  <1>5. q = Reverse(Descending(EdgeIxs(other))) /\ r = AddEdges(g, other, new)
    OBVIOUS
  <1> HIDE DEF q
  <1>6. RunsTo(r, "add edges", other, new, g, q)
    <2>1. RunsTo(AddEdges(g, other, new), "add edges", other, new, g, q)
      BY <1>3, <1>5, AddEdgesRuns, Zenon
    <2> QED
      BY <1>5, <2>1, Zenon
  <1>7. PICK f : Runs(f, "add edges", other, new, g, q) /\ f[N] = r
    BY <1>6 DEF RunsTo
  <1>8. f[0] = g /\ \A k \in 1..N : f[k] = AddedEdge(other, new, f[k - 1], q[k])
    BY <1>7 DEF Runs, Turn
  <1>9. ASSUME NEW x, NEW i \in 1..N, NEW k, At(x, i, k)
        PROVE  /\ EdgeAt(x, new[q[i][1]], k).id = EdgeAt(other, q[i][1], q[i][2]).id
               /\ EdgeAt(x, new[q[i][1]], k).val = EdgeAt(other, q[i][1], q[i][2]).val
    <2> DEFINE b == EdgeAt(other, q[i][1], q[i][2])
    <2>1. b \in EdgeEntries /\ new[b.to] \in Int
      BY <1>1, <1>4
    <2>2. EdgeAt(x, new[q[i][1]], k) = LeadingTo(b, new[b.to])
      BY <1>9 DEF Moved
    <2> HIDE DEF b
    <2>3. LeadingTo(b, new[b.to]).id = b.id /\ LeadingTo(b, new[b.to]).val = b.val
      BY <2>1, LeadingToEntry
    <2> QED
      BY <2>2, <2>3 DEF b
  <1>10. ASSUME NEW x, NEW y, Within(x, y), NEW i \in 1..N, NEW k, At(x, i, k)
         PROVE  At(y, i, k)
    BY <1>10 DEF Within, Moved
  <1> DEFINE Good == {k \in 0..N : Whole(f[k]) /\ Past(f[k], k) /\ Met(f[k], k)}
  <1>11. 0 \in Good
    <2>1. Past(g, 0) /\ Met(g, 0)
      BY <1>3 DEF Within
    <2>2. 0 \in 0..N
      BY <1>3
    <2> HIDE DEF Past, Met
    <2> QED
      BY <1>8, <2>1, <2>2
  <1>12. \A k \in 1..N : k - 1 \in Good => k \in Good
    <2>1. SUFFICES ASSUME NEW k \in 1..N, k - 1 \in Good PROVE k \in Good
      OBVIOUS
    <2> DEFINE n == q[k][1]
               e == q[k][2]
               old == EdgeAt(other, n, e)
               entry == LeadingTo(old, new[old.to])
               x == f[k - 1]
               y == f[k]
    <2>2. Whole(x) /\ Past(x, k - 1) /\ Met(x, k - 1)
      BY <2>1
    <2>3. /\ k \in 0..N /\ N \in Nat /\ k <= k
          /\ \A i \in 1..N : i <= k - 1 => i <= k /\ i # k
          /\ \A i \in 1..N : i <= k => i <= k - 1 \/ i = k
      BY <1>3, <2>1
    <2>4. HasEdge(other, n, e) /\ Edge(other, q[k]) = old /\ q[k] = <<n, e>>
      BY <1>4
    <2>5. /\ n \in DOMAIN other /\ old \in EdgeEntries /\ old.to \in DOMAIN other
          /\ NewId(g, old.id) /\ (DenseEdges \/ old.val = e)
      <3>1. n \in DOMAIN other
        BY <2>4 DEF HasEdge
      <3> HIDE DEF n, e
      <3> QED
        BY <1>1, <2>4, <3>1
    <2>6. y = InsertEdge(x, entry, new[n])
      <3>1. y = InsertEdge(x, [Edge(other, q[k]) EXCEPT !.to = new[@]], new[q[k][1]])
        BY <1>8 DEF AddedEdge
      <3>2. [Edge(other, q[k]) EXCEPT !.to = new[@]] = entry
        BY <2>4, Zenon DEF LeadingTo
      <3> QED
        BY <3>1, <3>2
    <2>7. old = EdgeAt(other, q[k][1], q[k][2]) /\ n = q[k][1] /\ e = q[k][2]
      OBVIOUS
    <2> HIDE DEF n, e, old, x, y
    <2>8. /\ new[n] \in DOMAIN g
          /\ entry \in EdgeEntries /\ entry.to \in DOMAIN g
          /\ entry.id = old.id /\ entry.val = old.val
      <3>1. new[n] \in DOMAIN g /\ new[old.to] \in DOMAIN g /\ new[old.to] \in Int
        BY <2>5
      <3>2. \A b \in EdgeEntries, to \in Int :
              /\ LeadingTo(b, to) \in EdgeEntries /\ LeadingTo(b, to).to = to
              /\ LeadingTo(b, to).id = b.id /\ LeadingTo(b, to).val = b.val
        BY LeadingToEntry
      <3> QED
        BY <2>5, <3>1, <3>2
    <2>9. Within(g, x) /\ DOMAIN x = DOMAIN g
      BY <2>2
    <2>10. entry = LeadingTo(old, new[old.to])
      OBVIOUS
    <2> HIDE DEF entry
    <2>11. NewId(x, entry.id)
      <3>1. SUFFICES ASSUME NEW m, NEW j, HasEdge(x, m, j) PROVE EdgeAt(x, m, j).id # old.id
        BY <2>8 DEF NewId
      <3>2. CASE HasEdge(g, m, j)
        <4>1. EdgeAt(x, m, j) = EdgeAt(g, m, j)
          BY <2>9, <3>2 DEF Within
        <4> QED
          BY <2>5, <3>2, <4>1 DEF NewId
      <3>3. ASSUME NEW i \in 1..N, i <= k - 1, m = new[q[i][1]], At(x, i, j)
            PROVE  EdgeAt(x, m, j).id # old.id
        <4>1. EdgeAt(x, m, j).id = EdgeAt(other, q[i][1], q[i][2]).id
          <5> HIDE DEF At
          <5> QED
            BY <1>9, <3>3
        <4>2. q[i] # q[k] /\ q[i] = <<q[i][1], q[i][2]>> /\ HasEdge(other, q[i][1], q[i][2])
          BY <1>3, <1>4, <2>3, <3>3
        <4>3. EdgeAt(other, q[i][1], q[i][2]).id # EdgeAt(other, n, e).id
          BY <1>1, <2>4, <4>2 DEF IdsName
        <4> QED
          BY <2>7, <4>1, <4>3
      <3> HIDE DEF At
      <3> QED
        BY <2>2, <3>1, <3>2, <3>3
    <2>12. Whole(y) /\ EdgeOffered(x, y, new[n], entry)
      BY <2>2, <2>6, <2>8, <2>9, <2>11, InsertEdgeInserts
    <2>13. PICK j : HasEdge(y, new[n], j) /\ EdgeAt(y, new[n], j) = entry
      <3>1. PICK j : \/ HasEdge(y, new[n], j) /\ EdgeAt(y, new[n], j) = entry
                     \/ ~DenseEdges /\ HasEdge(x, new[n], j) /\ EdgeAt(x, new[n], j).val = entry.val
        BY <2>12 DEF EdgeOffered
      <3>2. ASSUME ~DenseEdges, HasEdge(x, new[n], j), EdgeAt(x, new[n], j).val = entry.val PROVE FALSE
        <4>1. ~HasEdge(g, new[n], j)
          BY <2>5
        <4>2. PICK i \in 1..N : i <= k - 1 /\ new[n] = new[q[i][1]] /\ At(x, i, j)
          BY <2>2, <3>2, <4>1
        <4>3. EdgeAt(x, new[n], j).val = EdgeAt(other, q[i][1], q[i][2]).val
          <5> HIDE DEF At
          <5> QED
            BY <1>9, <4>2
        <4>4. q[i] # q[k] /\ q[i] = <<q[i][1], q[i][2]>> /\ HasEdge(other, q[i][1], q[i][2])
          BY <1>3, <1>4, <2>3, <4>2
        <4>5. q[i][1] \in DOMAIN other
          BY <4>4 DEF HasEdge
        <4>6. q[i][1] = n
          BY <2>5, <4>2, <4>5
        <4>7. q[i][2] = e
          BY <1>1, <2>5, <2>8, <3>2, <4>3, <4>4
        <4> QED
          BY <2>4, <4>4, <4>6, <4>7
      <3> QED
        BY <3>1, <3>2
    <2>14. At(y, k, j)
      BY <2>7, <2>10, <2>13 DEF Moved
    <2>15. Within(x, y) /\ DOMAIN y = DOMAIN x
      BY <2>12 DEF EdgeOffered
    <2>16. \A i \in 1..N : \A l : At(x, i, l) => At(y, i, l)
      <3> HIDE DEF At
      <3> QED
        BY <1>10, <2>15
    <2>17. ASSUME NEW l, HasEdge(y, new[n], l), EdgeAt(y, new[n], l) = entry PROVE At(y, k, l)
      BY <2>7, <2>10, <2>17 DEF Moved
    <2> HIDE DEF At
    <2>18. Past(y, k)
      <3>1. Within(g, y) /\ DOMAIN y = DOMAIN g
        BY <2>9, <2>15, WithinMore
      <3>2. ASSUME NEW m, NEW l, HasEdge(y, m, l)
            PROVE  \/ HasEdge(g, m, l)
                   \/ \E i \in 1..N : i <= k /\ m = new[q[i][1]] /\ At(y, i, l)
        <4>1. CASE HasEdge(x, m, l)
          BY <2>2, <2>3, <2>16, <4>1
        <4>2. CASE m = new[n] /\ EdgeAt(y, m, l) = entry
          BY <2>3, <2>7, <2>17, <3>2, <4>2
        <4> QED
          BY <2>12, <3>2, <4>1, <4>2 DEF EdgeOffered
      <3> QED
        BY <3>1, <3>2
    <2>19. Met(y, k)
      BY <2>2, <2>3, <2>14, <2>16
    <2> HIDE DEF Past, Met
    <2> QED
      BY <2>3, <2>12, <2>18, <2>19 DEF y
  <1>13. N \in Good
    <2>1. N \in 0..N
      BY <1>3
    <2> HIDE DEF Good, N
    <2> QED
      BY <1>3, <1>11, <1>12, <2>1, RoundInduction
  <1>14. Whole(r) /\ Past(r, N) /\ Met(r, N)
    <2> HIDE DEF Past, Met
    <2> QED
      BY <1>7, <1>13
  <1>15. ASSUME NEW n, NEW e, HasEdge(other, n, e) PROVE \E k : Moved(other, r, new, n, e, k)
    <2>1. <<n, e>> \in EdgeIxs(other) /\ <<n, e>>[1] = n /\ <<n, e>>[2] = e
      BY <1>15, EdgeIxsSeen
    <2>2. PICK i \in 1..N : q[i] = <<n, e>>
      BY <1>3, <2>1
    <2>3. i <= N
      BY <1>3
    <2>4. \E k : At(r, i, k)
      <3> HIDE DEF At
      <3> QED
        BY <1>14, <2>3
    <2> QED
      BY <2>1, <2>2, <2>4
  <1>16. ASSUME NEW m, NEW k, HasEdge(r, m, k), ~HasEdge(g, m, k)
         PROVE  \E n, e : HasEdge(other, n, e) /\ m = new[n] /\ Moved(other, r, new, n, e, k)
    <2>1. PICK i \in 1..N : m = new[q[i][1]] /\ At(r, i, k)
      <3> HIDE DEF At
      <3> QED
        BY <1>14, <1>16
    <2>2. HasEdge(other, q[i][1], q[i][2])
      BY <1>4
    <2> QED
      BY <2>1, <2>2
  <1> QED
    BY <1>14, <1>15, <1>16 DEF EdgesAdded

(***************************************************************************)
(* h has the nodes and edges of g and those of other, and no more.         *)
(***************************************************************************)
Extended(g, other, h) ==
  \E f, new : NodesAdded(g, other, f, new) /\ EdgesAdded(f, other, h, new)

(***************************************************************************)
(* extend_graph adds to what is there.                                     *)
(***************************************************************************)
LEMMA ExtendGraphExtends ==
  ASSUME NEW g, Whole(g), NEW other, Offered(other), Foreign(g, other),
         NEW r, r = ExtendGraph(g, other)
  PROVE  Whole(r) /\ Within(g, r) /\ Extended(g, other, r)
  <1> DEFINE added == AddNodes(g, other)
             h == added.g
             new == added.new
  <1>1. NodesAdded(g, other, h, new)
    BY AddNodesAdds
  <1>2. r = AddEdges(h, other, new)
    BY DEF ExtendGraph
  <1> HIDE DEF added, h, new
  <1>3. /\ Whole(h) /\ Within(g, h)
        /\ \A n \in DOMAIN other : /\ new[n] \in DOMAIN h /\ new[n] \in Int /\ new[n] \notin DOMAIN g
                                   /\ h[new[n]].val = other[n].val
        /\ \A m, k : HasEdge(h, m, k) => HasEdge(g, m, k) /\ EdgeAt(h, m, k) = EdgeAt(g, m, k)
    BY <1>1 DEF NodesAdded, Within
  <1>4. \A m, k : HasEdge(other, m, k) => NewId(h, EdgeAt(other, m, k).id)
    BY <1>3 DEF Foreign, NewId
  <1>5. \A n \in DOMAIN other : \A k : ~HasEdge(h, new[n], k)
    BY <1>3 DEF HasEdge
  <1>6. \A n, m \in DOMAIN other : new[n] = new[m] => n = m
    BY <1>3 DEF Offered, PayloadsDiffer
  <1>7. Whole(r) /\ EdgesAdded(h, other, r, new)
    BY <1>2, <1>3, <1>4, <1>5, <1>6, AddEdgesAdds
  <1>8. Within(g, r)
    BY <1>3, <1>7, WithinMore DEF EdgesAdded
  <1> QED
    BY <1>1, <1>7, <1>8 DEF Extended

-----------------------------------------------------------------------------
(***************************************************************************)
(* Names that are all different are as many as what they name.             *)
(***************************************************************************)
LEMMA NamesDiffer ==
  ASSUME NEW S, IsFiniteSet(S), NEW name,
         \A x, y \in S : name[x] = name[y] => x = y
  PROVE  Cardinality({name[x] : x \in S}) = Cardinality(S)
  <1> DEFINE T == {name[x] : x \in S}
             f == [x \in S |-> name[x]]
  <1>1. f \in Surjection(S, T) /\ f \in [S -> T]
    BY DEF Surjection
  <1>2. \A x \in S : f[x] = name[x]
    OBVIOUS
  <1>3. DOMAIN f = S
    OBVIOUS
  <1> HIDE DEF f, T
  <1>4. IsInjective(f)
    BY <1>2, <1>3 DEF IsInjective
  <1>5. f \in Injection(S, T)
    BY <1>1, <1>4 DEF Injection
  <1>6. Cardinality(T) = Cardinality(S)
    BY <1>1, <1>5, FS_Surjection
  <1> QED
    BY <1>6 DEF T

(***************************************************************************)
(* The invariant in the words of the model.                                *)
(***************************************************************************)
LEMMA WholeWellFormed ==
  ASSUME NEW g, Whole(g)
  PROVE  /\ WellFormed(g)
         /\ Maintained => \A n \in DOMAIN g : g[n].incoming = {ix \in EdgeIxs(g) : Edge(g, ix).to = n}
  <1>1. Shaped(g) /\ EdgesLead(g) /\ IdsName(g) /\ IndexExact(g)
    BY DEF Whole
  <1>2. g \in Colls(DenseNodes, Int, NodeEntries) /\ (DenseNodes \/ \A n \in DOMAIN g : g[n].val = n)
    BY <1>1 DEF Shaped
  <1>3. Indexed(DenseNodes, g)
    BY <1>2, CollElim, Families DEF Indexed
  <1>4. ASSUME NEW n \in DOMAIN g
        PROVE  g[n].val \in NodeVals /\ Indexed(DenseEdges, g[n].outgoing)
    <2> DEFINE c == g[n].outgoing
    <2>1. g[n].val \in NodeVals /\ c \in Outgoing
      BY <1>1, ShapeElim
    <2> HIDE DEF c
    <2>2. c \in Colls(DenseEdges, Int, EdgeEntries) /\ (DenseEdges \/ \A e \in DOMAIN c : c[e].val = e)
      BY <2>1 DEF Outgoing
    <2>3. Indexed(DenseEdges, c)
      BY <2>2, CollElim, Families DEF Indexed
    <2> QED
      BY <2>1, <2>3 DEF c
  <1>5. ASSUME NEW n \in DOMAIN g, NEW e \in DOMAIN g[n].outgoing
        PROVE  g[n].outgoing[e] \in [val : EdgeVals, to : DOMAIN g, id : EdgeIds]
    <2> DEFINE entry == g[n].outgoing[e]
    <2>1. HasEdge(g, n, e) /\ EdgeAt(g, n, e) = entry
      BY DEF HasEdge, EdgeAt
    <2> HIDE DEF entry
    <2>2. entry \in EdgeEntries /\ entry.to \in DOMAIN g
      BY <1>1, <2>1, ShapeElim DEF EdgesLead
    <2>3. entry \in [val : EdgeVals, to : DOMAIN g, id : EdgeIds]
      BY <2>2 DEF EdgeEntries
    <2> QED
      BY <2>3 DEF entry
  <1>6. Cardinality({Edge(g, ix).id : ix \in EdgeIxs(g)}) = Cardinality(EdgeIxs(g))
    <2> DEFINE S == EdgeIxs(g)
               name == [ix \in S |-> Edge(g, ix).id]
    <2>1. \A ix \in S : name[ix] = Edge(g, ix).id
      OBVIOUS
    <2>2. {name[ix] : ix \in S} = {Edge(g, ix).id : ix \in S}
      OBVIOUS
    <2> HIDE DEF name
    <2>3. ASSUME NEW x \in S, NEW y \in S, name[x] = name[y] PROVE x = y
      <3>1. /\ x = <<x[1], x[2]>> /\ HasEdge(g, x[1], x[2]) /\ Edge(g, x) = EdgeAt(g, x[1], x[2])
            /\ y = <<y[1], y[2]>> /\ HasEdge(g, y[1], y[2]) /\ Edge(g, y) = EdgeAt(g, y[1], y[2])
        BY EdgeIxsSeen
      <3>2. EdgeAt(g, x[1], x[2]).id = EdgeAt(g, y[1], y[2]).id
        BY <2>1, <2>3, <3>1
      <3>3. x[1] = y[1] /\ x[2] = y[2]
        BY <1>1, <3>1, <3>2 DEF IdsName
      <3> QED
        BY <3>1, <3>3
    <2>4. IsFiniteSet(S)
      BY <1>1, EdgeIxsFinite
    <2>5. Cardinality({name[ix] : ix \in S}) = Cardinality(S)
      <3> HIDE DEF S
      <3> QED
        BY <2>3, <2>4, NamesDiffer
    <2> QED
      BY <2>2, <2>5
  <1>7. WellFormed(g)
    BY <1>3, <1>4, <1>5, <1>6 DEF WellFormed
  <1>8. ASSUME Maintained, NEW t \in DOMAIN g
        PROVE  g[t].incoming = {ix \in EdgeIxs(g) : Edge(g, ix).to = t}
    <2>1. g[t].incoming \subseteq Int \X Int
      BY <1>1, ShapeElim
    <2>2. \A n, e : <<n, e>> \in g[t].incoming <=> HasEdge(g, n, e) /\ EdgeAt(g, n, e).to = t
      BY <1>1, <1>8 DEF IndexExact, Recorded
    <2>3. ASSUME NEW ix PROVE ix \in g[t].incoming <=> ix \in EdgeIxs(g) /\ Edge(g, ix).to = t
      <3>1. ix \in g[t].incoming \/ ix \in EdgeIxs(g) => ix = <<ix[1], ix[2]>>
        BY <2>1, EdgeIxsSeen
      <3>2. ix = <<ix[1], ix[2]>> =>
              /\ ix \in EdgeIxs(g) <=> HasEdge(g, ix[1], ix[2])
              /\ Edge(g, ix) = EdgeAt(g, ix[1], ix[2])
        BY EdgeIxsSeen
      <3> QED
        BY <2>2, <3>1, <3>2
    <2> QED
      BY <2>3
  <1> QED
    BY <1>7, <1>8

(***************************************************************************)
(* The outcomes of a call: it adds, it removes, or it reverses.            *)
(***************************************************************************)
Grows == Whole(graph') /\ Within(graph, graph') /\ answer'.call # "reverse"

Shrinks == /\ Whole(graph') /\ (DenseNodes \/ DenseEdges \/ OnlyRemoved(graph, graph'))
           /\ answer'.call # "reverse"

Reverses == /\ Whole(graph') /\ Reversed(graph, graph')
            /\ \A n, e : HasEdge(graph, n, e) => KeptOrClashed(graph, graph', n, e)
            /\ answer'.call = "reverse"

(***************************************************************************)
(* A payload that can be inserted is new.                                  *)
(***************************************************************************)
LEMMA NewPayload ==
  ASSUME Whole(graph), NEW v, InsertNodeCall(v), CanInsert(DenseNodes, graph, v)
  PROVE  ~Holds(graph, v)
  <1>1. SUFFICES ASSUME NEW n \in DOMAIN graph, graph[n].val = v PROVE FALSE
    BY DEF Holds
  <1>2. CASE DenseNodes
    BY <1>1, <1>2 DEF InsertNodeCall, Nodes, NodeVal
  <1>3. CASE ~DenseNodes
    <2>1. v \notin DOMAIN graph
      BY <1>3 DEF CanInsert
    <2>2. graph[n].val = n
      BY <1>1, <1>3 DEF Whole, Shaped
    <2> QED
      BY <1>1, <2>1, <2>2
  <1> QED
    BY <1>2, <1>3, Families

(***************************************************************************)
(* The calls that add.                                                     *)
(***************************************************************************)
LEMMA InsertNodeCallGrows ==
  ASSUME Whole(graph), NEW v \in NodeVals, InsertNodeCall(v)
  PROVE  Grows
  <1>1. answer'.call # "reverse"
    BY DEF InsertNodeCall, Answer
  <1>2. CASE CanInsert(DenseNodes, graph, v)
    <2>1. graph' = InsertNode(graph, v)
      BY <1>2 DEF InsertNodeCall
    <2>2. ~Holds(graph, v)
      BY <1>2, NewPayload
    <2> QED
      BY <1>1, <1>2, <2>1, <2>2, InsertNodeInserts DEF Grows
  <1>3. CASE ~CanInsert(DenseNodes, graph, v)
    <2>1. graph' = graph
      BY <1>3 DEF InsertNodeCall
    <2> QED
      BY <1>1, <2>1 DEF Grows, Within
  <1> QED
    BY <1>2, <1>3

(***************************************************************************)
(* An id that is not in use is new.                                        *)
(***************************************************************************)
LEMMA InsertEdgeCallOffers ==
  ASSUME Whole(graph), NEW v \in EdgeVals, NEW id \in EdgeIds,
         NEW from \in Nodes, NEW to \in Nodes, InsertEdgeCall(v, id, from, to),
         NEW entry, entry = [val |-> v, to |-> to, id |-> id]
  PROVE  /\ entry \in EdgeEntries /\ NewId(graph, id)
         /\ Whole(graph') /\ EdgeOffered(graph, graph', from, entry)
         /\ EdgePlaced(graph, graph', from, entry)
  <1>1. id \notin Ids /\ graph' = InsertEdge(graph, entry, from)
    BY DEF InsertEdgeCall
  <1>2. from \in DOMAIN graph /\ to \in DOMAIN graph /\ to \in Int
    BY ShapeElim DEF Nodes, Whole
  <1>3. entry \in EdgeEntries /\ entry.to \in DOMAIN graph /\ entry.id = id
    BY <1>2 DEF EdgeEntries
  <1>4. NewId(graph, id)
    <2>1. SUFFICES ASSUME NEW n, NEW e, HasEdge(graph, n, e), EdgeAt(graph, n, e).id = id
                   PROVE  id \in Ids
      BY <1>1 DEF NewId
    <2>2. <<n, e>> \in EdgeIxs(graph) /\ Edge(graph, <<n, e>>) = EdgeAt(graph, n, e)
      BY <2>1, EdgeIxsSeen
    <2> QED
      BY <2>1, <2>2 DEF Ids, EdgeId
  <1>5. /\ Whole(graph') /\ EdgeOffered(graph, graph', from, entry)
        /\ EdgePlaced(graph, graph', from, entry)
    BY <1>1, <1>2, <1>3, <1>4, InsertEdgeInserts
  <1> QED
    BY <1>3, <1>4, <1>5

(***************************************************************************)
(* So an edge is added, or refused.                                        *)
(***************************************************************************)
LEMMA InsertEdgeCallGrows ==
  ASSUME Whole(graph), NEW v \in EdgeVals, NEW id \in EdgeIds,
         NEW from \in Nodes, NEW to \in Nodes, InsertEdgeCall(v, id, from, to)
  PROVE  Grows
  <1> DEFINE entry == [val |-> v, to |-> to, id |-> id]
  <1>1. answer'.call # "reverse"
    BY DEF InsertEdgeCall, Answer
  <1>2. Whole(graph') /\ EdgeOffered(graph, graph', from, entry)
    BY InsertEdgeCallOffers
  <1> HIDE DEF entry
  <1> QED
    BY <1>1, <1>2 DEF Grows, EdgeOffered

(***************************************************************************)
(* extend_graph is called with a graph that shares nothing with this one.  *)
(***************************************************************************)
LEMMA ExtendGraphCallExtends ==
  ASSUME Whole(graph), NEW other \in Others, ExtendGraphCall(other)
  PROVE  /\ Offered(other)
         /\ Whole(graph') /\ Within(graph, graph') /\ Extended(graph, other, graph')
  <1>1. graph' = ExtendGraph(graph, other)
    BY DEF ExtendGraphCall
  <1>2. Offered(other)
    BY OthersAssumption, WellFormedOffered
  <1>3. /\ Contents(other).verts = {other[n].val : n \in DOMAIN other}
        /\ DOMAIN Contents(other).arcs = {Edge(other, ix).id : ix \in EdgeIxs(other)}
    BY DEF Contents, VertsOf, ArcsOf
  <1>4. /\ Contents(other).verts \cap {NodeVal(n) : n \in Nodes} = {}
        /\ DOMAIN Contents(other).arcs \cap Ids = {}
    BY DEF ExtendGraphCall
  <1>5. \A n \in DOMAIN graph : \A m \in DOMAIN other : other[m].val # graph[n].val
    BY <1>3, <1>4 DEF Nodes, NodeVal
  <1>6. ASSUME NEW m, NEW k, HasEdge(other, m, k) PROVE NewId(graph, EdgeAt(other, m, k).id)
    <2>1. SUFFICES ASSUME NEW n, NEW e, HasEdge(graph, n, e),
                          EdgeAt(graph, n, e).id = EdgeAt(other, m, k).id
                   PROVE  FALSE
      BY DEF NewId
    <2>2. /\ <<n, e>> \in EdgeIxs(graph) /\ Edge(graph, <<n, e>>) = EdgeAt(graph, n, e)
          /\ <<m, k>> \in EdgeIxs(other) /\ Edge(other, <<m, k>>) = EdgeAt(other, m, k)
      BY <1>6, <2>1, EdgeIxsSeen
    <2>3. EdgeAt(graph, n, e).id \in Ids
      BY <2>2 DEF Ids, EdgeId
    <2>4. EdgeAt(other, m, k).id \in {Edge(other, ix).id : ix \in EdgeIxs(other)}
      BY <2>2
    <2> QED
      BY <1>3, <1>4, <2>1, <2>3, <2>4
  <1>7. Foreign(graph, other)
    BY <1>5, <1>6 DEF Foreign
  <1> QED
    BY <1>1, <1>2, <1>7, ExtendGraphExtends

(***************************************************************************)
(* So it adds.                                                             *)
(***************************************************************************)
LEMMA ExtendGraphCallGrows ==
  ASSUME Whole(graph), NEW other \in Others, ExtendGraphCall(other)
  PROVE  Grows
  <1>1. answer'.call # "reverse"
    BY DEF ExtendGraphCall, Answer
  <1> QED
    BY <1>1, ExtendGraphCallExtends DEF Grows

(***************************************************************************)
(* The calls that remove.                                                  *)
(***************************************************************************)
LEMMA TakeEdgeCallShrinks ==
  ASSUME Whole(graph), NEW ix \in EdgeIxs(graph), TakeEdgeCall(ix)
  PROVE  Shrinks
  <1>1. answer'.call # "reverse" /\ graph' = TakeEdge(graph, ix)
    BY DEF TakeEdgeCall, Answer
  <1>2. ix = <<ix[1], ix[2]>> /\ HasEdge(graph, ix[1], ix[2])
    BY EdgeIxsSeen
  <1>3. Whole(graph') /\ EdgeTaken(graph, graph', ix[1], ix[2])
    BY <1>1, <1>2, TakeEdgeTakes
  <1>4. DenseEdges \/ OnlyRemoved(graph, graph')
    BY <1>3 DEF EdgeTaken, OnlyRemoved
  <1> QED
    BY <1>1, <1>3, <1>4 DEF Shrinks

(***************************************************************************)
(* A node goes with its edges.                                             *)
(***************************************************************************)
LEMMA TakeNodeCallShrinks ==
  ASSUME Whole(graph), NEW n \in Nodes, TakeNodeCall(n)
  PROVE  Shrinks
  <1>1. answer'.call # "reverse" /\ graph' = TakeNode(graph, n) /\ n \in DOMAIN graph
    BY DEF TakeNodeCall, Answer, Nodes
  <1>2. Whole(graph') /\ NodeTaken(graph, graph', n)
    BY <1>1, TakeNodeTakes
  <1> QED
    BY <1>1, <1>2, NodeTakenSeen DEF Shrinks

(***************************************************************************)
(* A batch.                                                                *)
(***************************************************************************)
LEMMA TakeNodesEdgesCallShrinks ==
  ASSUME Whole(graph), NEW ns, ns \subseteq Nodes, NEW ixs, ixs \subseteq EdgeIxs(graph),
         TakeNodesEdgesCall(ns, ixs)
  PROVE  Shrinks
  <1>1. /\ answer'.call # "reverse" /\ graph' = TakeNodesEdges(graph, ns, ixs)
        /\ ns \subseteq DOMAIN graph
    BY DEF TakeNodesEdgesCall, Answer, Nodes
  <1> QED
    BY <1>1, TakeNodesEdgesTakes DEF Shrinks, TakenBoth

(***************************************************************************)
(* reverse.                                                                *)
(***************************************************************************)
LEMMA ReverseCallReverses ==
  ASSUME Whole(graph), NEW order \in DrainOrders(graph), ReverseCall(order)
  PROVE  Reverses
  <1>1. graph' = ReverseEdges(graph, order) /\ answer'.call = "reverse"
    BY DEF ReverseCall, Answer
  <1> QED
    BY <1>1, ReverseEdgesReverses DEF Reverses

(***************************************************************************)
(* What the steps do to the graph, in or out of a scope.  The nodes that a *)
(* scope gives to a removal are live, because those it has handed out are. *)
(***************************************************************************)
LEMMA StepsOfTheGraph ==
  ASSUME Whole(graph), LiveUntilReverse, [FacadeNext]_facadeVars
  PROVE  \/ UNCHANGED vars
         \/ Grows
         \/ Shrinks
         \/ Reverses
  <1>1. CASE UNCHANGED facadeVars
    BY <1>1 DEF facadeVars, vars
  <1>2. CASE Next
    <2>1. ASSUME NEW v \in NodeVals, InsertNodeCall(v) PROVE Grows
      BY <2>1, InsertNodeCallGrows
    <2>2. ASSUME NEW v \in EdgeVals, NEW id \in EdgeIds, NEW from \in Nodes, NEW to \in Nodes,
                 InsertEdgeCall(v, id, from, to)
          PROVE  Grows
      BY <2>2, InsertEdgeCallGrows
    <2>3. ASSUME NEW ix \in EdgeIxs(graph), TakeEdgeCall(ix) PROVE Shrinks
      BY <2>3, TakeEdgeCallShrinks
    <2>4. ASSUME NEW n \in Nodes, TakeNodeCall(n) PROVE Shrinks
      BY <2>4, TakeNodeCallShrinks
    <2>5. ASSUME NEW ns \in SUBSET Nodes, NEW ixs \in SUBSET EdgeIxs(graph),
                 TakeNodesEdgesCall(ns, ixs)
          PROVE  Shrinks
      BY <2>5, TakeNodesEdgesCallShrinks
    <2>6. ASSUME NEW order \in DrainOrders(graph), ReverseCall(order) PROVE Reverses
      BY <2>6, ReverseCallReverses
    <2> QED
      BY <1>2, <2>1, <2>2, <2>3, <2>4, <2>5, <2>6 DEF Next
  <1>3. ASSUME NEW other \in Others, ExtendGraphCall(other) PROVE Grows
    BY <1>3, ExtendGraphCallGrows
  <1>4. ASSUME NEW v \in NodeVals, GetOrInsertNodeCall(v) PROVE Grows
    <2>1. CASE UNCHANGED graph /\ answer' = Answer("get", <<v>>, <<NodeVal(v)>>)
      BY <2>1 DEF Grows, Within, Answer
    <2>2. CASE InsertNodeCall(v)
      BY <2>2, InsertNodeCallGrows
    <2> QED
      BY <1>4, <2>1, <2>2 DEF GetOrInsertNodeCall
  <1>5. CASE OpenScope \/ CloseScope \/ ScopedTakeTwice
    BY <1>5 DEF OpenScope, CloseScope, ScopedTakeTwice
  <1>6. ASSUME NEW v \in NodeVals, ScopedInsertNode(v) PROVE Grows
    BY <1>6, InsertNodeCallGrows DEF ScopedInsertNode
  <1>7. ASSUME NEW v \in EdgeVals, NEW id \in EdgeIds, NEW from \in Nodes, NEW to \in Nodes,
               ScopedInsertEdge(v, id, from, to)
        PROVE  Grows
    BY <1>7, InsertEdgeCallGrows DEF ScopedInsertEdge
  <1>8. ASSUME NEW other \in Others, ScopedExtend(other) PROVE Grows
    BY <1>3, <1>8 DEF ScopedExtend
  <1>9. ASSUME NEW order \in DrainOrders(graph), ScopedReverse(order) PROVE Reverses
    BY <1>9, ReverseCallReverses DEF ScopedReverse
  <1>10. ASSUME ~Closed, NEW ns \in SUBSET DOMAIN scope.nodes,
                NEW ixs \in SUBSET (DOMAIN scope.edges \cap EdgeIxs(graph))
         PROVE  ns \subseteq Nodes /\ ixs \subseteq EdgeIxs(graph)
    BY <1>10 DEF LiveUntilReverse, NodesLive
  <1>11. ASSUME ~Closed, NEW ns \in SUBSET DOMAIN scope.nodes,
                NEW ixs \in SUBSET (DOMAIN scope.edges \cap EdgeIxs(graph)),
                ScopedTakeSingle(ns, ixs)
         PROVE  Shrinks
    <2>1. /\ graph' = TakeSingle(graph, ns, ixs) /\ answer'.call # "reverse"
          /\ Cardinality(ns) <= 1 /\ Cardinality(ixs) <= 1
          /\ ns \subseteq DOMAIN graph /\ ixs \subseteq EdgeIxs(graph)
      BY <1>10, <1>11 DEF ScopedTakeSingle, Answer, Nodes
    <2> QED
      BY <2>1, TakeSingleTakes DEF Shrinks, TakenBoth
  <1>12. ASSUME ~Closed, NEW ns \in SUBSET DOMAIN scope.nodes,
                NEW ixs \in SUBSET (DOMAIN scope.edges \cap EdgeIxs(graph)),
                ScopedTakeBatch(ns, ixs)
         PROVE  Shrinks
    BY <1>10, <1>12, TakeNodesEdgesCallShrinks DEF ScopedTakeBatch
  <1> QED
    BY <1>1, <1>2, <1>3, <1>4, <1>5, <1>6, <1>7, <1>8, <1>9, <1>11, <1>12 DEF FacadeNext

(***************************************************************************)
(* What is live stays so when the graph only grows, and what is listed     *)
(* then is live.                                                           *)
(***************************************************************************)
LEMMA HandOutKeepsLive ==
  ASSUME LiveUntilReverse, ~Closed, Within(graph, graph'), HandOut(scope.since)
  PROVE  LiveUntilReverse'
  <1> DEFINE ns == scope.nodes
             es == scope.since
  <1>1. /\ scope'.nodes = Joined(ns, [n \in Nodes' |-> NodeVal(n)'])
        /\ scope'.since = Joined(es, [ix \in EdgeIxs(graph') |-> EdgeId(ix)'])
    BY DEF HandOut, ListedNodes, ListedEdges
  <1>2. /\ \A n \in DOMAIN ns : n \in DOMAIN graph /\ graph[n].val = ns[n]
        /\ \A ix \in DOMAIN es : ix \in EdgeIxs(graph) /\ Edge(graph, ix).id = es[ix]
    BY DEF LiveUntilReverse, NodesLive, EdgesLive, Nodes, NodeVal, EdgeId
  <1>3. \A ix \in EdgeIxs(graph) : ix \in EdgeIxs(graph') /\ Edge(graph', ix) = Edge(graph, ix)
    <2>1. SUFFICES ASSUME NEW ix \in EdgeIxs(graph)
                   PROVE  ix \in EdgeIxs(graph') /\ Edge(graph', ix) = Edge(graph, ix)
      OBVIOUS
    <2>2. /\ ix = <<ix[1], ix[2]>> /\ HasEdge(graph, ix[1], ix[2])
          /\ Edge(graph, ix) = EdgeAt(graph, ix[1], ix[2])
      BY EdgeIxsSeen
    <2>3. HasEdge(graph', ix[1], ix[2]) /\ EdgeAt(graph', ix[1], ix[2]) = EdgeAt(graph, ix[1], ix[2])
      BY <2>2 DEF Within
    <2>4. /\ <<ix[1], ix[2]>> \in EdgeIxs(graph')
          /\ Edge(graph', <<ix[1], ix[2]>>) = EdgeAt(graph', ix[1], ix[2])
      BY <2>3, EdgeIxsSeen
    <2> QED
      BY <2>2, <2>3, <2>4
  <1>4. \A n \in DOMAIN scope'.nodes : n \in DOMAIN graph' /\ graph'[n].val = scope'.nodes[n]
    BY <1>1, <1>2 DEF Joined, Within, Nodes, NodeVal
  <1>5. \A ix \in DOMAIN scope'.since : ix \in EdgeIxs(graph') /\ Edge(graph', ix).id = scope'.since[ix]
    BY <1>1, <1>2, <1>3 DEF Joined, EdgeId
  <1> QED
    BY <1>4, <1>5 DEF LiveUntilReverse, NodesLive, EdgesLive, Nodes, NodeVal, EdgeId

(***************************************************************************)
(* The scope after every step.                                             *)
(***************************************************************************)
LEMMA ScopeStaysLive ==
  ASSUME Whole(graph), LiveUntilReverse, [FacadeNext]_facadeVars
  PROVE  LiveUntilReverse'
  <1>1. CASE UNCHANGED facadeVars
    BY <1>1 DEF facadeVars, LiveUntilReverse, NodesLive, EdgesLive, Closed, Nodes, NodeVal, EdgeId
  <1>2. CASE Closed /\ UNCHANGED scope
    BY <1>2 DEF LiveUntilReverse, Closed
  <1>3. CASE OpenScope
    BY <1>3
       DEF OpenScope, ListedNodes, ListedEdges, LiveUntilReverse, NodesLive, EdgesLive, vars, Nodes, NodeVal, EdgeId
  <1>4. CASE scope' = NoScope
    BY <1>4 DEF LiveUntilReverse, Closed
  <1>5. ASSUME NEW v \in NodeVals, ScopedInsertNode(v) PROVE LiveUntilReverse'
    BY <1>5, InsertNodeCallGrows, HandOutKeepsLive DEF ScopedInsertNode, Grows
  <1>6. ASSUME NEW v \in EdgeVals, NEW id \in EdgeIds, NEW from \in Nodes, NEW to \in Nodes,
               ScopedInsertEdge(v, id, from, to)
        PROVE  LiveUntilReverse'
    BY <1>6, InsertEdgeCallGrows, HandOutKeepsLive DEF ScopedInsertEdge, Grows
  <1>7. ASSUME NEW other \in Others, ScopedExtend(other) PROVE LiveUntilReverse'
    BY <1>7, ExtendGraphCallGrows, HandOutKeepsLive DEF ScopedExtend, Grows
  <1>8. ASSUME NEW order \in DrainOrders(graph), ScopedReverse(order) PROVE LiveUntilReverse'
    <2>1. Reversed(graph, graph')
      BY <1>8, ReverseCallReverses DEF ScopedReverse, Reverses
    <2>2. DOMAIN graph' = DOMAIN graph /\ \A n \in DOMAIN graph : graph'[n].val = graph[n].val
      BY <2>1 DEF Reversed
    <2>3. /\ scope'.nodes = Joined(scope.nodes, [n \in Nodes' |-> NodeVal(n)'])
          /\ scope'.since = Joined(<<>>, [ix \in EdgeIxs(graph') |-> EdgeId(ix)'])
      BY <1>8 DEF ScopedReverse, HandOut, ListedNodes, ListedEdges
    <2>4. \A n \in DOMAIN scope.nodes : n \in DOMAIN graph /\ graph[n].val = scope.nodes[n]
      BY <1>8 DEF LiveUntilReverse, NodesLive, ScopedReverse, Nodes, NodeVal
    <2>5. \A n \in DOMAIN scope'.nodes : n \in DOMAIN graph' /\ graph'[n].val = scope'.nodes[n]
      BY <2>2, <2>3, <2>4 DEF Joined, Nodes, NodeVal
    <2>6. \A ix \in DOMAIN scope'.since :
            ix \in EdgeIxs(graph') /\ Edge(graph', ix).id = scope'.since[ix]
      BY <2>3 DEF Joined, EdgeId
    <2> QED
      BY <2>5, <2>6 DEF LiveUntilReverse, NodesLive, EdgesLive, Nodes, NodeVal, EdgeId
  <1>9. CASE CloseScope \/ ScopedTakeTwice
    BY <1>4, <1>9 DEF CloseScope, ScopedTakeTwice, EndScope
  <1>10. ASSUME NEW ns, NEW ixs, ScopedTakeSingle(ns, ixs) \/ ScopedTakeBatch(ns, ixs)
         PROVE  LiveUntilReverse'
    BY <1>4, <1>10 DEF ScopedTakeSingle, ScopedTakeBatch, EndScope
  <1> QED
    BY <1>1, <1>2, <1>3, <1>5, <1>6, <1>7, <1>8, <1>9, <1>10 DEF FacadeNext

(***************************************************************************)
(* The inductive invariant of the facade.                                  *)
(***************************************************************************)
FacadeInv == Whole(graph) /\ LiveUntilReverse

(***************************************************************************)
(* It holds at first.                                                      *)
(***************************************************************************)
LEMMA FacadeInvInit ==
  FacadeInit => FacadeInv
  <1>1. SUFFICES ASSUME FacadeInit PROVE Whole(graph) /\ LiveUntilReverse
    BY DEF FacadeInv
  <1>2. graph = <<>> /\ scope = NoScope
    BY <1>1 DEF FacadeInit, Init
  <1>3. <<>> \in Colls(DenseNodes, Int, NodeEntries) /\ DOMAIN <<>> = {}
    BY CollEmpty
  <1>4. Shaped(graph) /\ DOMAIN graph = {}
    BY <1>2, <1>3 DEF Shaped
  <1>5. \A n, e : ~HasEdge(graph, n, e)
    BY <1>4 DEF HasEdge
  <1>6. Whole(graph)
    BY <1>4, <1>5 DEF Whole, EdgesLead, IdsName, IndexExact, PayloadsDiffer
  <1> QED
    BY <1>2, <1>6 DEF LiveUntilReverse, Closed

(***************************************************************************)
(* It holds on.                                                            *)
(***************************************************************************)
LEMMA FacadeInvNext ==
  FacadeInv /\ [FacadeNext]_facadeVars => FacadeInv'
  <1>1. SUFFICES ASSUME Whole(graph), LiveUntilReverse, [FacadeNext]_facadeVars
                 PROVE  Whole(graph') /\ LiveUntilReverse'
    BY DEF FacadeInv
  <1>2. Whole(graph')
    BY <1>1, StepsOfTheGraph DEF vars, Grows, Shrinks, Reverses
  <1>3. LiveUntilReverse'
    BY <1>1, ScopeStaysLive
  <1> QED
    BY <1>2, <1>3

(***************************************************************************)
(* The collections are what every call relies on, and the reverse index is *)
(* exact, in whichever profile and whatever is inserted, taken, reversed   *)
(* or extended, in or out of a scope.                                      *)
(***************************************************************************)
THEOREM FlatIndexExact == FacadeSpec => []Consistent
  <1>1. FacadeInv => Consistent
    BY WholeWellFormed DEF FacadeInv, Consistent, TypeOK, ReverseIndexExact, Nodes
  <1> QED
    BY <1>1, FacadeInvInit, FacadeInvNext, PTL DEF FacadeSpec

(***************************************************************************)
(* What a scope has handed out may be used unchecked: a node until the     *)
(* scope ends, an edge until it ends or reverses the graph.                *)
(***************************************************************************)
THEOREM ScopesLiveUntilReverse == FacadeSpec => []LiveUntilReverse
  <1>1. FacadeInv => LiveUntilReverse
    BY DEF FacadeInv
  <1> QED
    BY <1>1, FacadeInvInit, FacadeInvNext, PTL DEF FacadeSpec

(***************************************************************************)
(* With maps at both levels an index that stays valid stays the index of   *)
(* the same edge with the same ends, in every call but reverse             *)
(* (StableNode, StableEdge).                                               *)
(***************************************************************************)
THEOREM IndicesStable ==
  ASSUME ~DenseNodes, ~DenseEdges
  PROVE  FacadeSpec => StableUnlessReversed
  <1> DEFINE Stable == answer'.call # "reverse" =>
               \A ix \in EdgeIxs(graph) \cap EdgeIxs(graph') : Edge(graph', ix) = Edge(graph, ix)
  <1>1. ASSUME FacadeInv, [FacadeNext]_facadeVars PROVE [Stable]_vars
    <2>1. UNCHANGED vars \/ Grows \/ Shrinks \/ Reverses
      BY <1>1, StepsOfTheGraph DEF FacadeInv
    <2>2. CASE Reverses
      BY <2>2 DEF Reverses
    <2>3. CASE Grows \/ Shrinks
      <3>1. \A n, e : HasEdge(graph, n, e) /\ HasEdge(graph', n, e)
                        => EdgeAt(graph', n, e) = EdgeAt(graph, n, e)
        BY <2>3 DEF Grows, Shrinks, Within, OnlyRemoved
      <3>2. SUFFICES ASSUME NEW ix, ix \in EdgeIxs(graph), ix \in EdgeIxs(graph')
                     PROVE  Edge(graph', ix) = Edge(graph, ix)
        OBVIOUS
      <3>3. /\ HasEdge(graph, ix[1], ix[2]) /\ Edge(graph, ix) = EdgeAt(graph, ix[1], ix[2])
            /\ HasEdge(graph', ix[1], ix[2]) /\ Edge(graph', ix) = EdgeAt(graph', ix[1], ix[2])
        BY <3>2, EdgeIxsSeen
      <3> QED
        BY <3>1, <3>3
    <2>4. CASE UNCHANGED vars
      BY <2>4
    <2> QED
      BY <2>1, <2>2, <2>3, <2>4
  <1>2. StableUnlessReversed <=> [][Stable]_vars
    BY DEF StableUnlessReversed
  <1> HIDE DEF Stable
  <1> QED
    BY <1>1, <1>2, FacadeInvInit, FacadeInvNext, PTL DEF FacadeSpec

(***************************************************************************)
(* reverse, which drops what it cannot put back without saying so, drops   *)
(* only an edge in whose place one of equal key is kept, and keeps the     *)
(* others with their ends exchanged.                                       *)
(***************************************************************************)
THEOREM ReverseKeeps == FacadeSpec => ReverseLosesOnlyClashes
  <1> DEFINE Keeps == answer'.call = "reverse" =>
               \A ix \in EdgeIxs(graph) : \E jx \in EdgeIxs(graph) :
                 /\ Edge(graph, jx).val = Edge(graph, ix).val
                 /\ Edge(graph, jx).to = Edge(graph, ix).to
                 /\ KeptBy(EdgeId(jx), jx)
  <1>1. ASSUME FacadeInv, [FacadeNext]_facadeVars PROVE [Keeps]_vars
    <2>1. UNCHANGED vars \/ Grows \/ Shrinks \/ Reverses
      BY <1>1, StepsOfTheGraph DEF FacadeInv
    <2>2. CASE UNCHANGED vars
      BY <2>2
    <2>3. CASE Grows \/ Shrinks
      BY <2>3 DEF Grows, Shrinks
    <2>4. CASE Reverses
      <3>1. SUFFICES ASSUME NEW ix \in EdgeIxs(graph)
                     PROVE  \E jx \in EdgeIxs(graph) :
                              /\ Edge(graph, jx).val = Edge(graph, ix).val
                              /\ Edge(graph, jx).to = Edge(graph, ix).to
                              /\ KeptBy(EdgeId(jx), jx)
        OBVIOUS
      <3> DEFINE n == ix[1]
                 e == ix[2]
      <3>2. HasEdge(graph, n, e) /\ Edge(graph, ix) = EdgeAt(graph, n, e)
        BY <3>1, EdgeIxsSeen
      <3> HIDE DEF n, e
      <3>3. KeptOrClashed(graph, graph', n, e)
        BY <2>4, <3>2 DEF Reverses
      <3>4. PICK m, k : /\ HasEdge(graph, m, k)
                        /\ EdgeAt(graph, m, k).val = EdgeAt(graph, n, e).val
                        /\ EdgeAt(graph, m, k).to = EdgeAt(graph, n, e).to
                        /\ Kept(graph, graph', m, k)
                        /\ DenseEdges => m = n /\ k = e
        BY <3>3 DEF KeptOrClashed
      <3> DEFINE jx == <<m, k>>
                 old == EdgeAt(graph, m, k)
      <3>5. jx \in EdgeIxs(graph) /\ Edge(graph, jx) = old /\ jx[1] = m
        BY <3>4, EdgeIxsSeen
      <3>6. PICK j : HasEdge(graph', old.to, j) /\ EdgeAt(graph', old.to, j) = LeadingTo(old, m)
        BY <3>4 DEF Kept
      <3>7. old \in EdgeEntries /\ m \in Int
        BY <1>1, <3>4, ShapeElim DEF FacadeInv, Whole
      <3> DEFINE back == <<old.to, j>>
      <3>8. /\ back \in EdgeIxs(graph') /\ back[1] = old.to
            /\ Edge(graph', back) = EdgeAt(graph', old.to, j)
        BY <3>6, EdgeIxsSeen
      <3> HIDE DEF jx, old, back
      <3>9. Edge(graph', back).id = old.id /\ Edge(graph', back).to = m
        <4>1. LeadingTo(old, m).id = old.id /\ LeadingTo(old, m).to = m
          BY <3>7, LeadingToEntry
        <4> QED
          BY <3>6, <3>8, <4>1
      <3>10. KeptBy(EdgeId(jx), jx)
        BY <3>5, <3>8, <3>9 DEF KeptBy, EdgeId
      <3> QED
        BY <3>2, <3>4, <3>5, <3>10 DEF old
    <2> QED
      BY <2>1, <2>2, <2>3, <2>4
  <1>2. ReverseLosesOnlyClashes <=> [][Keeps]_vars
    BY DEF ReverseLosesOnlyClashes
  <1> HIDE DEF Keeps
  <1> QED
    BY <1>1, <1>2, FacadeInvInit, FacadeInvNext, PTL DEF FacadeSpec

-----------------------------------------------------------------------------
(***************************************************************************)
(* The graph that the collections stand for.  f says of the edge id that   *)
(* it leads from a to b.                                                   *)
(***************************************************************************)
Says(f, id, a, b) == id \in DOMAIN f /\ f[id] = <<a, b>>

IsArcs(f) == /\ f = [id \in DOMAIN f |-> f[id]]
             /\ \A id \in DOMAIN f : \E a, b : f[id] = <<a, b>>

(***************************************************************************)
(* Two that say the same are the same.                                     *)
(***************************************************************************)
LEMMA SameArcs ==
  ASSUME NEW f, IsArcs(f), NEW h, IsArcs(h), \A id, a, b : Says(f, id, a, b) <=> Says(h, id, a, b)
  PROVE  f = h
  <1>1. ASSUME NEW id \in DOMAIN f PROVE id \in DOMAIN h /\ h[id] = f[id]
    <2>1. PICK a, b : f[id] = <<a, b>>
      BY DEF IsArcs
    <2>2. Says(h, id, a, b)
      BY <2>1 DEF Says
    <2> QED
      BY <2>1, <2>2 DEF Says
  <1>2. ASSUME NEW id \in DOMAIN h PROVE id \in DOMAIN f
    <2>1. PICK a, b : h[id] = <<a, b>>
      BY DEF IsArcs
    <2>2. Says(f, id, a, b)
      BY <2>1 DEF Says
    <2> QED
      BY <2>2 DEF Says
  <1>3. DOMAIN f = DOMAIN h
    BY <1>1, <1>2
  <1> QED
    BY <1>1, <1>3 DEF IsArcs

(***************************************************************************)
(* What they stand for is what can be seen by payload and by id.           *)
(***************************************************************************)
LEMMA StandsFor ==
  ASSUME NEW g, EdgesLead(g), IdsName(g)
  PROVE  /\ \A x : x \in VertsOf(g) <=> Holds(g, x)
         /\ IsArcs(ArcsOf(g))
         /\ \A id, a, b : Says(ArcsOf(g), id, a, b) <=> Joins(g, id, a, b)
  <1> DEFINE f == ArcsOf(g)
             A(n) == ValAt(g, n)
  <1>1. \A x : x \in VertsOf(g) <=> Holds(g, x)
    BY DEF VertsOf, Holds
  <1>2. \A id : id \in DOMAIN f <=> \E ix \in EdgeIxs(g) : Edge(g, ix).id = id
    BY DEF ArcsOf
  <1>3. \A id \in DOMAIN f : f[id] = <<A(ById(g, id)[1]), A(Edge(g, ById(g, id)).to)>>
    BY DEF ArcsOf
  <1>4. f = [id \in DOMAIN f |-> f[id]]
    BY DEF ArcsOf
  <1> HIDE DEF f, A
  <1>5. IsArcs(f)
    BY <1>3, <1>4 DEF IsArcs
  <1>6. \A n \in DOMAIN g : A(n) = g[n].val
    BY DEF ValAt, A
  <1>7. ASSUME NEW n, NEW e, HasEdge(g, n, e)
        PROVE  LET id == EdgeAt(g, n, e).id IN
               id \in DOMAIN f /\ f[id] = <<g[n].val, g[EdgeAt(g, n, e).to].val>>
    <2> DEFINE id == EdgeAt(g, n, e).id
               ix == ById(g, id)
    <2>1. <<n, e>> \in EdgeIxs(g) /\ Edge(g, <<n, e>>) = EdgeAt(g, n, e)
      BY <1>7, EdgeIxsSeen
    <2>2. id \in DOMAIN f
      BY <1>2, <2>1
    <2>3. ix \in EdgeIxs(g) /\ Edge(g, ix).id = id
      BY <2>1 DEF ById
    <2> HIDE DEF ix
    <2>4. ix = <<ix[1], ix[2]>> /\ HasEdge(g, ix[1], ix[2]) /\ Edge(g, ix) = EdgeAt(g, ix[1], ix[2])
      BY <2>3, EdgeIxsSeen
    <2>5. ix[1] = n /\ ix[2] = e
      BY <1>7, <2>3, <2>4 DEF IdsName
    <2>6. n \in DOMAIN g /\ EdgeAt(g, n, e).to \in DOMAIN g
      BY <1>7 DEF EdgesLead, HasEdge
    <2>7. f[id] = <<A(n), A(EdgeAt(g, n, e).to)>>
      BY <1>3, <2>2, <2>4, <2>5 DEF ix
    <2> QED
      BY <1>6, <2>2, <2>6, <2>7
  <1>8. ASSUME NEW id, NEW a, NEW b, Joins(g, id, a, b) PROVE Says(f, id, a, b)
    <2>1. PICK n, e : /\ HasEdge(g, n, e) /\ EdgeAt(g, n, e).id = id
                      /\ g[n].val = a /\ g[EdgeAt(g, n, e).to].val = b
      BY <1>8 DEF Joins
    <2> QED
      BY <1>7, <2>1 DEF Says
  <1>9. ASSUME NEW id, NEW a, NEW b, Says(f, id, a, b) PROVE Joins(g, id, a, b)
    <2>1. PICK ix \in EdgeIxs(g) : Edge(g, ix).id = id
      BY <1>2, <1>9 DEF Says
    <2>2. HasEdge(g, ix[1], ix[2]) /\ Edge(g, ix) = EdgeAt(g, ix[1], ix[2])
      BY EdgeIxsSeen
    <2>3. f[id] = <<g[ix[1]].val, g[EdgeAt(g, ix[1], ix[2]).to].val>>
      BY <1>7, <2>1, <2>2
    <2>4. g[ix[1]].val = a /\ g[EdgeAt(g, ix[1], ix[2]).to].val = b
      BY <1>9, <2>3 DEF Says
    <2> QED
      BY <2>1, <2>2, <2>4 DEF Joins
  <1> QED
    BY <1>1, <1>5, <1>8, <1>9 DEF f

(***************************************************************************)
(* When the interface's edges are without those of I and of V.             *)
(***************************************************************************)
WithoutArcs(f, V, I) ==
  [id \in {k \in DOMAIN f : k \notin I /\ \A i \in 1..2 : f[k][i] \notin V} |-> f[id]]

(***************************************************************************)
(* A graph that says only that is so.                                      *)
(***************************************************************************)
LEMMA ArcsLost ==
  ASSUME NEW f, IsArcs(f), NEW h, IsArcs(h), NEW V, NEW I,
         \A id, a, b : Says(h, id, a, b) <=> Says(f, id, a, b) /\ id \notin I /\ a \notin V /\ b \notin V
  PROVE  h = WithoutArcs(f, V, I)
  <1> DEFINE D == {k \in DOMAIN f : k \notin I /\ \A i \in 1..2 : f[k][i] \notin V}
             w == [id \in D |-> f[id]]
  <1>1. DOMAIN w = D /\ w = [id \in DOMAIN w |-> w[id]] /\ \A id \in D : w[id] = f[id]
    OBVIOUS
  <1>2. \A a, b : (\A i \in 1..2 : <<a, b>>[i] \notin V) <=> a \notin V /\ b \notin V
    <2>1. \A i : i \in 1..2 <=> i = 1 \/ i = 2
      OBVIOUS
    <2> QED
      BY <2>1
  <1>3. \A id : id \in D <=> id \in DOMAIN f /\ id \notin I /\ \A i \in 1..2 : f[id][i] \notin V
    OBVIOUS
  <1> HIDE DEF w, D
  <1>4. IsArcs(w)
    BY <1>1, <1>3 DEF IsArcs
  <1>5. \A id, a, b : Says(w, id, a, b) <=> Says(f, id, a, b) /\ id \notin I /\ a \notin V /\ b \notin V
    BY <1>1, <1>2, <1>3 DEF Says
  <1>6. h = w
    BY <1>4, <1>5, SameArcs
  <1> QED
    BY <1>6 DEF w, D, WithoutArcs

(***************************************************************************)
(* What they stand for before and after a step.                            *)
(***************************************************************************)
LEMMA StandsForNow ==
  ASSUME Whole(graph), Whole(graph')
  PROVE  /\ \A x : x \in VertsOf(graph) <=> Holds(graph, x)
         /\ \A x : x \in VertsOf(graph') <=> Holds(graph', x)
         /\ IsArcs(ArcsOf(graph)) /\ IsArcs(ArcsOf(graph'))
         /\ \A id, a, b : Says(ArcsOf(graph), id, a, b) <=> Joins(graph, id, a, b)
         /\ \A id, a, b : Says(ArcsOf(graph'), id, a, b) <=> Joins(graph', id, a, b)
  BY StandsFor DEF Whole

(***************************************************************************)
(* Edges that stay where they are join what they joined.                   *)
(***************************************************************************)
LEMMA JoinsOn ==
  ASSUME NEW g, EdgesLead(g), NEW h, Within(g, h), NEW id, NEW a, NEW b, Joins(g, id, a, b)
  PROVE  Joins(h, id, a, b)
  <1>1. PICK n, e : /\ HasEdge(g, n, e) /\ EdgeAt(g, n, e).id = id
                    /\ g[n].val = a /\ g[EdgeAt(g, n, e).to].val = b
    BY DEF Joins
  <1>2. n \in DOMAIN g /\ EdgeAt(g, n, e).to \in DOMAIN g
    BY <1>1 DEF EdgesLead, HasEdge
  <1>3. /\ HasEdge(h, n, e) /\ EdgeAt(h, n, e) = EdgeAt(g, n, e)
        /\ h[n].val = g[n].val /\ h[EdgeAt(g, n, e).to].val = g[EdgeAt(g, n, e).to].val
    BY <1>1, <1>2 DEF Within
  <1> QED
    BY <1>1, <1>3 DEF Joins

(***************************************************************************)
(* insert_node.                                                            *)
(***************************************************************************)
LEMMA InsertNodeCallRefines ==
  ASSUME Whole(graph), Whole(graph'), NEW v \in NodeVals, InsertNodeCall(v)
  PROVE  Abstract!Next
  <1> DEFINE i == IndexOfNew(DenseNodes, graph, v)
  <1>1. /\ graph' = IF CanInsert(DenseNodes, graph, v) THEN InsertNode(graph, v) ELSE graph
        /\ answer' = IF CanInsert(DenseNodes, graph, v)
                       THEN Answer("insert_node", <<v>>, <<graph'[i].val>>)
                       ELSE Answer("reject", <<v>>, <<v>>)
    BY DEF InsertNodeCall
  <1> HIDE DEF i
  <1>2. CASE CanInsert(DenseNodes, graph, v)
    <2>1. ~Holds(graph, v)
      BY <1>2, NewPayload
    <2>2. /\ Within(graph, graph')
          /\ \A m : m \in DOMAIN graph' <=> m \in DOMAIN graph \/ m = i
          /\ graph'[i].val = v
          /\ \A m, k : HasEdge(graph', m, k) <=> HasEdge(graph, m, k)
      BY <1>1, <1>2, <2>1, InsertNodeInserts DEF i
    <2>3. \A x : Holds(graph', x) <=> Holds(graph, x) \/ x = v
      BY <2>2 DEF Holds, Within
    <2>4. EdgesLead(graph)
      BY DEF Whole
    <2>5. ASSUME NEW id, NEW a, NEW b, Joins(graph', id, a, b) PROVE Joins(graph, id, a, b)
      <3>1. PICK n, e : /\ HasEdge(graph', n, e) /\ EdgeAt(graph', n, e).id = id
                        /\ graph'[n].val = a /\ graph'[EdgeAt(graph', n, e).to].val = b
        BY <2>5 DEF Joins
      <3>2. HasEdge(graph, n, e) /\ EdgeAt(graph', n, e) = EdgeAt(graph, n, e)
        BY <2>2, <3>1 DEF Within
      <3>3. n \in DOMAIN graph /\ EdgeAt(graph, n, e).to \in DOMAIN graph
        BY <2>4, <3>2 DEF EdgesLead, HasEdge
      <3> QED
        BY <2>2, <3>1, <3>2, <3>3 DEF Joins, Within
    <2>6. \A id, a, b : Joins(graph', id, a, b) <=> Joins(graph, id, a, b)
      BY <2>2, <2>4, <2>5, JoinsOn
    <2>7. ArcsOf(graph') = ArcsOf(graph)
      BY <2>6, StandsForNow, SameArcs
    <2>8. v \notin VertsOf(graph) /\ VertsOf(graph') = VertsOf(graph) \cup {v}
      BY <2>1, <2>3, StandsForNow
    <2>9. answer' = Answer("insert_node", <<v>>, <<v>>)
      BY <1>1, <1>2, <2>2
    <2>10. Abstract!InsertNode(v)
      BY <2>7, <2>8, <2>9 DEF Abstract!InsertNode, Abstract!Answer, Answer
    <2> QED
      BY <2>10 DEF Abstract!Next
  <1>3. CASE ~CanInsert(DenseNodes, graph, v)
    <2>1. graph' = graph /\ answer' = Answer("reject", <<v>>, <<v>>)
      BY <1>1, <1>3
    <2>2. v \in DOMAIN graph /\ graph[v].val = v
      BY <1>3, Families DEF CanInsert, Whole, Shaped
    <2>3. v \in VertsOf(graph)
      BY <2>2 DEF VertsOf
    <2>4. Abstract!Reject(v)
      BY <2>1, <2>3 DEF Abstract!Reject, Abstract!Answer, Answer
    <2> QED
      BY <2>4 DEF Abstract!Next
  <1> QED
    BY <1>2, <1>3

(***************************************************************************)
(* get_or_insert_node.                                                     *)
(***************************************************************************)
LEMMA GetOrInsertNodeCallRefines ==
  ASSUME Whole(graph), Whole(graph'), NEW v \in NodeVals, GetOrInsertNodeCall(v)
  PROVE  Abstract!Next
  <1>1. CASE InsertNodeCall(v)
    BY <1>1, InsertNodeCallRefines
  <1>2. CASE /\ ~DenseNodes /\ v \in Nodes /\ answer' = Answer("get", <<v>>, <<NodeVal(v)>>)
             /\ UNCHANGED graph
    <2>1. NodeVal(v) = v /\ v \in VertsOf(graph)
      BY <1>2 DEF Whole, Shaped, Nodes, NodeVal, VertsOf
    <2>2. Abstract!Get(v)
      BY <1>2, <2>1 DEF Abstract!Get, Abstract!Answer, Answer
    <2> QED
      BY <2>2 DEF Abstract!Next
  <1> QED
    BY <1>1, <1>2 DEF GetOrInsertNodeCall

(***************************************************************************)
(* f with an edge more.                                                    *)
(***************************************************************************)
WithArc(f, new, from, to) ==
  [e \in DOMAIN f \cup {new} |-> IF e = new THEN <<from, to>> ELSE f[e]]

(***************************************************************************)
(* A graph that says that edge too is so.                                  *)
(***************************************************************************)
LEMMA ArcsAdded ==
  ASSUME NEW f, IsArcs(f), NEW h, IsArcs(h), NEW new, NEW from, NEW to, new \notin DOMAIN f,
         \A id, a, b : Says(h, id, a, b) <=> Says(f, id, a, b) \/ (id = new /\ a = from /\ b = to)
  PROVE  h = WithArc(f, new, from, to)
  <1> DEFINE w == WithArc(f, new, from, to)
  <1>1. /\ \A id : id \in DOMAIN w <=> id \in DOMAIN f \/ id = new
        /\ w = [id \in DOMAIN w |-> w[id]]
        /\ \A id \in DOMAIN f : id # new => w[id] = f[id]
        /\ w[new] = <<from, to>>
    BY DEF WithArc
  <1> HIDE DEF w
  <1>2. IsArcs(w)
    <2>1. ASSUME NEW id \in DOMAIN w PROVE \E a, b : w[id] = <<a, b>>
      <3>1. CASE id = new
        BY <1>1, <3>1
      <3>2. CASE id # new
        <4>1. id \in DOMAIN f /\ w[id] = f[id]
          BY <1>1, <2>1, <3>2
        <4> QED
          BY <4>1 DEF IsArcs
      <3> QED
        BY <3>1, <3>2
    <2> QED
      BY <1>1, <2>1 DEF IsArcs
  <1>3. \A id, a, b : Says(w, id, a, b) <=> Says(f, id, a, b) \/ (id = new /\ a = from /\ b = to)
    <2>1. SUFFICES ASSUME NEW id, NEW a, NEW b
                   PROVE  Says(w, id, a, b) <=> Says(f, id, a, b) \/ (id = new /\ a = from /\ b = to)
      OBVIOUS
    <2>2. CASE id = new
      BY <1>1, <2>2 DEF Says
    <2>3. CASE id # new
      BY <1>1, <2>3 DEF Says
    <2> QED
      BY <2>2, <2>3
  <1>4. h = w
    BY <1>2, <1>3, SameArcs
  <1> QED
    BY <1>4 DEF w

JoinsToo(g, h, id, s, t) ==
  \A x, a, b : Joins(h, x, a, b) <=> Joins(g, x, a, b) \/ (x = id /\ a = s /\ b = t)

(***************************************************************************)
(* In terms of what can be seen of the collections.                        *)
(***************************************************************************)
LEMMA ArcsGain ==
  ASSUME NEW g, EdgesLead(g), IdsName(g), NEW h, EdgesLead(h), IdsName(h),
         NEW id, NEW s, NEW t, id \notin DOMAIN ArcsOf(g), JoinsToo(g, h, id, s, t)
  PROVE  ArcsOf(h) = WithArc(ArcsOf(g), id, s, t)
  <1> DEFINE f == ArcsOf(g)
             k == ArcsOf(h)
  <1>1. IsArcs(f) /\ \A x, a, b : Says(f, x, a, b) <=> Joins(g, x, a, b)
    BY StandsFor
  <1>2. IsArcs(k) /\ \A x, a, b : Says(k, x, a, b) <=> Joins(h, x, a, b)
    BY StandsFor
  <1>3. id \notin DOMAIN f
    OBVIOUS
  <1> HIDE DEF f, k
  <1>4. \A x, a, b : Says(k, x, a, b) <=> Says(f, x, a, b) \/ (x = id /\ a = s /\ b = t)
    BY <1>1, <1>2 DEF JoinsToo
  <1>5. k = WithArc(f, id, s, t)
    BY <1>1, <1>2, <1>3, <1>4, ArcsAdded
  <1> QED
    BY <1>5 DEF f, k

(***************************************************************************)
(* insert_edge, unless the edge is refused.                                *)
(***************************************************************************)
NotRefused == DenseEdges \/ answer'.call # "refuse edge"

(***************************************************************************)
(* The edge is there afterwards, between the nodes it was asked for.       *)
(***************************************************************************)
LEMMA InsertEdgeCallRefines ==
  ASSUME Whole(graph), NEW v \in EdgeVals, NEW id \in EdgeIds,
         NEW from \in Nodes, NEW to \in Nodes, InsertEdgeCall(v, id, from, to), NotRefused
  PROVE  Abstract!Next
  <1> DEFINE entry == [val |-> v, to |-> to, id |-> id]
             e == IndexOfNew(DenseEdges, graph[from].outgoing, v)
             s == graph[from].val
             t == graph[to].val
  <1>1. /\ NewId(graph, id)
        /\ Whole(graph') /\ EdgeOffered(graph, graph', from, entry)
        /\ EdgePlaced(graph, graph', from, entry)
    BY InsertEdgeCallOffers
  <1>2. entry.val = v /\ entry.to = to /\ entry.id = id
    OBVIOUS
  <1>3. answer' = IF CanInsert(DenseEdges, graph[from].outgoing, v)
                    THEN Answer("insert_edge", <<id, s, t>>,
                           <<Edge(graph', <<from, e>>).id, graph[<<from, e>>[1]].val,
                             graph[Edge(graph', <<from, e>>).to].val>>)
                    ELSE Answer("refuse edge", <<v>>, <<v>>)
    BY DEF InsertEdgeCall, NodeVal
  <1> HIDE DEF entry, e
  <1>4. CanInsert(DenseEdges, graph[from].outgoing, v)
    BY <1>3, Families DEF CanInsert, Answer, NotRefused
  <1>5. HasEdge(graph', from, e) /\ EdgeAt(graph', from, e) = entry
    BY <1>1, <1>2, <1>4 DEF EdgePlaced, e
  <1>6. answer' = Answer("insert_edge", <<id, s, t>>, <<id, s, t>>)
    <2>1. Edge(graph', <<from, e>>) = entry /\ <<from, e>>[1] = from
      BY <1>5, EdgeIxsSeen
    <2> QED
      BY <1>2, <1>3, <1>4, <2>1
  <1>7. from \in DOMAIN graph /\ to \in DOMAIN graph
    BY DEF Nodes
  <1>8. /\ Within(graph, graph') /\ DOMAIN graph' = DOMAIN graph
        /\ \A m, k : HasEdge(graph', m, k) =>
             \/ HasEdge(graph, m, k) /\ EdgeAt(graph', m, k) = EdgeAt(graph, m, k)
             \/ m = from /\ EdgeAt(graph', m, k) = entry
    BY <1>1 DEF EdgeOffered
  <1>9. \A n \in DOMAIN graph : graph'[n].val = graph[n].val
    BY <1>8 DEF Within
  <1>10. EdgesLead(graph)
    BY DEF Whole
  <1>11. \A x : Holds(graph', x) <=> Holds(graph, x)
    BY <1>8, <1>9 DEF Holds
  <1>12. ASSUME NEW x, NEW a, NEW b, Joins(graph', x, a, b)
         PROVE  Joins(graph, x, a, b) \/ (x = id /\ a = s /\ b = t)
    <2>1. PICK m, k : /\ HasEdge(graph', m, k) /\ EdgeAt(graph', m, k).id = x
                      /\ graph'[m].val = a /\ graph'[EdgeAt(graph', m, k).to].val = b
      BY <1>12 DEF Joins
    <2>2. CASE HasEdge(graph, m, k) /\ EdgeAt(graph', m, k) = EdgeAt(graph, m, k)
      <3>1. m \in DOMAIN graph /\ EdgeAt(graph, m, k).to \in DOMAIN graph
        BY <1>10, <2>2 DEF EdgesLead, HasEdge
      <3> QED
        BY <1>9, <2>1, <2>2, <3>1 DEF Joins
    <2>3. CASE m = from /\ EdgeAt(graph', m, k) = entry
      BY <1>2, <1>7, <1>9, <2>1, <2>3
    <2> QED
      BY <1>8, <2>1, <2>2, <2>3
  <1>13. Joins(graph', id, s, t)
    <2>1. graph'[from].val = s /\ graph'[to].val = t
      BY <1>7, <1>9
    <2> QED
      BY <1>2, <1>5, <2>1 DEF Joins
  <1>14. \A x, a, b : Joins(graph', x, a, b) <=> Joins(graph, x, a, b) \/ (x = id /\ a = s /\ b = t)
    BY <1>8, <1>10, <1>12, <1>13, JoinsOn
  <1>15. id \notin DOMAIN ArcsOf(graph)
    <2>1. SUFFICES ASSUME id \in DOMAIN ArcsOf(graph) PROVE FALSE
      OBVIOUS
    <2>2. PICK a, b : ArcsOf(graph)[id] = <<a, b>>
      BY <1>1, <2>1, StandsForNow DEF IsArcs
    <2>3. Joins(graph, id, a, b)
      BY <1>1, <2>1, <2>2, StandsForNow DEF Says
    <2> QED
      BY <1>1, <2>3 DEF Joins, NewId
  <1> HIDE DEF s, t
  <1>16. ArcsOf(graph') = WithArc(ArcsOf(graph), id, s, t)
    <2>1. EdgesLead(graph) /\ IdsName(graph) /\ EdgesLead(graph') /\ IdsName(graph')
      BY <1>1 DEF Whole
    <2>2. JoinsToo(graph, graph', id, s, t)
      BY <1>14 DEF JoinsToo
    <2> QED
      BY <1>15, <2>1, <2>2, ArcsGain
  <1>17. s \in VertsOf(graph) /\ t \in VertsOf(graph)
    BY <1>7 DEF VertsOf, s, t
  <1>18. VertsOf(graph') = VertsOf(graph)
    BY <1>1, <1>11, StandsForNow
  <1>19. Abstract!InsertEdge(id, s, t)
    BY <1>6, <1>15, <1>16, <1>17, <1>18 DEF Abstract!InsertEdge, Abstract!Answer, Answer, WithArc
  <1> QED
    BY <1>17, <1>19 DEF Abstract!Next

(***************************************************************************)
(* f, and the edges of g.                                                  *)
(***************************************************************************)
WithArcs(f, g) == [e \in DOMAIN f \cup DOMAIN g |-> IF e \in DOMAIN f THEN f[e] ELSE g[e]]

(***************************************************************************)
(* A graph that says what either says is so.                               *)
(***************************************************************************)
LEMMA ArcsJoined ==
  ASSUME NEW f, IsArcs(f), NEW g, IsArcs(g), NEW h, IsArcs(h),
         \A id \in DOMAIN g : id \notin DOMAIN f,
         \A id, a, b : Says(h, id, a, b) <=> Says(f, id, a, b) \/ Says(g, id, a, b)
  PROVE  h = WithArcs(f, g)
  <1> DEFINE w == WithArcs(f, g)
  <1>1. /\ \A id : id \in DOMAIN w <=> id \in DOMAIN f \/ id \in DOMAIN g
        /\ w = [id \in DOMAIN w |-> w[id]]
        /\ \A id \in DOMAIN f : w[id] = f[id]
        /\ \A id \in DOMAIN g : id \notin DOMAIN f => w[id] = g[id]
    BY DEF WithArcs
  <1> HIDE DEF w
  <1>2. IsArcs(w)
    <2>1. ASSUME NEW id \in DOMAIN w PROVE \E a, b : w[id] = <<a, b>>
      <3>1. CASE id \in DOMAIN f
        BY <1>1, <3>1 DEF IsArcs
      <3>2. CASE id \in DOMAIN g
        BY <1>1, <3>2 DEF IsArcs
      <3> QED
        BY <1>1, <2>1, <3>1, <3>2
    <2> QED
      BY <1>1, <2>1 DEF IsArcs
  <1>3. \A id, a, b : Says(w, id, a, b) <=> Says(f, id, a, b) \/ Says(g, id, a, b)
    BY <1>1 DEF Says
  <1>4. h = w
    BY <1>2, <1>3, SameArcs
  <1> QED
    BY <1>4 DEF w

(***************************************************************************)
(* What both say, and no more.                                             *)
(***************************************************************************)
HoldsBoth(g, other, h) == \A x : Holds(h, x) <=> Holds(g, x) \/ Holds(other, x)

JoinsBoth(g, other, h) ==
  \A id, a, b : Joins(h, id, a, b) <=> Joins(g, id, a, b) \/ Joins(other, id, a, b)

(***************************************************************************)
(* What extend_graph leaves can be seen by payload and by id.              *)
(***************************************************************************)
LEMMA ExtendedSeen ==
  ASSUME NEW g, EdgesLead(g), NEW other, Offered(other), NEW h, Extended(g, other, h)
  PROVE  HoldsBoth(g, other, h) /\ JoinsBoth(g, other, h)
  <1>1. PICK f, new : NodesAdded(g, other, f, new) /\ EdgesAdded(f, other, h, new)
    BY DEF Extended
  <1>2. /\ \A n \in DOMAIN g : n \in DOMAIN h /\ h[n].val = g[n].val
        /\ \A n \in DOMAIN other : new[n] \in DOMAIN h /\ h[new[n]].val = other[n].val
        /\ \A m \in DOMAIN h : m \in DOMAIN g \/ \E n \in DOMAIN other : m = new[n]
    BY <1>1 DEF NodesAdded, EdgesAdded, Within
  <1>3. HoldsBoth(g, other, h)
    BY <1>2 DEF HoldsBoth, Holds
  <1>4. \A m, k : HasEdge(g, m, k) => HasEdge(h, m, k) /\ EdgeAt(h, m, k) = EdgeAt(g, m, k)
    BY <1>1 DEF NodesAdded, EdgesAdded, Within
  <1>5. \A m, k : HasEdge(h, m, k) =>
          \/ HasEdge(g, m, k)
          \/ \E n, e : HasEdge(other, n, e) /\ m = new[n] /\ Moved(other, h, new, n, e, k)
    BY <1>1 DEF NodesAdded, EdgesAdded
  <1>6. \A n, e : HasEdge(other, n, e) => \E k : Moved(other, h, new, n, e, k)
    BY <1>1 DEF EdgesAdded
  <1>7. \A n, e : HasEdge(g, n, e) => n \in DOMAIN g /\ EdgeAt(g, n, e).to \in DOMAIN g
    BY DEF EdgesLead, HasEdge
  <1>8. ASSUME NEW n, NEW e, NEW k, HasEdge(other, n, e), Moved(other, h, new, n, e, k)
        PROVE  /\ EdgeAt(h, new[n], k).id = EdgeAt(other, n, e).id
               /\ h[new[n]].val = other[n].val
               /\ h[EdgeAt(h, new[n], k).to].val = other[EdgeAt(other, n, e).to].val
    <2> DEFINE entry == EdgeAt(other, n, e)
               to == new[entry.to]
    <2>1. entry \in EdgeEntries /\ entry.to \in DOMAIN other /\ n \in DOMAIN other
      BY <1>8 DEF Offered, HasEdge
    <2>2. to \in Int
      BY <1>1, <2>1 DEF NodesAdded
    <2>3. EdgeAt(h, new[n], k) = LeadingTo(entry, to)
      BY <1>8 DEF Moved
    <2> HIDE DEF entry, to
    <2>4. LeadingTo(entry, to).id = entry.id /\ LeadingTo(entry, to).to = to
      BY <2>1, <2>2, LeadingToEntry
    <2> QED
      BY <1>2, <2>1, <2>3, <2>4 DEF entry, to
  <1>9. ASSUME NEW id, NEW a, NEW b, Joins(h, id, a, b)
        PROVE  Joins(g, id, a, b) \/ Joins(other, id, a, b)
    <2>1. PICK m, k : /\ HasEdge(h, m, k) /\ EdgeAt(h, m, k).id = id
                      /\ h[m].val = a /\ h[EdgeAt(h, m, k).to].val = b
      BY <1>9 DEF Joins
    <2>2. CASE HasEdge(g, m, k)
      BY <1>2, <1>4, <1>7, <2>1, <2>2 DEF Joins
    <2>3. ASSUME NEW n, NEW e, HasEdge(other, n, e), m = new[n], Moved(other, h, new, n, e, k)
          PROVE  Joins(other, id, a, b)
      BY <1>8, <2>1, <2>3 DEF Joins
    <2> QED
      BY <1>5, <2>1, <2>2, <2>3
  <1>10. ASSUME NEW id, NEW a, NEW b, Joins(g, id, a, b) PROVE Joins(h, id, a, b)
    <2>1. PICK m, k : /\ HasEdge(g, m, k) /\ EdgeAt(g, m, k).id = id
                      /\ g[m].val = a /\ g[EdgeAt(g, m, k).to].val = b
      BY <1>10 DEF Joins
    <2> QED
      BY <1>2, <1>4, <1>7, <2>1 DEF Joins
  <1>11. ASSUME NEW id, NEW a, NEW b, Joins(other, id, a, b) PROVE Joins(h, id, a, b)
    <2>1. PICK n, e : /\ HasEdge(other, n, e) /\ EdgeAt(other, n, e).id = id
                      /\ other[n].val = a /\ other[EdgeAt(other, n, e).to].val = b
      BY <1>11 DEF Joins
    <2>2. PICK k : Moved(other, h, new, n, e, k)
      BY <1>6, <2>1
    <2>3. HasEdge(h, new[n], k)
      BY <2>2 DEF Moved
    <2> QED
      BY <1>8, <2>1, <2>2, <2>3 DEF Joins
  <1> QED
    BY <1>3, <1>9, <1>10, <1>11 DEF JoinsBoth

(***************************************************************************)
(* So the edges of the interface are those of both.                        *)
(***************************************************************************)
LEMMA ArcsMerge ==
  ASSUME NEW g, EdgesLead(g), IdsName(g), NEW other, EdgesLead(other), IdsName(other),
         NEW h, EdgesLead(h), IdsName(h), JoinsBoth(g, other, h),
         \A id \in DOMAIN ArcsOf(other) : id \notin DOMAIN ArcsOf(g)
  PROVE  ArcsOf(h) = WithArcs(ArcsOf(g), ArcsOf(other))
  <1> DEFINE f == ArcsOf(g)
             o == ArcsOf(other)
             k == ArcsOf(h)
  <1>1. IsArcs(f) /\ \A x, a, b : Says(f, x, a, b) <=> Joins(g, x, a, b)
    BY StandsFor
  <1>2. IsArcs(o) /\ \A x, a, b : Says(o, x, a, b) <=> Joins(other, x, a, b)
    BY StandsFor
  <1>3. IsArcs(k) /\ \A x, a, b : Says(k, x, a, b) <=> Joins(h, x, a, b)
    BY StandsFor
  <1>4. \A id \in DOMAIN o : id \notin DOMAIN f
    OBVIOUS
  <1> HIDE DEF f, o, k
  <1>5. \A x, a, b : Says(k, x, a, b) <=> Says(f, x, a, b) \/ Says(o, x, a, b)
    BY <1>1, <1>2, <1>3 DEF JoinsBoth
  <1>6. k = WithArcs(f, o)
    BY <1>1, <1>2, <1>3, <1>4, <1>5, ArcsJoined
  <1> QED
    BY <1>6 DEF f, o, k

(***************************************************************************)
(* extend_graph.                                                           *)
(***************************************************************************)
LEMMA ExtendGraphCallRefines ==
  ASSUME Whole(graph), NEW other \in Others, ExtendGraphCall(other)
  PROVE  Abstract!Next
  <1> DEFINE more == Contents(other)
             arcs == ArcsOf(graph)
  <1>1. Offered(other) /\ Whole(graph') /\ Extended(graph, other, graph')
    BY ExtendGraphCallExtends
  <1>2. EdgesLead(other) /\ IdsName(other)
    BY <1>1 DEF Offered, EdgesLead
  <1>3. /\ EdgesLead(graph) /\ IdsName(graph)
        /\ EdgesLead(graph') /\ IdsName(graph')
    BY <1>1 DEF Whole
  <1>4. HoldsBoth(graph, other, graph') /\ JoinsBoth(graph, other, graph')
    BY <1>1, <1>3, ExtendedSeen
  <1>5. /\ more.verts \cap VertsOf(graph) = {}
        /\ DOMAIN more.arcs \cap DOMAIN arcs = {}
    <2>1. VertsOf(graph) = {NodeVal(n) : n \in Nodes} /\ DOMAIN arcs = Ids
      BY DEF VertsOf, ArcsOf, NodeVal, Nodes, Ids, EdgeId
    <2> QED
      BY <2>1 DEF ExtendGraphCall
  <1>6. more.verts = VertsOf(other) /\ more.arcs = ArcsOf(other)
    BY DEF Contents
  <1>7. answer' = Answer("extend_graph", more, <<>>)
    BY DEF ExtendGraphCall
  <1> HIDE DEF more
  <1>8. VertsOf(graph') = VertsOf(graph) \cup more.verts
    <2>1. \A x : x \in VertsOf(other) <=> Holds(other, x)
      BY <1>2, StandsFor
    <2> QED
      BY <1>1, <1>4, <1>6, <2>1, StandsForNow DEF HoldsBoth
  <1>9. ArcsOf(graph') = WithArcs(arcs, more.arcs)
    <2>1. \A id \in DOMAIN ArcsOf(other) : id \notin DOMAIN ArcsOf(graph)
      BY <1>5, <1>6
    <2>2. ArcsOf(graph') = WithArcs(ArcsOf(graph), ArcsOf(other))
      BY <1>2, <1>3, <1>4, <2>1, ArcsMerge
    <2> QED
      BY <1>6, <2>2
  <1>10. answer'.call = "extend_graph" /\ answer'.asked = more
    BY <1>7 DEF Answer
  <1>11. Abstract!ExtendGraph(more)
    BY <1>5, <1>7, <1>8, <1>9 DEF Abstract!ExtendGraph, Abstract!Answer, Answer, WithArcs
  <1> QED
    BY <1>10, <1>11 DEF Abstract!Next

(***************************************************************************)
(* f with the ends of every edge exchanged.                                *)
(***************************************************************************)
ArcsBack(f) == [id \in DOMAIN f |-> <<f[id][2], f[id][1]>>]

(***************************************************************************)
(* A graph that says the opposite of every edge is so.                     *)
(***************************************************************************)
LEMMA ArcsReversed ==
  ASSUME NEW f, IsArcs(f), NEW h, IsArcs(h), \A id, a, b : Says(h, id, a, b) <=> Says(f, id, b, a)
  PROVE  h = ArcsBack(f)
  <1> DEFINE w == ArcsBack(f)
  <1>1. /\ DOMAIN w = DOMAIN f
        /\ w = [id \in DOMAIN w |-> w[id]]
        /\ \A id \in DOMAIN f : w[id] = <<f[id][2], f[id][1]>>
    BY DEF ArcsBack
  <1> HIDE DEF w
  <1>2. IsArcs(w)
    BY <1>1 DEF IsArcs
  <1>3. \A id, a, b : Says(w, id, a, b) <=> Says(f, id, b, a)
    <2>1. SUFFICES ASSUME NEW id \in DOMAIN f, NEW a, NEW b
                   PROVE  w[id] = <<a, b>> <=> f[id] = <<b, a>>
      BY <1>1 DEF Says
    <2>2. PICK c, d : f[id] = <<c, d>>
      BY DEF IsArcs
    <2>3. w[id] = <<d, c>>
      BY <1>1, <2>2
    <2> QED
      BY <2>2, <2>3
  <1>4. h = w
    BY <1>2, <1>3, SameArcs
  <1> QED
    BY <1>4 DEF w

(***************************************************************************)
(* What reverse leaves if edges have no keys can be seen by payload and by *)
(* id.                                                                     *)
(***************************************************************************)
JoinsBack(g, h) == \A id, a, b : Joins(h, id, a, b) <=> Joins(g, id, b, a)

(***************************************************************************)
(* Every edge is kept, and so goes back.                                   *)
(***************************************************************************)
LEMMA ReversedSeen ==
  ASSUME DenseEdges, NEW g, Whole(g), NEW h, Reversed(g, h),
         \A n, e : HasEdge(g, n, e) => KeptOrClashed(g, h, n, e)
  PROVE  (\A x : Holds(h, x) <=> Holds(g, x)) /\ JoinsBack(g, h)
  <1>1. /\ DOMAIN h = DOMAIN g
        /\ \A n \in DOMAIN g : h[n].val = g[n].val
        /\ \A m, k : HasEdge(h, m, k) =>
             \E n, e : /\ HasEdge(g, n, e) /\ m = EdgeAt(g, n, e).to
                       /\ EdgeAt(h, m, k) = LeadingTo(EdgeAt(g, n, e), n)
    BY DEF Reversed
  <1>2. \A n, e : HasEdge(g, n, e) => Kept(g, h, n, e)
    BY DEF KeptOrClashed
  <1>3. ASSUME NEW n, NEW e, HasEdge(g, n, e)
        PROVE  LET entry == EdgeAt(g, n, e) IN
               /\ n \in DOMAIN g /\ entry.to \in DOMAIN g
               /\ LeadingTo(entry, n).id = entry.id /\ LeadingTo(entry, n).to = n
    <2>1. Shaped(g) /\ EdgesLead(g)
      BY DEF Whole
    <2>2. EdgeAt(g, n, e) \in EdgeEntries /\ n \in Int /\ EdgeAt(g, n, e).to \in DOMAIN g
      BY <1>3, <2>1, ShapeElim DEF EdgesLead
    <2>3. n \in DOMAIN g
      BY <1>3 DEF HasEdge
    <2> QED
      BY <2>2, <2>3, LeadingToEntry
  <1>4. ASSUME NEW id, NEW a, NEW b, Joins(h, id, a, b) PROVE Joins(g, id, b, a)
    <2>1. PICK m, k : /\ HasEdge(h, m, k) /\ EdgeAt(h, m, k).id = id
                      /\ h[m].val = a /\ h[EdgeAt(h, m, k).to].val = b
      BY <1>4 DEF Joins
    <2>2. PICK n, e : /\ HasEdge(g, n, e) /\ m = EdgeAt(g, n, e).to
                      /\ EdgeAt(h, m, k) = LeadingTo(EdgeAt(g, n, e), n)
      BY <1>1, <2>1
    <2> QED
      BY <1>1, <1>3, <2>1, <2>2 DEF Joins
  <1>5. ASSUME NEW id, NEW a, NEW b, Joins(g, id, b, a) PROVE Joins(h, id, a, b)
    <2>1. PICK n, e : /\ HasEdge(g, n, e) /\ EdgeAt(g, n, e).id = id
                      /\ g[n].val = b /\ g[EdgeAt(g, n, e).to].val = a
      BY <1>5 DEF Joins
    <2>2. PICK k : /\ HasEdge(h, EdgeAt(g, n, e).to, k)
                   /\ EdgeAt(h, EdgeAt(g, n, e).to, k) = LeadingTo(EdgeAt(g, n, e), n)
      BY <1>2, <2>1 DEF Kept
    <2> QED
      BY <1>1, <1>3, <2>1, <2>2 DEF Joins
  <1>6. \A x : Holds(h, x) <=> Holds(g, x)
    BY <1>1 DEF Holds
  <1> QED
    BY <1>4, <1>5, <1>6 DEF JoinsBack

(***************************************************************************)
(* reverse, if edges have no keys.                                         *)
(***************************************************************************)
LEMMA ReverseCallRefines ==
  ASSUME DenseEdges, Whole(graph), NEW order \in DrainOrders(graph), ReverseCall(order)
  PROVE  Abstract!Next
  <1> DEFINE f == ArcsOf(graph)
             h == ArcsOf(graph')
  <1>1. /\ Whole(graph') /\ Reversed(graph, graph')
        /\ \A n, e : HasEdge(graph, n, e) => KeptOrClashed(graph, graph', n, e)
    BY ReverseCallReverses DEF Reverses
  <1>2. (\A x : Holds(graph', x) <=> Holds(graph, x)) /\ JoinsBack(graph, graph')
    BY <1>1, ReversedSeen
  <1>3. VertsOf(graph') = VertsOf(graph)
    BY <1>1, <1>2, StandsForNow
  <1>4. /\ IsArcs(f) /\ IsArcs(h)
        /\ \A id, a, b : Says(h, id, a, b) <=> Says(f, id, b, a)
    BY <1>1, <1>2, StandsForNow DEF JoinsBack
  <1> HIDE DEF f, h
  <1>5. h = ArcsBack(f)
    BY <1>4, ArcsReversed
  <1>6. answer' = Answer("reverse", <<>>, <<>>)
    BY DEF ReverseCall
  <1>7. Abstract!ReverseEdges
    BY <1>3, <1>5, <1>6 DEF Abstract!ReverseEdges, Abstract!Answer, Answer, ArcsBack, f, h
  <1> QED
    BY <1>7 DEF Abstract!Next

(***************************************************************************)
(* What is seen along a list of different things, if they look different.  *)
(***************************************************************************)
SeenOnce(s, q, seen) ==
  /\ DOMAIN s = DOMAIN q
  /\ \A k \in DOMAIN q : s[k] = seen[q[k]]

(***************************************************************************)
(* So nothing is seen twice, and everything once.                          *)
(***************************************************************************)
LEMMA SeenAlong ==
  ASSUME NEW q, NEW S, Lists(q, S), NEW seen, DOMAIN seen = S,
         \A x, y \in S : seen[x] = seen[y] => x = y,
         NEW s, SeenOnce(s, q, seen)
  PROVE  Abstract!IsInjective(s) /\ Abstract!ToSet(s) = {seen[x] : x \in S}
  <1>1. /\ DOMAIN q = 1..Len(q)
        /\ \A i \in 1..Len(q) : q[i] \in S
        /\ \A i, j \in 1..Len(q) : i # j => q[i] # q[j]
        /\ \A x \in S : \E i \in 1..Len(q) : q[i] = x
    BY DEF Lists
  <1>2. DOMAIN s = DOMAIN q /\ \A k \in DOMAIN q : s[k] = seen[q[k]]
    BY DEF SeenOnce
  <1>3. Abstract!IsInjective(s)
    BY <1>1, <1>2 DEF Abstract!IsInjective
  <1>4. Abstract!ToSet(s) = {seen[x] : x \in S}
    BY <1>1, <1>2 DEF Abstract!ToSet
  <1> QED
    BY <1>3, <1>4

(***************************************************************************)
(* A batch names each of its nodes and edges once.                         *)
(***************************************************************************)
NamesOnce(asked, ns, ixs) ==
  /\ asked = <<asked[1], asked[2]>>
  /\ Abstract!AskedOnce(asked)
  /\ Abstract!ToSet(asked[1]) = ValsAt(graph, ns)
  /\ Abstract!ToSet(asked[2]) = IdsAt(graph, ixs)

(***************************************************************************)
(* Payloads name nodes, and ids edges.                                     *)
(***************************************************************************)
LEMMA BatchNamesOnce ==
  ASSUME Whole(graph), NEW ns, ns \subseteq Nodes, NEW ixs, ixs \subseteq EdgeIxs(graph)
  PROVE  NamesOnce(Named(ns, ixs), ns, ixs)
  <1> DEFINE n == DescendingNodes(ns)
             e == Descending(ixs)
             vs == [k \in DOMAIN n |-> NodeVal(n[k])]
             ids == [k \in DOMAIN e |-> EdgeId(e[k])]
  <1>1. ns \subseteq DOMAIN graph /\ PayloadsDiffer(graph) /\ IdsName(graph)
    BY DEF Nodes, Whole
  <1>2. Named(ns, ixs) = <<vs, ids>>
    BY DEF Named
  <1>3. Lists(n, ns) /\ Lists(e, ixs)
    BY <1>1, DescendingNodesBatch, DescendingBatch DEF BatchOfNodes, BatchOfEdges
  <1> HIDE DEF n, e
  <1>4. Abstract!IsInjective(vs) /\ Abstract!ToSet(vs) = ValsAt(graph, ns)
    <2> DEFINE seen == [m \in ns |-> graph[m].val]
    <2>1. /\ DOMAIN seen = ns /\ \A m \in ns : seen[m] = graph[m].val
          /\ {seen[m] : m \in ns} = ValsAt(graph, ns)
      BY DEF ValsAt
    <2>2. \A k \in DOMAIN n : n[k] \in ns
      BY <1>3 DEF Lists
    <2> HIDE DEF seen
    <2>3. SeenOnce(vs, n, seen)
      BY <2>1, <2>2 DEF SeenOnce, NodeVal
    <2>4. \A x, y \in ns : seen[x] = seen[y] => x = y
      BY <1>1, <2>1 DEF PayloadsDiffer
    <2> HIDE DEF vs
    <2>5. Abstract!IsInjective(vs) /\ Abstract!ToSet(vs) = {seen[m] : m \in ns}
      BY <1>3, <2>1, <2>3, <2>4, SeenAlong
    <2> QED
      BY <2>1, <2>5
  <1>5. Abstract!IsInjective(ids) /\ Abstract!ToSet(ids) = IdsAt(graph, ixs)
    <2> DEFINE seen == [ix \in ixs |-> Edge(graph, ix).id]
    <2>1. /\ DOMAIN seen = ixs /\ \A ix \in ixs : seen[ix] = Edge(graph, ix).id
          /\ {seen[ix] : ix \in ixs} = IdsAt(graph, ixs)
      BY DEF IdsAt
    <2>2. \A k \in DOMAIN e : e[k] \in ixs
      BY <1>3 DEF Lists
    <2> HIDE DEF seen
    <2>3. SeenOnce(ids, e, seen)
      BY <2>1, <2>2 DEF SeenOnce, EdgeId
    <2>4. ASSUME NEW x \in ixs, NEW y \in ixs, seen[x] = seen[y] PROVE x = y
      <3>1. /\ x = <<x[1], x[2]>> /\ HasEdge(graph, x[1], x[2])
            /\ y = <<y[1], y[2]>> /\ HasEdge(graph, y[1], y[2])
            /\ EdgeAt(graph, x[1], x[2]).id = EdgeAt(graph, y[1], y[2]).id
        <4>1. x \in EdgeIxs(graph) /\ y \in EdgeIxs(graph)
          OBVIOUS
        <4> QED
          BY <2>1, <2>4, <4>1, EdgeIxsSeen
      <3> QED
        BY <1>1, <3>1 DEF IdsName
    <2> HIDE DEF ids
    <2>5. Abstract!IsInjective(ids) /\ Abstract!ToSet(ids) = {seen[ix] : ix \in ixs}
      BY <1>3, <2>1, <2>3, <2>4, SeenAlong
    <2> QED
      BY <2>1, <2>5
  <1> HIDE DEF vs, ids
  <1>6. <<vs, ids>>[1] = vs /\ <<vs, ids>>[2] = ids
    OBVIOUS
  <1> QED
    BY <1>2, <1>4, <1>5, <1>6 DEF NamesOnce, Abstract!AskedOnce

(***************************************************************************)
(* A removal that takes what it was asked for and returns it.              *)
(***************************************************************************)
LEMMA TakeRefines ==
  ASSUME Whole(graph), Whole(graph'), NEW ns, ns \subseteq Nodes, NEW ixs, ixs \subseteq EdgeIxs(graph),
         Loses(graph, graph', ValsAt(graph, ns), IdsAt(graph, ixs)),
         NEW asked, NamesOnce(asked, ns, ixs), answer' = Answer("take", asked, asked)
  PROVE  Abstract!Next
  <1> DEFINE V == ValsAt(graph, ns)
             I == IdsAt(graph, ixs)
             f == ArcsOf(graph)
             h == ArcsOf(graph')
  <1>1. /\ asked = <<asked[1], asked[2]>> /\ Abstract!AskedOnce(asked)
        /\ Abstract!ToSet(asked[1]) = V /\ Abstract!ToSet(asked[2]) = I
    BY DEF NamesOnce
  <1>2. V \subseteq VertsOf(graph) /\ I \subseteq DOMAIN f
    BY DEF ValsAt, IdsAt, VertsOf, ArcsOf, Nodes
  <1>3. /\ IsArcs(f) /\ IsArcs(h)
        /\ \A id, a, b : Says(h, id, a, b) <=> Says(f, id, a, b) /\ id \notin I /\ a \notin V /\ b \notin V
    BY StandsForNow DEF Loses
  <1>4. VertsOf(graph') = VertsOf(graph) \ V
    BY StandsForNow DEF Loses
  <1> HIDE DEF V, I, f, h
  <1>5. h = WithoutArcs(f, V, I)
    BY <1>3, ArcsLost
  <1>6. h = Abstract!Without(V, I)
    BY <1>5 DEF WithoutArcs, Abstract!Without, f
  <1>7. answer' = Abstract!Answer("take", <<asked[1], asked[2]>>, <<asked[1], asked[2]>>)
    BY <1>1 DEF Abstract!Answer, Answer
  <1>8. Abstract!TakeNodesEdges(asked[1], asked[2])
    BY <1>1, <1>2, <1>4, <1>6, <1>7 DEF Abstract!TakeNodesEdges, f, h
  <1>9. answer'.call = "take" /\ answer'.asked = asked
    BY DEF Answer
  <1> QED
    BY <1>1, <1>8, <1>9 DEF Abstract!Next

(***************************************************************************)
(* The first k of a list.                                                  *)
(***************************************************************************)
LEMMA PrefixIs ==
  ASSUME NEW q, Len(q) \in Nat, NEW k \in 0..Len(q), NEW p, p = SubSeq(q, 1, k)
  PROVE  Len(p) = k /\ DOMAIN p = 1..k /\ \A i \in 1..k : p[i] = q[i]
  <1> DEFINE S == {q[i] : i \in 1..k}
  <1>1. k \in Int /\ 1 \in Int /\ k \in Nat /\ \A i \in 1..k : q[i] \in S
    OBVIOUS
  <1> HIDE DEF S
  <1>2. /\ p \in Seq(S)
        /\ Len(p) = IF 1 <= k THEN k - 1 + 1 ELSE 0
        /\ \A i \in 1..(k - 1 + 1) : p[i] = q[1 + i - 1]
    BY <1>1
  <1>3. Len(p) = k /\ DOMAIN p = 1..k
    BY <1>1, <1>2
  <1> QED
    BY <1>1, <1>2, <1>3

(***************************************************************************)
(* Loops over lists that begin alike begin alike.                          *)
(***************************************************************************)
LEMMA RunsAgree ==
  ASSUME NEW loop, NEW b, NEW q, NEW f, Runs(f, loop, <<>>, <<>>, b, q),
         Len(q) \in Nat, NEW k \in 0..Len(q),
         NEW p, Len(p) = k, \A i \in 1..k : p[i] = q[i],
         NEW h, Runs(h, loop, <<>>, <<>>, b, p)
  PROVE  h[k] = f[k]
  <1> DEFINE Good == {i \in 0..k : h[i] = f[i]}
  <1>1. k \in Nat /\ k <= Len(q) /\ 0 \in 0..k /\ k \in 0..k
    OBVIOUS
  <1>2. /\ h[0] = b /\ f[0] = b
        /\ \A i \in 1..k : h[i] = Turn(loop, <<>>, <<>>, h[i - 1], p[i])
        /\ \A i \in 1..Len(q) : f[i] = Turn(loop, <<>>, <<>>, f[i - 1], q[i])
    BY DEF Runs
  <1>3. \A i \in 1..k : i \in 1..Len(q) /\ i \in 0..k
    BY <1>1
  <1>4. 0 \in Good
    BY <1>1, <1>2
  <1>5. \A i \in 1..k : i - 1 \in Good => i \in Good
    BY <1>2, <1>3
  <1> HIDE DEF Good
  <1>6. k \in Good
    BY <1>1, <1>4, <1>5, RoundInduction
  <1> QED
    BY <1>6 DEF Good

(***************************************************************************)
(* Removing the first k is what the loop has done after k turns.           *)
(***************************************************************************)
LEMMA FirstEdgesTaken ==
  ASSUME NEW g, NEW q, Len(q) \in Nat, NEW f, TakesEdges(f, g, q), NEW k \in 0..Len(q)
  PROVE  FoldLeft(TakeEdge, g, SubSeq(q, 1, k)) = f[k]
  <1> DEFINE p == SubSeq(q, 1, k)
             r == FoldLeft(TakeEdge, g, p)
             loop == "take edges"
  <1>1. Len(p) = k /\ DOMAIN p = 1..k /\ \A i \in 1..k : p[i] = q[i]
    BY PrefixIs
  <1>2. k \in Nat
    OBVIOUS
  <1> HIDE DEF p
  <1>3. RunsTo(r, "take edges", <<>>, <<>>, g, p)
    BY <1>1, <1>2, TakeEdgesRuns
  <1>4. PICK h : Runs(h, loop, <<>>, <<>>, g, p) /\ h[k] = r
    BY <1>1, <1>3 DEF RunsTo
  <1>5. Runs(f, loop, <<>>, <<>>, g, q)
    BY DEF TakesEdges
  <1> HIDE DEF r, loop
  <1>6. h[k] = f[k]
    BY <1>1, <1>4, <1>5, RunsAgree
  <1> QED
    BY <1>4, <1>6 DEF r, p

(***************************************************************************)
(* The same for nodes.                                                     *)
(***************************************************************************)
LEMMA FirstNodesTaken ==
  ASSUME NEW g, NEW q, Len(q) \in Nat, NEW f, TakesNodes(f, g, q), NEW k \in 0..Len(q)
  PROVE  FoldLeft(TakeNode, g, SubSeq(q, 1, k)) = f[k]
  <1> DEFINE p == SubSeq(q, 1, k)
             r == FoldLeft(TakeNode, g, p)
             loop == "take nodes"
  <1>1. Len(p) = k /\ DOMAIN p = 1..k /\ \A i \in 1..k : p[i] = q[i]
    BY PrefixIs
  <1>2. k \in Nat
    OBVIOUS
  <1> HIDE DEF p
  <1>3. RunsTo(r, "take nodes", <<>>, <<>>, g, p)
    BY <1>1, <1>2, TakeNodesRuns
  <1>4. PICK h : Runs(h, loop, <<>>, <<>>, g, p) /\ h[k] = r
    BY <1>1, <1>3 DEF RunsTo
  <1>5. Runs(f, loop, <<>>, <<>>, g, q)
    BY DEF TakesNodes
  <1> HIDE DEF r, loop
  <1>6. h[k] = f[k]
    BY <1>1, <1>4, <1>5, RunsAgree
  <1> QED
    BY <1>4, <1>6 DEF r, p

(***************************************************************************)
(* A batch returns what its indices named.                                 *)
(***************************************************************************)
LEMMA EdgesReturned ==
  ASSUME Whole(graph), NEW ixs, ixs \subseteq EdgeIxs(graph), NEW q, BatchOfEdges(q, ixs)
  PROVE  [k \in DOMAIN q |-> Edge(FoldLeft(TakeEdge, graph, SubSeq(q, 1, k - 1)), q[k]).id]
           = [k \in DOMAIN q |-> EdgeId(q[k])]
  <1>1. /\ Len(q) \in Nat /\ DOMAIN q = 1..Len(q)
        /\ \A k \in 1..Len(q) : q[k] \in EdgeIxs(graph)
    BY DEF BatchOfEdges, Lists
  <1>2. PICK f : Runs(f, "take edges", <<>>, <<>>, graph, q)
    BY <1>1, TakeEdgesRuns DEF RunsTo
  <1>3. TakesEdges(f, graph, q)
    BY <1>2 DEF TakesEdges
  <1>4. EdgesInTurn(f, graph, q)
    BY <1>3, EdgesTakenInTurn
  <1>5. ASSUME NEW k \in DOMAIN q
        PROVE  Edge(FoldLeft(TakeEdge, graph, SubSeq(q, 1, k - 1)), q[k]).id = EdgeId(q[k])
    <2>1. k - 1 \in 0..Len(q) /\ k \in 1..Len(q)
      BY <1>1
    <2>2. FoldLeft(TakeEdge, graph, SubSeq(q, 1, k - 1)) = f[k - 1]
      BY <1>1, <1>3, <2>1, FirstEdgesTaken
    <2>3. EdgeAt(f[k - 1], q[k][1], q[k][2]) = EdgeAt(graph, q[k][1], q[k][2])
      BY <1>4, <2>1 DEF EdgesInTurn
    <2>4. \A g : Edge(g, q[k]) = EdgeAt(g, q[k][1], q[k][2])
      BY DEF Edge, EdgeAt
    <2> QED
      BY <2>2, <2>3, <2>4 DEF EdgeId
  <1> QED
    BY <1>5

(***************************************************************************)
(* And a list of nodes, taken from what the edges have left of the graph.  *)
(***************************************************************************)
LEMMA NodesReturned ==
  ASSUME NEW g, Whole(g), NEW ns, ns \subseteq DOMAIN g, NEW q, BatchOfNodes(q, ns),
         \A n \in ns : g[n].val = NodeVal(n)
  PROVE  [k \in DOMAIN q |-> FoldLeft(TakeNode, g, SubSeq(q, 1, k - 1))[q[k]].val]
           = [k \in DOMAIN q |-> NodeVal(q[k])]
  <1>1. /\ Len(q) \in Nat /\ DOMAIN q = 1..Len(q)
        /\ \A k \in 1..Len(q) : q[k] \in ns
    BY DEF BatchOfNodes, Lists
  <1>2. PICK f : Runs(f, "take nodes", <<>>, <<>>, g, q)
    BY <1>1, TakeNodesRuns DEF RunsTo
  <1>3. TakesNodes(f, g, q)
    BY <1>2 DEF TakesNodes
  <1>4. NodesInTurn(f, g, q)
    BY <1>3, NodesTakenInTurn
  <1>5. ASSUME NEW k \in DOMAIN q
        PROVE  FoldLeft(TakeNode, g, SubSeq(q, 1, k - 1))[q[k]].val = NodeVal(q[k])
    <2>1. k - 1 \in 0..Len(q) /\ k \in 1..Len(q)
      BY <1>1
    <2>2. FoldLeft(TakeNode, g, SubSeq(q, 1, k - 1)) = f[k - 1]
      BY <1>1, <1>3, <2>1, FirstNodesTaken
    <2>3. f[k - 1][q[k]].val = g[q[k]].val
      BY <1>4, <2>1 DEF NodesInTurn
    <2> QED
      BY <1>1, <2>1, <2>2, <2>3
  <1> QED
    BY <1>5

(***************************************************************************)
(* So a batch returns what it was asked for.                               *)
(***************************************************************************)
LEMMA BatchReturns ==
  ASSUME Whole(graph), NEW ns, ns \subseteq Nodes, NEW ixs, ixs \subseteq EdgeIxs(graph)
  PROVE  Returned(ns, ixs) = Named(ns, ixs)
  <1> DEFINE n == DescendingNodes(ns)
             e == Descending(ixs)
             noEdges == TakeEdges(graph, ixs)
  <1>1. ns \subseteq DOMAIN graph
    BY DEF Nodes
  <1>2. BatchOfNodes(n, ns) /\ BatchOfEdges(e, ixs)
    BY <1>1, DescendingNodesBatch, DescendingBatch
  <1>3. Whole(noEdges) /\ LeftOver(graph, noEdges, ixs)
    BY BatchTakes
  <1>4. /\ Returned(ns, ixs) =
             <<[k \in DOMAIN n |-> FoldLeft(TakeNode, noEdges, SubSeq(n, 1, k - 1))[n[k]].val],
               [k \in DOMAIN e |-> Edge(FoldLeft(TakeEdge, graph, SubSeq(e, 1, k - 1)), e[k]).id]>>
        /\ Named(ns, ixs) = <<[k \in DOMAIN n |-> NodeVal(n[k])], [k \in DOMAIN e |-> EdgeId(e[k])]>>
    BY DEF Returned, Named
  <1> HIDE DEF n, e, noEdges
  <1>5. ns \subseteq DOMAIN noEdges /\ \A m \in ns : noEdges[m].val = NodeVal(m)
    BY <1>1, <1>3 DEF LeftOver, NodeVal
  <1>6. [k \in DOMAIN n |-> FoldLeft(TakeNode, noEdges, SubSeq(n, 1, k - 1))[n[k]].val]
          = [k \in DOMAIN n |-> NodeVal(n[k])]
    BY <1>2, <1>3, <1>5, NodesReturned
  <1>7. [k \in DOMAIN e |-> Edge(FoldLeft(TakeEdge, graph, SubSeq(e, 1, k - 1)), e[k]).id]
          = [k \in DOMAIN e |-> EdgeId(e[k])]
    BY <1>2, EdgesReturned
  <1> QED
    BY <1>4, <1>6, <1>7

(***************************************************************************)
(* Lists of nothing and of one thing, and what is seen along them.         *)
(***************************************************************************)
LooksAlong(s, q) == DOMAIN s = DOMAIN q /\ s = [k \in DOMAIN s |-> s[k]]

Shows(s, q, x, y) == \A k \in DOMAIN q : q[k] = x => s[k] = y

(***************************************************************************)
(* Along an empty list there is nothing to see.                            *)
(***************************************************************************)
LEMMA AlongNone ==
  ASSUME NEW q, Lists(q, {}), NEW s, LooksAlong(s, q)
  PROVE  s = <<>>
  <1>1. DOMAIN q = 1..Len(q) /\ Len(q) \in Nat /\ \A i \in 1..Len(q) : FALSE
    BY DEF Lists
  <1>2. DOMAIN s = {} /\ s = [k \in DOMAIN s |-> s[k]]
    BY <1>1 DEF LooksAlong
  <1> QED
    BY <1>2

(***************************************************************************)
(* Along a list of one there is what that one shows.                       *)
(***************************************************************************)
LEMMA AlongOne ==
  ASSUME NEW q, NEW x, Lists(q, {x}), NEW s, LooksAlong(s, q), NEW y, Shows(s, q, x, y)
  PROVE  s = <<y>>
  <1> DEFINE n == Len(q)
  <1>1. /\ DOMAIN q = 1..n /\ n \in Nat
        /\ \A i \in 1..n : q[i] = x
        /\ \A i, j \in 1..n : i # j => q[i] # q[j]
        /\ \E i \in 1..n : q[i] = x
    BY DEF Lists
  <1> HIDE DEF n
  <1>2. n = 1
    <2>1. n >= 1
      BY <1>1
    <2>2. CASE n >= 2
      <3>1. 1 \in 1..n /\ 2 \in 1..n
        BY <1>1, <2>2
      <3>2. q[1] = x /\ q[2] = x /\ q[1] # q[2]
        BY <1>1, <3>1
      <3> QED
        BY <3>2
    <2> QED
      BY <1>1, <2>1, <2>2
  <1>3. DOMAIN s = 1..1 /\ s = [k \in DOMAIN s |-> s[k]] /\ s[1] = y
    BY <1>1, <1>2 DEF LooksAlong, Shows
  <1> QED
    BY <1>3

(***************************************************************************)
(* What a call that takes one edge or one node names.                      *)
(***************************************************************************)
LEMMA OneEdgeNamed ==
  ASSUME Whole(graph), NEW ix \in EdgeIxs(graph)
  PROVE  Named({}, {ix}) = <<<<>>, <<EdgeId(ix)>>>>
  <1> DEFINE n == DescendingNodes({})
             e == Descending({ix})
             vs == [k \in DOMAIN n |-> NodeVal(n[k])]
             ids == [k \in DOMAIN e |-> EdgeId(e[k])]
             id == EdgeId(ix)
  <1>1. Lists(n, {}) /\ Lists(e, {ix})
    BY DescendingNodesBatch, DescendingBatch DEF BatchOfNodes, BatchOfEdges
  <1>2. Named({}, {ix}) = <<vs, ids>>
    BY DEF Named
  <1> HIDE DEF n, e
  <1>3. LooksAlong(vs, n) /\ LooksAlong(ids, e)
    BY DEF LooksAlong
  <1>4. Shows(ids, e, ix, id)
    BY DEF Shows
  <1> HIDE DEF vs, ids, id
  <1>5. vs = <<>>
    BY <1>1, <1>3, AlongNone
  <1>6. ids = <<id>>
    BY <1>1, <1>3, <1>4, AlongOne
  <1> QED
    BY <1>2, <1>5, <1>6 DEF id

(***************************************************************************)
(* And a call that takes one node.                                         *)
(***************************************************************************)
LEMMA OneNodeNamed ==
  ASSUME Whole(graph), NEW m \in Nodes
  PROVE  Named({m}, {}) = <<<<NodeVal(m)>>, <<>>>>
  <1> DEFINE n == DescendingNodes({m})
             e == Descending({})
             vs == [k \in DOMAIN n |-> NodeVal(n[k])]
             ids == [k \in DOMAIN e |-> EdgeId(e[k])]
             v == NodeVal(m)
  <1>1. Lists(n, {m}) /\ Lists(e, {})
    BY DescendingNodesBatch, DescendingBatch DEF BatchOfNodes, BatchOfEdges, Nodes
  <1>2. Named({m}, {}) = <<vs, ids>>
    BY DEF Named
  <1> HIDE DEF n, e
  <1>3. LooksAlong(vs, n) /\ LooksAlong(ids, e)
    BY DEF LooksAlong
  <1>4. Shows(vs, n, m, v)
    BY DEF Shows
  <1> HIDE DEF vs, ids, v
  <1>5. ids = <<>>
    BY <1>1, <1>3, AlongNone
  <1>6. vs = <<v>>
    BY <1>1, <1>3, <1>4, AlongOne
  <1> QED
    BY <1>2, <1>5, <1>6 DEF v

(***************************************************************************)
(* take_edge.                                                              *)
(***************************************************************************)
LEMMA TakeEdgeCallRefines ==
  ASSUME Whole(graph), NEW ix \in EdgeIxs(graph), TakeEdgeCall(ix)
  PROVE  Abstract!Next
  <1> DEFINE n == ix[1]
             e == ix[2]
             asked == Named({}, {ix})
  <1>1. graph' = TakeEdge(graph, ix) /\ answer' = Answer("take", asked, asked)
    BY OneEdgeNamed DEF TakeEdgeCall
  <1>2. ix = <<n, e>> /\ HasEdge(graph, n, e)
    BY EdgeIxsSeen
  <1> HIDE DEF asked
  <1>3. Whole(graph') /\ EdgeTaken(graph, graph', n, e)
    BY <1>1, <1>2, TakeEdgeTakes
  <1>4. LeftOver(graph, graph, {})
    BY DEF LeftOver
  <1>5. LeftOver(graph, graph', {ix})
    <2>1. LeftOver(graph, graph', {} \cup {<<n, e>>})
      BY <1>2, <1>3, <1>4, NextEdgeTaken
    <2>2. {ix} = {} \cup {<<n, e>>}
      BY <1>2
    <2> QED
      BY <2>1, <2>2, Zenon
  <1>6. {} \subseteq Nodes /\ {ix} \subseteq EdgeIxs(graph)
    OBVIOUS
  <1>7. Loses(graph, graph', ValsAt(graph, {}), IdsAt(graph, {ix}))
    <2>1. ValsAt(graph, {}) = {}
      BY DEF ValsAt
    <2> QED
      BY <1>5, <1>6, <2>1, EdgesLost
  <1>8. NamesOnce(asked, {}, {ix})
    BY <1>6, BatchNamesOnce DEF asked
  <1> QED
    BY <1>1, <1>3, <1>6, <1>7, <1>8, TakeRefines

(***************************************************************************)
(* take_node.                                                              *)
(***************************************************************************)
LEMMA TakeNodeCallRefines ==
  ASSUME Whole(graph), NEW n \in Nodes, TakeNodeCall(n)
  PROVE  Abstract!Next
  <1> DEFINE asked == Named({n}, {})
  <1>1. graph' = TakeNode(graph, n) /\ answer' = Answer("take", asked, asked)
    BY OneNodeNamed DEF TakeNodeCall
  <1>2. n \in DOMAIN graph
    BY DEF Nodes
  <1> HIDE DEF asked
  <1>3. Whole(graph') /\ NodeTaken(graph, graph', n)
    BY <1>1, <1>2, TakeNodeTakes
  <1>4. Loses(graph, graph', ValsAt(graph, {n}), IdsAt(graph, {}))
    <2>1. ValsAt(graph, {n}) = {graph[n].val} /\ IdsAt(graph, {}) = {}
      BY DEF ValsAt, IdsAt
    <2> QED
      BY <1>2, <1>3, <2>1, NodeLost
  <1>5. {n} \subseteq Nodes /\ {} \subseteq EdgeIxs(graph)
    OBVIOUS
  <1>6. NamesOnce(asked, {n}, {})
    BY <1>5, BatchNamesOnce DEF asked
  <1> QED
    BY <1>1, <1>3, <1>4, <1>5, <1>6, TakeRefines

(***************************************************************************)
(* take_nodes_edges, the batch and the short way.                          *)
(***************************************************************************)
LEMMA TakeNodesEdgesCallRefines ==
  ASSUME Whole(graph), NEW ns, ns \subseteq Nodes, NEW ixs, ixs \subseteq EdgeIxs(graph),
         TakeNodesEdgesCall(ns, ixs)
  PROVE  Abstract!Next
  <1> DEFINE asked == Named(ns, ixs)
  <1>1. /\ graph' = TakeNodesEdges(graph, ns, ixs) /\ answer' = Answer("take", asked, asked)
        /\ ns \subseteq DOMAIN graph
    BY BatchReturns DEF TakeNodesEdgesCall, Nodes
  <1>2. NamesOnce(asked, ns, ixs)
    BY BatchNamesOnce
  <1> HIDE DEF asked
  <1>3. TakenBoth(graph, graph', ns, ixs)
    BY <1>1, TakeNodesEdgesTakes
  <1>4. Whole(graph') /\ Loses(graph, graph', ValsAt(graph, ns), IdsAt(graph, ixs))
    BY <1>3 DEF TakenBoth
  <1> QED
    BY <1>1, <1>2, <1>4, TakeRefines

(***************************************************************************)
(* The short way of a scope.                                               *)
(***************************************************************************)
LEMMA ScopedTakeSingleRefines ==
  ASSUME Whole(graph), NEW ns, ns \subseteq Nodes, NEW ixs, ixs \subseteq EdgeIxs(graph),
         ScopedTakeSingle(ns, ixs)
  PROVE  Abstract!Next
  <1> DEFINE asked == Named(ns, ixs)
  <1>1. /\ graph' = TakeSingle(graph, ns, ixs) /\ answer' = Answer("take", asked, asked)
        /\ Cardinality(ns) <= 1 /\ Cardinality(ixs) <= 1
        /\ ns \subseteq DOMAIN graph
    BY BatchReturns DEF ScopedTakeSingle, Nodes
  <1>2. NamesOnce(asked, ns, ixs)
    BY BatchNamesOnce
  <1> HIDE DEF asked
  <1>3. TakenBoth(graph, graph', ns, ixs)
    BY <1>1, TakeSingleTakes
  <1>4. Whole(graph') /\ Loses(graph, graph', ValsAt(graph, ns), IdsAt(graph, ixs))
    BY <1>3 DEF TakenBoth
  <1> QED
    BY <1>1, <1>2, <1>4, TakeRefines

(***************************************************************************)
(* What a graph with keys for its edges may fail to do: it refuses an edge *)
(* whose key is taken, and reverse loses edges.                            *)
(***************************************************************************)
Promised == DenseEdges \/ answer'.call \notin {"reverse", "refuse edge"}

(***************************************************************************)
(* Apart from that every call does what the interface promises: reverse,   *)
(* if no edge is lost.                                                     *)
(***************************************************************************)
LEMMA ReverseRefines ==
  ASSUME Whole(graph), NEW order \in DrainOrders(graph), ReverseCall(order), Promised
  PROVE  Abstract!Next
  <1>1. DenseEdges
    BY DEF Promised, ReverseCall, Answer
  <1> QED
    BY <1>1, ReverseCallRefines

(***************************************************************************)
(* An insertion of an edge adds it, as it is not refused.                  *)
(***************************************************************************)
LEMMA InsertEdgeRefines ==
  ASSUME Whole(graph), NEW v \in EdgeVals, NEW id \in EdgeIds,
         NEW from \in Nodes, NEW to \in Nodes, InsertEdgeCall(v, id, from, to), Promised
  PROVE  Abstract!Next
  <1>1. NotRefused
    BY DEF Promised, NotRefused
  <1> QED
    BY <1>1, InsertEdgeCallRefines

(***************************************************************************)
(* An insertion of a node.                                                 *)
(***************************************************************************)
LEMMA InsertNodeRefines ==
  ASSUME Whole(graph), NEW v \in NodeVals, InsertNodeCall(v)
  PROVE  Abstract!Next
  BY InsertNodeCallGrows, InsertNodeCallRefines DEF Grows

(***************************************************************************)
(* An insertion unless the node is there.                                  *)
(***************************************************************************)
LEMMA GetOrInsertNodeRefines ==
  ASSUME Whole(graph), NEW v \in NodeVals, GetOrInsertNodeCall(v)
  PROVE  Abstract!Next
  <1>1. Whole(graph')
    BY InsertNodeCallGrows DEF GetOrInsertNodeCall, Grows
  <1> QED
    BY <1>1, GetOrInsertNodeCallRefines

(***************************************************************************)
(* So does every step, in or out of a scope.                               *)
(***************************************************************************)
LEMMA StepsRefine ==
  ASSUME Whole(graph), LiveUntilReverse, [FacadeNext]_facadeVars, Promised
  PROVE  UNCHANGED vars \/ Abstract!Next
  <1>1. CASE UNCHANGED facadeVars
    BY <1>1 DEF facadeVars, vars
  <1>2. CASE Next
    <2>1. ASSUME NEW v \in NodeVals, InsertNodeCall(v) PROVE Abstract!Next
      BY <2>1, InsertNodeRefines
    <2>2. ASSUME NEW v \in EdgeVals, NEW id \in EdgeIds, NEW from \in Nodes, NEW to \in Nodes,
                 InsertEdgeCall(v, id, from, to)
          PROVE  Abstract!Next
      BY <2>2, InsertEdgeRefines
    <2>3. ASSUME NEW ix \in EdgeIxs(graph), TakeEdgeCall(ix) PROVE Abstract!Next
      BY <2>3, TakeEdgeCallRefines
    <2>4. ASSUME NEW n \in Nodes, TakeNodeCall(n) PROVE Abstract!Next
      BY <2>4, TakeNodeCallRefines
    <2>5. ASSUME NEW ns \in SUBSET Nodes, NEW ixs \in SUBSET EdgeIxs(graph),
                 TakeNodesEdgesCall(ns, ixs)
          PROVE  Abstract!Next
      BY <2>5, TakeNodesEdgesCallRefines
    <2>6. ASSUME NEW order \in DrainOrders(graph), ReverseCall(order) PROVE Abstract!Next
      BY <2>6, ReverseRefines
    <2> QED
      BY <1>2, <2>1, <2>2, <2>3, <2>4, <2>5, <2>6 DEF Next
  <1>3. ASSUME NEW other \in Others, ExtendGraphCall(other) PROVE Abstract!Next
    BY <1>3, ExtendGraphCallRefines
  <1>4. ASSUME NEW v \in NodeVals, GetOrInsertNodeCall(v) PROVE Abstract!Next
    BY <1>4, GetOrInsertNodeRefines
  <1>5. CASE OpenScope \/ CloseScope \/ ScopedTakeTwice
    BY <1>5 DEF OpenScope, CloseScope, ScopedTakeTwice
  <1>6. ASSUME NEW v \in NodeVals, ScopedInsertNode(v) PROVE Abstract!Next
    BY <1>6, InsertNodeRefines DEF ScopedInsertNode
  <1>7. ASSUME NEW v \in EdgeVals, NEW id \in EdgeIds, NEW from \in Nodes, NEW to \in Nodes,
               ScopedInsertEdge(v, id, from, to)
        PROVE  Abstract!Next
    BY <1>7, InsertEdgeRefines DEF ScopedInsertEdge
  <1>8. ASSUME NEW other \in Others, ScopedExtend(other) PROVE Abstract!Next
    BY <1>8, ExtendGraphCallRefines DEF ScopedExtend
  <1>9. ASSUME NEW order \in DrainOrders(graph), ScopedReverse(order) PROVE Abstract!Next
    BY <1>9, ReverseRefines DEF ScopedReverse
  <1>10. ASSUME ~Closed, NEW ns \in SUBSET DOMAIN scope.nodes,
                NEW ixs \in SUBSET (DOMAIN scope.edges \cap EdgeIxs(graph))
         PROVE  ns \subseteq Nodes /\ ixs \subseteq EdgeIxs(graph)
    BY <1>10 DEF LiveUntilReverse, NodesLive
  <1>11. ASSUME ~Closed, NEW ns \in SUBSET DOMAIN scope.nodes,
                NEW ixs \in SUBSET (DOMAIN scope.edges \cap EdgeIxs(graph)),
                ScopedTakeSingle(ns, ixs)
         PROVE  Abstract!Next
    BY <1>10, <1>11, ScopedTakeSingleRefines
  <1>12. ASSUME ~Closed, NEW ns \in SUBSET DOMAIN scope.nodes,
                NEW ixs \in SUBSET (DOMAIN scope.edges \cap EdgeIxs(graph)),
                ScopedTakeBatch(ns, ixs)
         PROVE  Abstract!Next
    BY <1>10, <1>12, TakeNodesEdgesCallRefines DEF ScopedTakeBatch
  <1> QED
    BY <1>1, <1>2, <1>3, <1>4, <1>5, <1>6, <1>7, <1>8, <1>9, <1>11, <1>12 DEF FacadeNext

(***************************************************************************)
(* At first there is nothing.                                              *)
(***************************************************************************)
LEMMA StartsEmpty ==
  FacadeInit => Abstract!Init
  <1>1. SUFFICES ASSUME FacadeInit PROVE Abstract!Init
    OBVIOUS
  <1>2. graph = <<>> /\ answer = Answer("new", <<>>, <<>>)
    BY <1>1 DEF FacadeInit, Init
  <1>3. DOMAIN <<>> = {}
    OBVIOUS
  <1>4. VertsOf(<<>>) = {}
    BY <1>3 DEF VertsOf
  <1>5. EdgeIxs(<<>>) = {}
    BY <1>3 DEF EdgeIxs
  <1>6. ArcsOf(<<>>) = <<>>
    BY <1>5 DEF ArcsOf
  <1> QED
    BY <1>2, <1>4, <1>6 DEF Abstract!Init, Abstract!Answer, Answer

(***************************************************************************)
(* Every call does to the graph what the interface promises, in or out of  *)
(* a scope, but that with keys for its edges a graph refuses one whose key *)
(* is taken and loses some when it is reversed: the graph the collections  *)
(* stand for gains what was inserted or offered, and loses what a removal  *)
(* was asked for with the edges of the nodes, although the removals move   *)
(* entries while they go through their list; and what they return is what  *)
(* they were asked for.                                                    *)
(***************************************************************************)
THEOREM CallsImplement == FacadeSpec => CallsRefine
  <1> DEFINE Does == answer'.call \notin {"reverse", "refuse edge"} => Abstract!Next
  <1>1. ASSUME FacadeInv, [FacadeNext]_facadeVars PROVE [Does]_vars
    <2>1. CASE Promised
      BY <1>1, <2>1, StepsRefine DEF FacadeInv
    <2>2. CASE ~Promised
      BY <2>2 DEF Promised
    <2> QED
      BY <2>1, <2>2
  <1>2. CallsRefine <=> [][Does]_vars
    BY DEF CallsRefine
  <1> HIDE DEF Does
  <1> QED
    BY <1>1, <1>2, FacadeInvInit, FacadeInvNext, PTL DEF FacadeSpec

(***************************************************************************)
(* With Vecs for its edges the flat layout implements the interface: it    *)
(* refuses none, and reverse exchanges the ends of all.                    *)
(***************************************************************************)
THEOREM VecsImplement ==
  ASSUME DenseEdges
  PROVE  FacadeSpec => RefinesMultigraph
  <1>1. FacadeInv /\ [FacadeNext]_facadeVars => [Abstract!Next]_(Abstract!vars)
    <2>1. SUFFICES ASSUME FacadeInv, [FacadeNext]_facadeVars
                   PROVE  [Abstract!Next]_(Abstract!vars)
      OBVIOUS
    <2>2. UNCHANGED vars \/ Abstract!Next
      BY <2>1, StepsRefine DEF FacadeInv, Promised
    <2>3. CASE UNCHANGED vars
      BY <2>3 DEF vars, Abstract!vars
    <2> QED
      BY <2>2, <2>3
  <1> QED
    BY <1>1, StartsEmpty, FacadeInvInit, FacadeInvNext, PTL
       DEF FacadeSpec, RefinesMultigraph, Abstract!Spec
=============================================================================
