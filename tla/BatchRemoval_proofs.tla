------------------------ MODULE BatchRemoval_proofs -------------------------
(***************************************************************************)
(* Theorems about BatchRemoval and their proofs.                           *)
(*                                                                         *)
(* The proof follows a batch through its phases.  A phase is described by  *)
(* how the graph differs from one whose edges are threaded, as Threads of  *)
(* LinkedAdjEdge_proofs has it:                                            *)
(*   Unlinks   the chains not yet visited still have the dying edges       *)
(*   Patches   their pointers are to where edges were that have moved      *)
(*   Rewrites  edges store where nodes were that have moved                *)
(* A sweep along a chain, and the loop that takes entries out of a         *)
(* collection, are followed turn by turn (Unlinking, Patching, Compacting).*)
(***************************************************************************)
EXTENDS BatchRemoval, LinkedAdjEdge_proofs

-----------------------------------------------------------------------------
(***************************************************************************)
(* The turns of the loops of a batch: of the two shortcuts, of the sweeps  *)
(* along a chain, of the removals from a collection, and of the iteration  *)
(* over the edges of a node.                                               *)
(***************************************************************************)
EdgeTurn(s, e) == [g     |-> TakeEdge(s.g, e),
                   taken |-> With(s.taken, e, s.g.edges[e].val)]

NodeTurn(s, n) == [g     |-> TakeNode(s.g, n),
                   taken |-> With(s.taken, n, s.g.nodes[n].val)]

UnlinkTurn(s, n, d, dying) ==
  LET cur == SlotAfter(s.g, n, d, s.pred) IN
  IF s.left = 0 \/ cur \notin DOMAIN s.g.edges THEN s
  ELSE IF cur \in dying
    THEN [s EXCEPT !.g = SetSlotAfter(@, n, d, s.pred, @.edges[cur].next[d]),
                   !.left = @ - 1]
    ELSE [s EXCEPT !.pred = cur]

PatchTurn(s, n, d, moved) ==
  LET cur == SlotAfter(s.g, n, d, s.pred) IN
  IF s.left = 0 \/ cur \notin DOMAIN s.g.edges \cup DOMAIN moved THEN s
  ELSE IF cur \in DOMAIN moved
    THEN [g    |-> SetSlotAfter(s.g, n, d, s.pred, moved[cur]),
          pred |-> moved[cur],
          left |-> s.left - 1]
    ELSE [s EXCEPT !.pred = cur]

ListTurn(es, e, n, g) == IF g.edges[e].node[OUTGOING] = n THEN es ELSE Append(es, e)

TurnOf(loop, n, d, X, s, x) ==
  CASE loop = "take edges"   -> EdgeTurn(s, x)
    [] loop = "take nodes"   -> NodeTurn(s, x)
    [] loop = "unlink"       -> UnlinkTurn(s, n, d, X)
    [] loop = "patch"        -> PatchTurn(s, n, d, X)
    [] loop = "take entries" -> TakeNoting(X, s, x)
    [] loop = "list"         -> ListTurn(s, x, n, X)

(***************************************************************************)
(* it[s] is the outcome of the turns at the positions s of q, a set.       *)
(***************************************************************************)
Turns(it, loop, n, d, X, b, q) ==
  it = [s \in SUBSET DOMAIN q |->
          IF s = {} THEN b ELSE TurnOf(loop, n, d, X, it[s \ {Max(s)}], q[Max(s)])]

(***************************************************************************)
(* f[k] is the outcome of the first k turns.                               *)
(***************************************************************************)
Runs(f, loop, n, d, X, b, q) ==
  /\ f[0] = b
  /\ \A k \in 1..Len(q) : f[k] = TurnOf(loop, n, d, X, f[k - 1], q[k])

(***************************************************************************)
(* r is the outcome of all turns.                                          *)
(***************************************************************************)
RunsTo(r, loop, n, d, X, b, q) == \E f : Runs(f, loop, n, d, X, b, q) /\ f[Len(q)] = r

(***************************************************************************)
(* A set of positions without the last of them is smaller.                 *)
(***************************************************************************)
LEMMA WithoutLast ==
  ASSUME NEW n \in Nat, NEW s \in SUBSET (1..n)
  PROVE  /\ Cardinality(s) \in Nat /\ Cardinality(s) <= n
         /\ Cardinality(s) = 0 <=> s = {}
         /\ s # {} => /\ Max(s) \in s /\ s \ {Max(s)} \in SUBSET (1..n)
                      /\ Cardinality(s \ {Max(s)}) = Cardinality(s) - 1
  <1>1. IsFiniteSet(1..n) /\ Cardinality(1..n) = n
    BY FS_Interval
  <1>2. IsFiniteSet(s) /\ Cardinality(s) <= n
    BY <1>1, FS_Subset
  <1>3. Cardinality(s) \in Nat /\ (Cardinality(s) = 0 <=> s = {})
    BY <1>2, FS_CardinalityType, FS_EmptySet
  <1>4. ASSUME s # {} PROVE Max(s) \in s
    BY <1>4, LastRound
  <1>5. ASSUME s # {} PROVE Cardinality(s \ {Max(s)}) = Cardinality(s) - 1
    BY <1>2, <1>4, <1>5, FS_RemoveElement
  <1> QED
    BY <1>2, <1>3, <1>4, <1>5

(***************************************************************************)
(* Every loop has an outcome.                                              *)
(***************************************************************************)
LEMMA TurnsExist ==
  ASSUME NEW loop, NEW n, NEW d, NEW X, NEW b, NEW q, NEW len \in Nat, DOMAIN q = 1..len
  PROVE  \E it : Turns(it, loop, n, d, X, b, q)
  <1> DEFINE D == SUBSET (1..len)
             G(f, s) == IF s = {} THEN b ELSE TurnOf(loop, n, d, X, f[s \ {Max(s)}], q[Max(s)])
             N == {k \in 0..len : \E f : f = [s \in D |-> f[s]] /\
                                  \A s \in D : Cardinality(s) <= k => f[s] = G(f, s)}
  <1>1. 0 \in N
    <2> DEFINE f == [s \in D |-> b]
    <2>1. f = [s \in D |-> f[s]]
      OBVIOUS
    <2>2. ASSUME NEW s \in D, Cardinality(s) <= 0 PROVE f[s] = G(f, s)
      <3>1. Cardinality(s) \in Nat /\ (Cardinality(s) = 0 <=> s = {})
        BY WithoutLast
      <3>2. s = {}
        BY <2>2, <3>1
      <3> QED
        BY <3>2
    <2> HIDE DEF f, G, D
    <2> QED
      BY <2>1, <2>2
  <1>2. \A k \in 1..len : k - 1 \in N => k \in N
    <2>1. SUFFICES ASSUME NEW k \in 1..len, k - 1 \in N PROVE k \in N
      OBVIOUS
    <2>2. PICK f : \A s \in D : Cardinality(s) <= k - 1 => f[s] = G(f, s)
      BY <2>1
    <2> DEFINE g == [s \in D |-> G(f, s)]
    <2>3. g = [s \in D |-> g[s]]
      OBVIOUS
    <2>4. ASSUME NEW s \in D, Cardinality(s) <= k PROVE g[s] = G(g, s)
      <3>1. g[s] = G(f, s)
        OBVIOUS
      <3>2. CASE s = {}
        BY <3>1, <3>2
      <3>3. CASE s # {}
        <4>1. s \ {Max(s)} \in D /\ Cardinality(s \ {Max(s)}) <= k - 1
          BY <2>4, <3>3, WithoutLast
        <4>2. g[s \ {Max(s)}] = f[s \ {Max(s)}]
          BY <2>2, <4>1
        <4> QED
          BY <3>1, <3>3, <4>2
      <3> QED
        BY <3>2, <3>3
    <2> HIDE DEF G, g, D
    <2>5. k \in 0..len
      BY <2>1
    <2> QED
      BY <2>3, <2>4, <2>5
  <1>3. len \in N
    <2>1. len \in 0..len
      OBVIOUS
    <2> HIDE DEF N, G, D
    <2> QED
      BY <1>1, <1>2, <2>1, RoundInduction
  <1>4. PICK f : f = [s \in D |-> f[s]] /\ \A s \in D : Cardinality(s) <= len => f[s] = G(f, s)
    BY <1>3
  <1>5. \A s \in D : f[s] = G(f, s)
    BY <1>4, WithoutLast
  <1>6. f = [s \in D |-> G(f, s)]
    <2> HIDE DEF G, D
    <2> QED
      BY <1>4, <1>5
  <1>7. Turns(f, loop, n, d, X, b, q)
    BY <1>6, Zenon DEF Turns
  <1> QED
    BY <1>7

(***************************************************************************)
(* Its outcome is that of one turn after the other.                        *)
(***************************************************************************)
LEMMA TurnsRun ==
  ASSUME NEW loop, NEW n, NEW d, NEW X, NEW b, NEW q, NEW len \in Nat, DOMAIN q = 1..len, Len(q) = len,
         NEW it, Turns(it, loop, n, d, X, b, q)
  PROVE  RunsTo(it[DOMAIN q], loop, n, d, X, b, q)
  <1> DEFINE f == [k \in 0..len |-> it[1..k]]
             T(h, x) == TurnOf(loop, n, d, X, h, x)
  <1>0. \A s \in SUBSET (1..len) : it[s] = IF s = {} THEN b ELSE T(it[s \ {Max(s)}], q[Max(s)])
    BY Zenon DEF Turns
  <1> HIDE DEF T
  <1>1. it[{}] = b
    BY <1>0
  <1>2. ASSUME NEW k \in 1..len PROVE it[1..k] = T(it[1..(k - 1)], q[k])
    <2>1. 1..k \in SUBSET (1..len) /\ 1..k # {} /\ Max(1..k) = k /\ (1..k) \ {k} = 1..(k - 1)
      BY RoundsSoFar
    <2> QED
      BY <1>0, <2>1
  <1>3. 1..0 = {} /\ 0 \in 0..len /\ len \in 0..len /\ \A k \in 1..len : k \in 0..len /\ k - 1 \in 0..len
    OBVIOUS
  <1>4. \A k \in 0..len : f[k] = it[1..k]
    OBVIOUS
  <1> HIDE DEF f
  <1>5. f[0] = b /\ f[len] = it[DOMAIN q]
    BY <1>1, <1>3, <1>4
  <1>6. \A k \in 1..len : f[k] = T(f[k - 1], q[k])
    BY <1>2, <1>3, <1>4
  <1>7. Runs(f, loop, n, d, X, b, q)
    BY <1>5, <1>6 DEF Runs, T
  <1> QED
    BY <1>5, <1>7 DEF RunsTo


(***************************************************************************)
(* The sweep that unlinks.                                                 *)
(***************************************************************************)
LEMMA UnlinkRuns ==
  ASSUME NEW g, NEW n, NEW d, NEW dying, NEW expected, Size(g.edges) \in Nat
  PROVE  RunsTo(UnlinkDying(g, n, d, dying, expected), "unlink", n, d, dying,
                [g |-> g, pred |-> Sentinel, left |-> expected], [k \in 1..Size(g.edges) |-> k])
  <1> DEFINE q == [k \in 1..Size(g.edges) |-> k]
             b == [g |-> g, pred |-> Sentinel, left |-> expected]
             T(s, x) == UnlinkTurn(s, n, d, dying)
             Eq(i) == i = [s \in SUBSET DOMAIN q |->
                             IF s = {} THEN b ELSE T(i[s \ {Max(s)}], q[Max(s)])]
             it == CHOOSE i : Eq(i)
  <1>1. \A h, x : TurnOf("unlink", n, d, dying, h, x) = T(h, x)
    BY DEF TurnOf
  <1>2. UnlinkDying(g, n, d, dying, expected) = it[DOMAIN q]
    BY Zenon DEF UnlinkDying, UnlinkTurn, Sweep, FoldLeft, MapThenFoldSet
  <1>3. DOMAIN q = 1..Size(g.edges) /\ Len(q) = Size(g.edges)
    BY DEF q
  <1> HIDE DEF b, q, T
  <1>4. \A i : Eq(i) <=> Turns(i, "unlink", n, d, dying, b, q)
    BY <1>1, Zenon DEF Turns
  <1>5. Eq(it)
    <2> HIDE DEF Eq
    <2> QED
      BY <1>3, <1>4, TurnsExist
  <1> HIDE DEF Eq, it
  <1>6. Turns(it, "unlink", n, d, dying, b, q)
    BY <1>4, <1>5
  <1>7. RunsTo(it[DOMAIN q], "unlink", n, d, dying, b, q)
    BY <1>3, <1>6, TurnsRun
  <1> QED
    BY <1>2, <1>7 DEF b, q

(***************************************************************************)
(* The sweep that patches.                                                 *)
(***************************************************************************)
LEMMA PatchRuns ==
  ASSUME NEW g, NEW n, NEW d, NEW moved, NEW expected, Size(g.edges) \in Nat
  PROVE  RunsTo(PatchMoved(g, n, d, moved, expected), "patch", n, d, moved,
                [g |-> g, pred |-> Sentinel, left |-> expected], [k \in 1..Size(g.edges) |-> k])
  <1> DEFINE q == [k \in 1..Size(g.edges) |-> k]
             b == [g |-> g, pred |-> Sentinel, left |-> expected]
             T(s, x) == PatchTurn(s, n, d, moved)
             Eq(i) == i = [s \in SUBSET DOMAIN q |->
                             IF s = {} THEN b ELSE T(i[s \ {Max(s)}], q[Max(s)])]
             it == CHOOSE i : Eq(i)
  <1>1. \A h, x : TurnOf("patch", n, d, moved, h, x) = T(h, x)
    BY DEF TurnOf
  <1>2. PatchMoved(g, n, d, moved, expected) = it[DOMAIN q]
    BY Zenon DEF PatchMoved, PatchTurn, Sweep, FoldLeft, MapThenFoldSet
  <1>3. DOMAIN q = 1..Size(g.edges) /\ Len(q) = Size(g.edges)
    BY DEF q
  <1> HIDE DEF b, q, T
  <1>4. \A i : Eq(i) <=> Turns(i, "patch", n, d, moved, b, q)
    BY <1>1, Zenon DEF Turns
  <1>5. Eq(it)
    <2> HIDE DEF Eq
    <2> QED
      BY <1>3, <1>4, TurnsExist
  <1> HIDE DEF Eq, it
  <1>6. Turns(it, "patch", n, d, moved, b, q)
    BY <1>4, <1>5
  <1>7. RunsTo(it[DOMAIN q], "patch", n, d, moved, b, q)
    BY <1>3, <1>6, TurnsRun
  <1> QED
    BY <1>2, <1>7 DEF b, q

(***************************************************************************)
(* The removals from a collection.                                         *)
(***************************************************************************)
LEMMA TakeAllRuns ==
  ASSUME NEW dense, NEW c, NEW V, NEW len \in Nat, DOMAIN Descending(V) = 1..len, Len(Descending(V)) = len
  PROVE  RunsTo(TakeAll(dense, c, V), "take entries", {}, {}, dense,
                [c |-> c, moves |-> <<>>, origin |-> <<>>, taken |-> <<>>], Descending(V))
  <1> DEFINE q == Descending(V)
             b == [c |-> c, moves |-> <<>>, origin |-> <<>>, taken |-> <<>>]
             T(s, x) == TakeNoting(dense, s, x)
             Eq(i) == i = [s \in SUBSET DOMAIN q |->
                             IF s = {} THEN b ELSE T(i[s \ {Max(s)}], q[Max(s)])]
             it == CHOOSE i : Eq(i)
  <1>1. \A h, x : TurnOf("take entries", {}, {}, dense, h, x) = T(h, x)
    BY DEF TurnOf
  <1>2. TakeAll(dense, c, V) = it[DOMAIN q]
    BY Zenon DEF TakeAll, FoldLeft, MapThenFoldSet
  <1>3. DOMAIN q = 1..len /\ Len(q) = len
    OBVIOUS
  <1> HIDE DEF b, q, T
  <1>4. \A i : Eq(i) <=> Turns(i, "take entries", {}, {}, dense, b, q)
    BY <1>1, Zenon DEF Turns
  <1>5. Eq(it)
    <2> HIDE DEF Eq
    <2> QED
      BY <1>3, <1>4, TurnsExist
  <1> HIDE DEF Eq, it
  <1>6. Turns(it, "take entries", {}, {}, dense, b, q)
    BY <1>4, <1>5
  <1>7. RunsTo(it[DOMAIN q], "take entries", {}, {}, dense, b, q)
    BY <1>3, <1>6, TurnsRun
  <1> QED
    BY <1>2, <1>7 DEF b, q

(***************************************************************************)
(* The shortcut that takes edges.                                          *)
(***************************************************************************)
LEMMA TakeEdgesRuns ==
  ASSUME NEW g, NEW es, NEW len \in Nat, DOMAIN Descending(ToSet(es)) = 1..len, Len(Descending(ToSet(es))) = len
  PROVE  RunsTo(TakeEdgesScalar(g, es), "take edges", {}, {}, {},
                [g |-> g, taken |-> <<>>], Descending(ToSet(es)))
  <1> DEFINE q == Descending(ToSet(es))
             b == [g |-> g, taken |-> <<>>]
             T(s, x) == EdgeTurn(s, x)
             Eq(i) == i = [s \in SUBSET DOMAIN q |->
                             IF s = {} THEN b ELSE T(i[s \ {Max(s)}], q[Max(s)])]
             it == CHOOSE i : Eq(i)
  <1>1. \A h, x : TurnOf("take edges", {}, {}, {}, h, x) = T(h, x)
    BY DEF TurnOf
  <1>2. TakeEdgesScalar(g, es) = it[DOMAIN q]
    BY Zenon DEF TakeEdgesScalar, EdgeTurn, FoldLeft, MapThenFoldSet
  <1>3. DOMAIN q = 1..len /\ Len(q) = len
    OBVIOUS
  <1> HIDE DEF b, q, T
  <1>4. \A i : Eq(i) <=> Turns(i, "take edges", {}, {}, {}, b, q)
    BY <1>1, Zenon DEF Turns
  <1>5. Eq(it)
    <2> HIDE DEF Eq
    <2> QED
      BY <1>3, <1>4, TurnsExist
  <1> HIDE DEF Eq, it
  <1>6. Turns(it, "take edges", {}, {}, {}, b, q)
    BY <1>4, <1>5
  <1>7. RunsTo(it[DOMAIN q], "take edges", {}, {}, {}, b, q)
    BY <1>3, <1>6, TurnsRun
  <1> QED
    BY <1>2, <1>7 DEF b, q

(***************************************************************************)
(* The shortcut that takes nodes.                                          *)
(***************************************************************************)
LEMMA TakeNodesRuns ==
  ASSUME NEW g, NEW ns, NEW len \in Nat, DOMAIN Descending(ToSet(ns)) = 1..len, Len(Descending(ToSet(ns))) = len
  PROVE  RunsTo(TakeNodesScalar(g, ns), "take nodes", {}, {}, {},
                [g |-> g, taken |-> <<>>], Descending(ToSet(ns)))
  <1> DEFINE q == Descending(ToSet(ns))
             b == [g |-> g, taken |-> <<>>]
             T(s, x) == NodeTurn(s, x)
             Eq(i) == i = [s \in SUBSET DOMAIN q |->
                             IF s = {} THEN b ELSE T(i[s \ {Max(s)}], q[Max(s)])]
             it == CHOOSE i : Eq(i)
  <1>1. \A h, x : TurnOf("take nodes", {}, {}, {}, h, x) = T(h, x)
    BY DEF TurnOf
  <1>2. TakeNodesScalar(g, ns) = it[DOMAIN q]
    BY Zenon DEF TakeNodesScalar, NodeTurn, FoldLeft, MapThenFoldSet
  <1>3. DOMAIN q = 1..len /\ Len(q) = len
    OBVIOUS
  <1> HIDE DEF b, q, T
  <1>4. \A i : Eq(i) <=> Turns(i, "take nodes", {}, {}, {}, b, q)
    BY <1>1, Zenon DEF Turns
  <1>5. Eq(it)
    <2> HIDE DEF Eq
    <2> QED
      BY <1>3, <1>4, TurnsExist
  <1> HIDE DEF Eq, it
  <1>6. Turns(it, "take nodes", {}, {}, {}, b, q)
    BY <1>4, <1>5
  <1>7. RunsTo(it[DOMAIN q], "take nodes", {}, {}, {}, b, q)
    BY <1>3, <1>6, TurnsRun
  <1> QED
    BY <1>2, <1>7 DEF b, q

-----------------------------------------------------------------------------
(***************************************************************************)
(* A finite set of integers is listed in descending order.                 *)
(***************************************************************************)
LEMMA DescendingLists ==
  ASSUME NEW S \in SUBSET Int, IsFiniteSet(S), NEW q, q = Descending(S),
         NEW len, len = Cardinality(S)
  PROVE  /\ len \in Nat /\ DOMAIN q = 1..len /\ Len(q) = len
         /\ \A i \in 1..len : q[i] \in S
         /\ \A i, j \in 1..len : i < j => q[i] > q[j]
         /\ \A x \in S : \E i \in 1..len : q[i] = x
  <1>1. len \in Nat
    BY FS_CardinalityType
  <1>2. PICK p : Rising(p, len, S)
    BY RisingExists
  <1> DEFINE s == [i \in 1..len |-> p[len + 1 - i]]
  <1>3. s \in [1..len -> S] /\ \A i, j \in 1..len : i < j => s[i] > s[j]
    <2>1. \A i \in 1..len : len + 1 - i \in 1..len
      BY <1>1
    <2>2. \A i, j \in 1..len : i < j => len + 1 - j < len + 1 - i
      BY <1>1
    <2>3. \A i \in 1..len : p[i] \in S /\ p[i] \in Int
      BY <1>2 DEF Rising
    <2>4. \A i, j \in 1..len : i < j => p[i] < p[j]
      BY <1>2 DEF Rising
    <2> QED
      BY <2>1, <2>2, <2>3, <2>4
  <1> HIDE DEF s
  <1>4. \A i, j \in 1..len : i # j => s[i] # s[j]
    <2>1. \A i \in 1..len : s[i] \in Int
      BY <1>3
    <2>2. \A i, j \in 1..len : i < j \/ j < i \/ i = j
      BY <1>1
    <2> QED
      BY <1>3, <2>1, <2>2
  <1>5. s \in SetToSeqs(S) /\ DOMAIN s = 1..len
    BY <1>3, <1>4 DEF SetToSeqs
  <1>6. q \in SetToSeqs(S) /\ \A i, j \in DOMAIN q : i < j => q[i] > q[j]
    BY <1>3, <1>5 DEF Descending
  <1>7. q \in [1..len -> S] /\ \A i, j \in 1..len : i # j => q[i] # q[j]
    BY <1>6 DEF SetToSeqs
  <1>8. \A x \in S : \E i \in 1..len : q[i] = x
    <2>1. q \in [1..Cardinality(S) -> S] /\ \A i, j \in 1..Cardinality(S) : i # j => q[i] # q[j]
      BY <1>7
    <2>2. \A x \in S : \E i \in 1..Cardinality(S) : q[i] = x
      BY <2>1, ListingComplete, Zenon
    <2> QED
      BY <2>2
  <1> QED
    BY <1>1, <1>6, <1>7, <1>8

(***************************************************************************)
(* The position that x has now, or had at the start.                       *)
(***************************************************************************)
Now(moves, x) == IF x \in DOMAIN moves THEN moves[x] ELSE x

(***************************************************************************)
(* The outcome s of taking the victims T out of c, when those of X are to  *)
(* go.  Where the other entries have gone is what moves says, and origin   *)
(* is its inverse; no victim that is left has moved.                       *)
(***************************************************************************)
Compacting(dense, IX, S, c, X, T, s) ==
  /\ s = [c |-> s.c, moves |-> s.moves, origin |-> s.origin, taken |-> s.taken]
  /\ s.c \in Colls(dense, IX, S)
  /\ s.moves = [x \in DOMAIN s.moves |-> s.moves[x]]
  /\ \A x \in X : x \in T \/ x \in DOMAIN s.c
  /\ \A y \in DOMAIN s.c : /\ Now(s.origin, y) \in DOMAIN c /\ Now(s.origin, y) \notin T
                           /\ s.c[y] = c[Now(s.origin, y)]
                           /\ Now(s.moves, Now(s.origin, y)) = y
  /\ \A x \in DOMAIN c : x \notin T => /\ Now(s.moves, x) \in DOMAIN s.c
                                       /\ Now(s.origin, Now(s.moves, x)) = x
  /\ \A x \in DOMAIN s.moves : /\ x \in DOMAIN c /\ x \notin X /\ x \notin DOMAIN s.c
                               /\ s.moves[x] \in DOMAIN s.origin
                               /\ s.origin[s.moves[x]] = x
  /\ \A y \in DOMAIN s.origin : /\ y \in T /\ y \in DOMAIN s.c
                                /\ s.origin[y] \in DOMAIN s.moves
                                /\ s.moves[s.origin[y]] = y

(***************************************************************************)
(* Where an entry moves, none is after the last.                           *)
(***************************************************************************)
LEMMA LastIsHighest ==
  ASSUME NEW dense \in BOOLEAN, NEW X, NEW S, NEW c \in Colls(dense, X, S), NEW ix,
         Relocates(dense, c, ix)
  PROVE  \A x \in DOMAIN c : x \in Int /\ x <= LastIndex(c) /\ LastIndex(c) \in Int
  <1>1. (dense => DOMAIN c = 0..(Size(c) - 1)) /\ Size(c) \in Nat
    BY CollElim
  <1>2. dense = TRUE
    BY DEF Relocates
  <1> QED
    BY <1>1, <1>2 DEF LastIndex

(***************************************************************************)
(* The highest victim is taken next.                                       *)
(***************************************************************************)
LEMMA TakeNotingCompacts ==
  ASSUME NEW dense \in BOOLEAN, NEW IX, NEW S, NEW c, NEW X, NEW T, T \subseteq X, X \subseteq DOMAIN c,
         NEW s, Compacting(dense, IX, S, c, X, T, s),
         NEW ix \in X, ix \notin T, \A x \in X : x \notin T /\ x # ix => x \in Int /\ ix \in Int /\ x < ix,
         NEW U, \A x : x \in U <=> x \in T \/ x = ix,
         NEW h, h = TakeNoting(dense, s, ix)
  PROVE  Compacting(dense, IX, S, c, X, U, h)
  <1> DEFINE last == LastIndex(s.c)
             src == Now(s.origin, last)
             rel == Relocates(dense, s.c, ix)
             gone == Gone(dense, s.c, ix)
  <1>1. ix \in DOMAIN s.c
    BY DEF Compacting
  <1>2. s.c \in Colls(dense, IX, S)
    BY DEF Compacting
  <1>3. /\ h = [c |-> h.c, moves |-> h.moves, origin |-> h.origin, taken |-> h.taken]
        /\ h.c = Take(dense, s.c, ix)
        /\ rel => /\ h.moves = With(s.moves, src, ix)
                  /\ h.origin = With([i \in DOMAIN s.origin \ {last} |-> s.origin[i]], ix, src)
        /\ ~rel => h.moves = s.moves /\ h.origin = s.origin
    BY DEF Compacting, TakeNoting, Now
  <1>4. /\ h.c \in Colls(dense, IX, S)
        /\ gone \in DOMAIN s.c
        /\ \A i : i \in DOMAIN h.c <=> i \in DOMAIN s.c /\ i # gone
        /\ \A i \in DOMAIN h.c : h.c[i] = IF i = ix THEN s.c[gone] ELSE s.c[i]
        /\ rel => gone = last /\ gone # ix
        /\ ~rel => gone = ix
    BY <1>1, <1>2, <1>3, CollTake
  <1>5. rel => /\ h.moves = [x \in DOMAIN h.moves |-> h.moves[x]]
               /\ \A x : x \in DOMAIN h.moves <=> x = src \/ x \in DOMAIN s.moves
               /\ h.moves[src] = ix
               /\ \A x \in DOMAIN s.moves : x # src => h.moves[x] = s.moves[x]
               /\ \A y : y \in DOMAIN h.origin <=> y = ix \/ (y \in DOMAIN s.origin /\ y # last)
               /\ h.origin[ix] = src
               /\ \A y \in DOMAIN s.origin : y # last /\ y # ix => h.origin[y] = s.origin[y]
    BY <1>3 DEF With
  <1>6. rel => \A x \in X : x \notin T => x # last
    <2>1. rel => \A x \in DOMAIN s.c : x \in Int /\ x <= last /\ last \in Int
      BY <1>1, <1>2, LastIsHighest
    <2> QED
      BY <1>1, <2>1 DEF Compacting, Relocates
  <1>7. ix \notin DOMAIN s.origin /\ ix \notin DOMAIN s.moves
    BY <1>1 DEF Compacting
  <1> HIDE DEF last, rel, gone
  <1>8. CASE ~rel
    BY <1>1, <1>3, <1>4, <1>7, <1>8 DEF Compacting, Now
  <1>9. CASE rel
    <2>1. src \in DOMAIN c /\ src \notin T /\ src \notin X /\ s.c[last] = c[src]
          /\ Now(s.moves, src) = last
      BY <1>4, <1>6, <1>9 DEF Compacting, Now
    <2> HIDE DEF src
    <2>2. src \notin DOMAIN h.c
      BY <2>1, <1>4, <1>9 DEF Compacting, Now
    <2>3. \A x \in X : x \in U \/ x \in DOMAIN h.c
      BY <1>4, <1>6, <1>9 DEF Compacting
    <2>4. \A y \in DOMAIN h.c : Now(h.origin, y) = IF y = ix THEN src ELSE Now(s.origin, y)
      BY <1>4, <1>5, <1>9 DEF Now
    <2>5. \A x \in DOMAIN c : x \notin U => Now(h.moves, x) = IF x = src THEN ix ELSE Now(s.moves, x)
      BY <1>5, <1>9 DEF Now
    <2>6. \A y \in DOMAIN h.c : /\ Now(h.origin, y) \in DOMAIN c /\ Now(h.origin, y) \notin U
                                /\ h.c[y] = c[Now(h.origin, y)]
                                /\ Now(h.moves, Now(h.origin, y)) = y
      <3> SUFFICES ASSUME NEW y \in DOMAIN h.c
                   PROVE  /\ Now(h.origin, y) \in DOMAIN c /\ Now(h.origin, y) \notin U
                          /\ h.c[y] = c[Now(h.origin, y)]
                          /\ Now(h.moves, Now(h.origin, y)) = y
        OBVIOUS
      <3>1. CASE y = ix
        BY <2>1, <2>4, <2>5, <3>1, <1>4, <1>9
      <3>2. CASE y # ix
        <4>1. Now(h.origin, y) = Now(s.origin, y) /\ y \in DOMAIN s.c /\ y # last
          BY <2>4, <3>2, <1>4, <1>9
        <4>2. /\ Now(s.origin, y) \in DOMAIN c /\ Now(s.origin, y) \notin T
              /\ s.c[y] = c[Now(s.origin, y)]
              /\ Now(s.moves, Now(s.origin, y)) = y
          BY <4>1 DEF Compacting
        <4>3. Now(s.moves, ix) = ix
          BY <1>7 DEF Now
        <4>4. Now(s.origin, y) # ix /\ Now(s.origin, y) # src
          BY <2>1, <3>2, <4>1, <4>2, <4>3
        <4> QED
          BY <2>5, <3>2, <4>1, <4>2, <4>4, <1>4
      <3> QED
        BY <3>1, <3>2
    <2>7. \A x \in DOMAIN c : x \notin U => /\ Now(h.moves, x) \in DOMAIN h.c
                                            /\ Now(h.origin, Now(h.moves, x)) = x
      <3> SUFFICES ASSUME NEW x \in DOMAIN c, x \notin U
                   PROVE  Now(h.moves, x) \in DOMAIN h.c /\ Now(h.origin, Now(h.moves, x)) = x
        OBVIOUS
      <3>1. CASE x = src
        BY <2>4, <2>5, <3>1, <1>1, <1>4, <1>9
      <3>2. CASE x # src
        <4>1. Now(h.moves, x) = Now(s.moves, x) /\ x \notin T /\ x # ix
          BY <2>5, <3>2
        <4>2. Now(s.moves, x) \in DOMAIN s.c /\ Now(s.origin, Now(s.moves, x)) = x
          BY <4>1 DEF Compacting
        <4>3. Now(s.moves, x) # last
          <5>1. Now(s.origin, last) = src
            BY DEF src
          <5> QED
            BY <3>2, <4>2, <5>1
        <4>4. Now(s.moves, x) # ix
          BY <4>1, <4>2, <1>7 DEF Now
        <4> QED
          BY <2>4, <4>1, <4>2, <4>3, <4>4, <1>4, <1>9
      <3> QED
        BY <3>1, <3>2
    <2>8. \A x \in DOMAIN s.moves : x # src => s.moves[x] # last /\ s.moves[x] # ix
      BY <2>1, <1>7 DEF Compacting, src, Now
    <2>9. \A x \in DOMAIN h.moves : /\ x \in DOMAIN c /\ x \notin X /\ x \notin DOMAIN h.c
                                    /\ h.moves[x] \in DOMAIN h.origin
                                    /\ h.origin[h.moves[x]] = x
      BY <2>1, <2>2, <2>8, <1>4, <1>5, <1>9 DEF Compacting
    <2>10. \A y \in DOMAIN h.origin : /\ y \in U /\ y \in DOMAIN h.c
                                      /\ h.origin[y] \in DOMAIN h.moves
                                      /\ h.moves[h.origin[y]] = y
      <3> SUFFICES ASSUME NEW y \in DOMAIN h.origin
                   PROVE  /\ y \in U /\ y \in DOMAIN h.c
                          /\ h.origin[y] \in DOMAIN h.moves /\ h.moves[h.origin[y]] = y
        OBVIOUS
      <3>1. CASE y = ix
        BY <3>1, <1>1, <1>4, <1>5, <1>9
      <3>2. CASE y # ix
        <4>1. y \in DOMAIN s.origin /\ y # last /\ h.origin[y] = s.origin[y]
          BY <3>2, <1>5, <1>9
        <4>2. y \in T /\ y \in DOMAIN s.c /\ s.origin[y] \in DOMAIN s.moves /\ s.moves[s.origin[y]] = y
          BY <4>1 DEF Compacting
        <4>3. s.origin[y] # src
          BY <2>1, <4>1, <4>2 DEF Now
        <4> QED
          BY <4>1, <4>2, <4>3, <1>4, <1>5, <1>9
      <3> QED
        BY <3>1, <3>2
    <2> QED
      BY <2>3, <2>6, <2>7, <2>9, <2>10, <1>3, <1>4, <1>5, <1>9 DEF Compacting
  <1> QED
    BY <1>8, <1>9

(***************************************************************************)
(* All victims are taken.                                                  *)
(***************************************************************************)
LEMMA TakeAllCompacts ==
  ASSUME NEW dense \in BOOLEAN, NEW IX, NEW S, NEW c \in Colls(dense, IX, S),
         NEW X \in SUBSET Int, X \subseteq DOMAIN c, NEW t, t = TakeAll(dense, c, X)
  PROVE  Compacting(dense, IX, S, c, X, X, t)
  <1> DEFINE q == Descending(X)
             len == Cardinality(X)
             b == [c |-> c, moves |-> <<>>, origin |-> <<>>, taken |-> <<>>]
             T(k) == {q[i] : i \in 1..k}
  <1>1. IsFiniteSet(X)
    <2>1. IsFiniteSet(DOMAIN c)
      BY CollElim
    <2> QED
      BY <2>1, FS_Subset
  <1>2. /\ len \in Nat /\ DOMAIN q = 1..len /\ Len(q) = len
        /\ \A i \in 1..len : q[i] \in X
        /\ \A i, j \in 1..len : i < j => q[i] > q[j]
        /\ \A x \in X : \E i \in 1..len : q[i] = x
    BY <1>1, DescendingLists
  <1> HIDE DEF q, len, b, T
  <1>3. RunsTo(TakeAll(dense, c, X), "take entries", {}, {}, dense, b, q)
    BY <1>2, TakeAllRuns DEF q, len, b
  <1>4. PICK f : Runs(f, "take entries", {}, {}, dense, b, q) /\ f[len] = t
    BY <1>2, <1>3 DEF RunsTo
  <1>5. f[0] = b /\ \A k \in 1..len : f[k] = TakeNoting(dense, f[k - 1], q[k])
    BY <1>2, <1>4 DEF Runs, TurnOf
  <1> DEFINE K == {k \in 0..len : Compacting(dense, IX, S, c, X, T(k), f[k])}
  <1>6. 0 \in K
    <2>1. T(0) = {}
      BY DEF T
    <2>2. b.c = c /\ b.moves = <<>> /\ b.origin = <<>>
          /\ b = [c |-> b.c, moves |-> b.moves, origin |-> b.origin, taken |-> b.taken]
      BY DEF b
    <2>3. DOMAIN <<>> = {} /\ <<>> = [x \in DOMAIN <<>> |-> <<>>[x]]
      OBVIOUS
    <2>4. b.moves = [x \in DOMAIN b.moves |-> b.moves[x]]
      BY <2>2, <2>3
    <2>5. DOMAIN b.moves = {} /\ DOMAIN b.origin = {}
      BY <2>2, <2>3
    <2>6. Compacting(dense, IX, S, c, X, {}, b)
      BY <2>2, <2>4, <2>5 DEF Compacting, Now
    <2>7. f[0] = b
      BY <1>5
    <2>8. Compacting(dense, IX, S, c, X, T(0), f[0])
      BY <2>1, <2>6, <2>7, Zenon
    <2> QED
      BY <1>2, <2>8
  <1>7. \A k \in 1..len : k - 1 \in K => k \in K
    <2> SUFFICES ASSUME NEW k \in 1..len, k - 1 \in K PROVE k \in K
      OBVIOUS
    <2>1. Compacting(dense, IX, S, c, X, T(k - 1), f[k - 1]) /\ f[k] = TakeNoting(dense, f[k - 1], q[k])
      BY <1>5
    <2>2. \A x : x \in T(k - 1) <=> \E i \in 1..len : i < k /\ q[i] = x
      BY <1>2 DEF T
    <2>3. \A x : x \in T(k) <=> x \in T(k - 1) \/ x = q[k]
      BY <1>2 DEF T
    <2>4. T(k - 1) \subseteq X /\ q[k] \in X
      BY <1>2, <2>2
    <2>5. \A i \in 1..len : q[i] \in Int
      BY <1>2
    <2>6. q[k] \notin T(k - 1)
      BY <1>2, <2>2, <2>5
    <2>7. \A x \in X : x \notin T(k - 1) /\ x # q[k] => x \in Int /\ q[k] \in Int /\ x < q[k]
      BY <1>2, <2>2, <2>5
    <2>8. Compacting(dense, IX, S, c, X, T(k), f[k])
      <3> DEFINE A == T(k - 1)
                 B == T(k)
                 y == q[k]
                 h == f[k - 1]
      <3>1. /\ Compacting(dense, IX, S, c, X, A, h) /\ f[k] = TakeNoting(dense, h, y)
            /\ A \subseteq X /\ y \in X /\ y \notin A
            /\ \A x : x \in B <=> x \in A \/ x = y
            /\ \A x \in X : x \notin A /\ x # y => x \in Int /\ y \in Int /\ x < y
        BY <2>1, <2>3, <2>4, <2>6, <2>7
      <3> HIDE DEF T, A, B, y, h, K
      <3>2. Compacting(dense, IX, S, c, X, B, f[k])
        BY <3>1, TakeNotingCompacts, ZenonT(30)
      <3> QED
        BY <3>2 DEF B
    <2> QED
      BY <1>2, <2>8
  <1>8. len \in K
    <2> HIDE DEF K
    <2>1. len \in Nat
      BY <1>2
    <2>2. \A k \in 0..len : k \in K
      BY <2>1, <1>6, <1>7, RoundInduction
    <2>3. len \in 0..len
      BY <2>1
    <2> QED
      BY <2>2, <2>3
  <1>9. T(len) = X
    BY <1>2 DEF T
  <1> QED
    BY <1>4, <1>8, <1>9

-----------------------------------------------------------------------------
(***************************************************************************)
(* A pointer of a chain is redirected.                                     *)
(***************************************************************************)
LEMMA SlotSet ==
  ASSUME NEW g \in Tables, NEW n \in NIx(g), NEW d \in Dirs,
         NEW p, p = Sentinel \/ p \in EIx(g), NEW new \in Slots,
         NEW h, h = SetSlotAfter(g, n, d, p, new)
  PROVE  /\ h \in Tables /\ NIx(h) = NIx(g) /\ EIx(h) = EIx(g)
         /\ \A m \in NIx(g), c \in Dirs :
              First(h, m, c) = IF p = Sentinel /\ m = n /\ c = d THEN new ELSE First(g, m, c)
         /\ \A e \in EIx(g), c \in Dirs :
              /\ Succ(h, e, c) = IF e = p /\ c = d THEN new ELSE Succ(g, e, c)
              /\ End(h, e, c) = End(g, e, c)
  <1>0. Sentinel \notin EIx(g)
    BY PartTypes
  <1>1. CASE p = Sentinel
    <2>1. h = [g EXCEPT !.nodes[n].next[d] = new]
      BY <1>1, Zenon DEF SetSlotAfter
    <2>2. /\ h \in Tables /\ NIx(h) = NIx(g) /\ EIx(h) = EIx(g)
          /\ \A m \in NIx(g), c \in Dirs :
               First(h, m, c) = IF m = n /\ c = d THEN new ELSE First(g, m, c)
          /\ \A e \in EIx(g), c \in Dirs :
               Succ(h, e, c) = Succ(g, e, c) /\ End(h, e, c) = End(g, e, c)
      BY <2>1, SetFirst
    <2> QED
      BY <1>0, <1>1, <2>2
  <1>2. CASE p # Sentinel
    <2> DEFINE F == [g.edges[p] EXCEPT !.next[d] = new]
               E == [g.edges EXCEPT ![p] = F]
    <2>1. h = [g EXCEPT !.edges = E]
      BY <1>2, Zenon DEF SetSlotAfter
    <2>2. p \in EIx(g) /\ g.edges[p] \in EdgeEntries
      BY <1>2, PartTypes
    <2>3. /\ F \in EdgeEntries /\ F.val = g.edges[p].val /\ F.next[d] = new
          /\ \A c \in Dirs : c # d => F.next[c] = g.edges[p].next[c]
          /\ F.node = g.edges[p].node
      BY <2>2, EdgeEntryLink
    <2> HIDE DEF F
    <2>4. g.edges = [x \in DOMAIN g.edges |-> g.edges[x]]
      <3>1. g.edges \in Colls(DenseEdges, EdgeIndices, EdgeEntries)
        BY TablesElim
      <3> QED
        BY <3>1, CollElim
    <2>5. /\ E = [x \in DOMAIN g.edges |-> E[x]]
          /\ \A x \in DOMAIN g.edges : E[x] = IF x = p THEN F ELSE g.edges[x]
      BY <2>2, <2>4 DEF EIx
    <2> HIDE DEF E
    <2>6. ASSUME NEW x \in EIx(g)
          PROVE  /\ E[x] \in EdgeEntries /\ E[x].val = g.edges[x].val
                 /\ E[x].node = g.edges[x].node
                 /\ \A c \in Dirs :
                      E[x].next[c] = IF x \in {p} /\ c = d THEN new ELSE g.edges[x].next[c]
      <3>1. g.edges[x] \in EdgeEntries /\ x \in DOMAIN g.edges
        BY PartTypes DEF EIx
      <3>2. CASE x = p
        <4>1. E[x] = F
          BY <2>5, <3>1, <3>2
        <4> QED
          BY <2>3, <3>2, <4>1
      <3>3. CASE x # p
        <4>1. E[x] = g.edges[x]
          BY <2>5, <3>1, <3>3
        <4> QED
          BY <3>1, <3>3, <4>1
      <3> QED
        BY <3>2, <3>3
    <2>7. Linking(g, {p}, d, new, E)
      BY <2>5, <2>6, Zenon DEF Linking
    <2>8. h = [nodes |-> g.nodes, edges |-> E]
      BY <2>1, TablesElim
    <2>9. /\ h \in Tables /\ NIx(h) = NIx(g) /\ EIx(h) = EIx(g)
          /\ \A m \in NIx(g), c \in Dirs : First(h, m, c) = First(g, m, c)
      BY <2>7, <2>8, SetSuccsFrame
    <2>10. \A e \in EIx(g), c \in Dirs :
             /\ Succ(h, e, c) = IF e \in {p} /\ c = d THEN new ELSE Succ(g, e, c)
             /\ End(h, e, c) = End(g, e, c)
      BY <2>7, <2>8, SetSuccs
    <2> QED
      BY <1>2, <2>9, <2>10
  <1> QED
    BY <1>1, <1>2

(***************************************************************************)
(* The pointer that a sweep reads next, at p of the chain of n, is the     *)
(* only one to the youngest of the edges that are older than p, or it is   *)
(* the sentinel if there are none.                                         *)
(***************************************************************************)
LEMMA NextOnChain ==
  ASSUME NEW g, NEW n \in NIx(g), NEW d, NEW S, NEW r, Threads(g, d, S, r), Sentinel \notin S,
         NEW p, p = Sentinel \/ (p \in S /\ End(g, p, d) = n),
         NEW next, next = IF p = Sentinel THEN First(g, n, d) ELSE Succ(g, p, d)
  PROVE  /\ next = Sentinel \/ (next \in S /\ End(g, next, d) = n)
         /\ next # Sentinel /\ p # Sentinel => r[next] < r[p]
         /\ \A x \in S : End(g, x, d) = n /\ (p = Sentinel \/ r[x] < r[p]) =>
              next # Sentinel /\ r[x] <= r[next]
         /\ next # Sentinel => /\ \A m \in NIx(g) : First(g, m, d) = next => m = n /\ p = Sentinel
                               /\ \A x \in S : Succ(g, x, d) = next => x = p
  <1>1. /\ \A x \in S \cup {Sentinel} : r[x] \in Int
        /\ \A x, y \in S : r[x] = r[y] => x = y
        /\ \A x \in S : r[Sentinel] < r[x]
    BY DEF Threads
  <1>2. \A m \in NIx(g) :
       /\ First(g, m, d) \in S \cup {Sentinel}
       /\ First(g, m, d) \in S => End(g, First(g, m, d), d) = m
       /\ \A x \in S : End(g, x, d) = m => r[x] <= r[First(g, m, d)]
    BY DEF Threads
  <1>3. \A e \in S :
       /\ Succ(g, e, d) \in S \cup {Sentinel}
       /\ Succ(g, e, d) \in S => End(g, Succ(g, e, d), d) = End(g, e, d)
       /\ r[Succ(g, e, d)] < r[e]
       /\ \A x \in S : End(g, x, d) = End(g, e, d) /\ r[x] < r[e] => r[x] <= r[Succ(g, e, d)]
    BY DEF Threads
  <1>4. CASE p = Sentinel
    <2>1. next = First(g, n, d)
      BY <1>4
    <2>2. \A x \in S : End(g, x, d) = n => next # Sentinel /\ r[x] <= r[next]
      BY <1>1, <1>2, <2>1
    <2>3. ASSUME next # Sentinel
          PROVE  /\ \A m \in NIx(g) : First(g, m, d) = next => m = n
                 /\ \A x \in S : Succ(g, x, d) = next => x = p
      <3>1. next \in S /\ End(g, next, d) = n
        BY <1>2, <2>1, <2>3
      <3>2. \A m \in NIx(g) : First(g, m, d) = next => m = n
        BY <1>2, <3>1
      <3>3. \A x \in S : Succ(g, x, d) # next
        BY <1>1, <1>2, <1>3, <2>1, <3>1
      <3> QED
        BY <3>2, <3>3
    <2> QED
      BY <1>2, <1>4, <2>1, <2>2, <2>3
  <1>5. CASE p # Sentinel
    <2>1. next = Succ(g, p, d) /\ p \in S /\ End(g, p, d) = n
      BY <1>5
    <2>2. \A x \in S : End(g, x, d) = n /\ r[x] < r[p] => next # Sentinel /\ r[x] <= r[next]
      BY <1>1, <1>3, <2>1
    <2>3. ASSUME next # Sentinel
          PROVE  /\ \A m \in NIx(g) : First(g, m, d) # next
                 /\ \A x \in S : Succ(g, x, d) = next => x = p
      <3>1. next \in S /\ End(g, next, d) = n /\ r[next] < r[p]
        BY <1>3, <2>1, <2>3
      <3>2. \A m \in NIx(g) : First(g, m, d) # next
        <4> SUFFICES ASSUME NEW m \in NIx(g), First(g, m, d) = next PROVE FALSE
          OBVIOUS
        <4>1. m = n
          BY <1>2, <3>1
        <4>2. r[p] <= r[next]
          BY <1>2, <2>1, <4>1
        <4> QED
          BY <1>1, <2>1, <3>1, <4>2
      <3>3. \A x \in S : Succ(g, x, d) = next => x = p
        <4> SUFFICES ASSUME NEW x \in S, Succ(g, x, d) = next, x # p PROVE FALSE
          OBVIOUS
        <4>1. End(g, x, d) = n /\ r[next] < r[x] /\ r[x] \in Int /\ r[p] \in Int /\ r[next] \in Int /\ r[x] # r[p]
          BY <1>1, <1>3, <2>1, <3>1
        <4>2. CASE r[x] < r[p]
          <5>1. r[x] <= r[next]
            BY <1>3, <2>1, <4>1, <4>2
          <5> QED
            BY <4>1, <5>1
        <4>3. CASE r[p] < r[x]
          <5>1. r[p] <= r[next]
            BY <1>3, <2>1, <4>1, <4>3
          <5> QED
            BY <3>1, <4>1, <5>1
        <4> QED
          BY <4>1, <4>2, <4>3
      <3> QED
        BY <3>2, <3>3
    <2>4. next = Sentinel \/ (next \in S /\ End(g, next, d) = n /\ r[next] < r[p])
      BY <1>3, <2>1
    <2> QED
      BY <1>5, <2>2, <2>3, <2>4
  <1> QED
    BY <1>4, <1>5

(***************************************************************************)
(* A graph with given pointers and ends.                                   *)
(***************************************************************************)
Draws(v, N, E, first, succ, end) ==
  /\ NIx(v) = N /\ EIx(v) = E
  /\ \A n \in N, d \in Dirs : First(v, n, d) = first[n][d]
  /\ \A e \in E, d \in Dirs : Succ(v, e, d) = succ[e][d] /\ End(v, e, d) = end[e][d]

(***************************************************************************)
(* There is one.                                                           *)
(***************************************************************************)
LEMMA Drawn ==
  ASSUME NEW N, NEW E, NEW first, NEW succ, NEW end
  PROVE  \E v : Draws(v, N, E, first, succ, end)
  <1> DEFINE nodes == [n \in N |-> [next |-> [d \in Dirs |-> first[n][d]]]]
             edges == [e \in E |-> [next |-> [d \in Dirs |-> succ[e][d]],
                                    node |-> [d \in Dirs |-> end[e][d]]]]
             v == [nodes |-> nodes, edges |-> edges]
  <1>1. v.nodes = nodes /\ v.edges = edges
    OBVIOUS
  <1>2. NIx(v) = N /\ EIx(v) = E
    BY <1>1 DEF NIx, EIx
  <1>3. ASSUME NEW n \in N, NEW d \in Dirs PROVE First(v, n, d) = first[n][d]
    <2>1. v.nodes[n].next[d] = first[n][d]
      OBVIOUS
    <2> HIDE DEF v
    <2> QED
      BY <2>1 DEF First
  <1>4. ASSUME NEW e \in E, NEW d \in Dirs
        PROVE  Succ(v, e, d) = succ[e][d] /\ End(v, e, d) = end[e][d]
    <2>1. v.edges[e].next[d] = succ[e][d] /\ v.edges[e].node[d] = end[e][d]
      OBVIOUS
    <2> HIDE DEF v
    <2> QED
      BY <2>1 DEF Succ, End
  <1> HIDE DEF v
  <1>5. Draws(v, N, E, first, succ, end)
    BY <1>2, <1>3, <1>4 DEF Draws
  <1> QED
    BY <1>5

(***************************************************************************)
(* The edges of T in h are, under the indices that origin gives, the edges *)
(* of S in g, except that those at the nodes of X are missing.             *)
(***************************************************************************)
Relabelled(g, h, d, S, T, X, moves, origin) ==
  /\ \A y \in T : /\ Now(origin, y) \in S /\ Now(moves, Now(origin, y)) = y
                  /\ End(g, Now(origin, y), d) \notin X
  /\ \A x \in S : End(g, x, d) \notin X => Now(moves, x) \in T /\ Now(origin, Now(moves, x)) = x
  /\ \A n \in NIx(g) : First(h, n, d) = IF n \in X THEN Sentinel ELSE Now(moves, First(g, n, d))
  /\ \A y \in T : /\ Succ(h, y, d) = Now(moves, Succ(g, Now(origin, y), d))
                  /\ End(h, y, d) = End(g, Now(origin, y), d)

(***************************************************************************)
(* Threads survive that.                                                   *)
(***************************************************************************)
LEMMA EdgesMoved ==
  ASSUME NEW g, NEW h, NIx(h) = NIx(g), NEW d, NEW S, NEW r, Threads(g, d, S, r), NEW T, NEW X,
         Sentinel \notin S, Sentinel \notin T,
         NEW moves, NEW origin, Now(moves, Sentinel) = Sentinel,
         Relabelled(g, h, d, S, T, X, moves, origin)
  PROVE  \E q : Threads(h, d, T, q)
  <1> DEFINE q == [y \in T \cup {Sentinel} |-> IF y = Sentinel THEN r[Sentinel] ELSE r[Now(origin, y)]]
             B(y) == Now(origin, y)
             F(x) == Now(moves, x)
  <1>1. /\ \A y \in T : q[y] = r[B(y)]
        /\ q[Sentinel] = r[Sentinel]
        /\ \A y \in T : B(y) \in S /\ F(B(y)) = y /\ End(g, B(y), d) \notin X
        /\ \A x \in S : End(g, x, d) \notin X => F(x) \in T /\ B(F(x)) = x
        /\ F(Sentinel) = Sentinel
    BY DEF Relabelled
  <1>2. /\ \A y \in T : Succ(h, y, d) = F(Succ(g, B(y), d)) /\ End(h, y, d) = End(g, B(y), d)
        /\ \A n \in NIx(g) : First(h, n, d) = IF n \in X THEN Sentinel ELSE F(First(g, n, d))
    BY DEF Relabelled
  <1> HIDE DEF q, B, F
  <1>3. /\ \A y \in T \cup {Sentinel} : q[y] \in Int
        /\ \A x, y \in T : q[x] = q[y] => x = y
        /\ \A y \in T : q[Sentinel] < q[y]
        /\ \A y \in T : End(h, y, d) \in NIx(h)
    BY <1>1, <1>2 DEF Threads
  <1>4. \A x \in S : End(g, x, d) \notin X => q[F(x)] = r[x] /\ F(x) \in T
    BY <1>1
  <1>5. ASSUME NEW n \in NIx(h)
        PROVE  /\ First(h, n, d) \in T \cup {Sentinel}
               /\ First(h, n, d) \in T => End(h, First(h, n, d), d) = n
               /\ \A y \in T : End(h, y, d) = n => q[y] <= q[First(h, n, d)]
    <2> DEFINE f == First(g, n, d)
    <2>1. /\ f \in S \cup {Sentinel}
          /\ f \in S => End(g, f, d) = n
          /\ \A x \in S : End(g, x, d) = n => r[x] <= r[f]
      BY DEF Threads
    <2>2. First(h, n, d) = IF n \in X THEN Sentinel ELSE F(f)
      BY <1>2
    <2> HIDE DEF f
    <2>3. CASE n \in X
      BY <1>1, <1>2, <2>2, <2>3
    <2>4. CASE n \notin X
      <3>1. CASE f \in S
        <4>1. F(f) \in T /\ B(F(f)) = f /\ q[F(f)] = r[f] /\ First(h, n, d) = F(f)
          BY <1>1, <1>4, <2>1, <2>2, <2>4, <3>1
        <4>2. \A y \in T : End(h, y, d) = n => q[y] <= r[f]
          BY <1>1, <1>2, <2>1
        <4> QED
          BY <1>2, <2>1, <3>1, <4>1, <4>2
      <3>2. CASE f = Sentinel
        <4>1. First(h, n, d) = Sentinel
          BY <1>1, <2>2, <2>4, <3>2
        <4>2. \A y \in T : End(h, y, d) = n => q[y] <= q[Sentinel]
          BY <1>1, <1>2, <2>1, <3>2
        <4> QED
          BY <4>1, <4>2
      <3> QED
        BY <2>1, <3>1, <3>2
    <2> QED
      BY <2>3, <2>4
  <1>6. ASSUME NEW p \in T
        PROVE  /\ Succ(h, p, d) \in T \cup {Sentinel}
               /\ Succ(h, p, d) \in T => End(h, Succ(h, p, d), d) = End(h, p, d)
               /\ q[Succ(h, p, d)] < q[p]
               /\ \A y \in T : End(h, y, d) = End(h, p, d) /\ q[y] < q[p] => q[y] <= q[Succ(h, p, d)]
    <2> DEFINE f == Succ(g, B(p), d)
    <2>0. B(p) \in S /\ q[p] = r[B(p)] /\ End(h, p, d) = End(g, B(p), d) /\ End(g, B(p), d) \notin X
      BY <1>1, <1>2
    <2>1. /\ f \in S \cup {Sentinel}
          /\ f \in S => End(g, f, d) = End(g, B(p), d)
          /\ r[f] < r[B(p)]
          /\ \A x \in S : End(g, x, d) = End(g, B(p), d) /\ r[x] < r[B(p)] => r[x] <= r[f]
      BY <2>0 DEF Threads
    <2>2. Succ(h, p, d) = F(f)
      BY <1>2
    <2> HIDE DEF f
    <2>3. /\ F(f) \in T \cup {Sentinel} /\ q[F(f)] = r[f]
          /\ F(f) \in T => End(h, F(f), d) = End(h, p, d)
      <3>1. CASE f \in S
        BY <1>1, <1>2, <1>4, <2>0, <2>1, <3>1
      <3>2. CASE f = Sentinel
        BY <1>1, <3>2
      <3> QED
        BY <2>1, <3>1, <3>2
    <2>4. ASSUME NEW y \in T, End(h, y, d) = End(h, p, d), q[y] < q[p] PROVE q[y] <= q[F(f)]
      <3>1. B(y) \in S /\ End(g, B(y), d) = End(g, B(p), d) /\ q[y] = r[B(y)]
        BY <1>1, <1>2, <2>0, <2>4
      <3> QED
        BY <2>0, <2>1, <2>3, <2>4, <3>1
    <2> QED
      BY <2>0, <2>1, <2>2, <2>3, <2>4
  <1>7. Threads(h, d, T, q)
    BY <1>3, <1>5, <1>6 DEF Threads
  <1> QED
    BY <1>7

(***************************************************************************)
(* The nodes of h are, under the indices that origin gives, those of g,    *)
(* except that those of X, which have no edges, are missing.               *)
(***************************************************************************)
Renumbered(g, h, d, S, X, moves, origin) ==
  /\ \A x \in NIx(g) : x \notin X => Now(moves, x) \in NIx(h) /\ Now(origin, Now(moves, x)) = x
  /\ \A y \in NIx(h) : Now(origin, y) \in NIx(g) /\ Now(moves, Now(origin, y)) = y
  /\ \A x \in S : End(g, x, d) \notin X
  /\ \A y \in NIx(h) : First(h, y, d) = First(g, Now(origin, y), d)
  /\ \A x \in S : Succ(h, x, d) = Succ(g, x, d) /\ End(h, x, d) = Now(moves, End(g, x, d))

(***************************************************************************)
(* Threads survive that, too.                                              *)
(***************************************************************************)
LEMMA NodesMoved ==
  ASSUME NEW g, NEW h, NEW d, NEW S, NEW r, Threads(g, d, S, r), NEW X, Sentinel \notin S,
         NEW moves, NEW origin, Renumbered(g, h, d, S, X, moves, origin)
  PROVE  Threads(h, d, S, r)
  <1> DEFINE B(y) == Now(origin, y)
             F(x) == Now(moves, x)
  <1>1. /\ \A x \in NIx(g) : x \notin X => F(x) \in NIx(h) /\ B(F(x)) = x
        /\ \A y \in NIx(h) : B(y) \in NIx(g) /\ F(B(y)) = y
        /\ \A y \in NIx(h) : First(h, y, d) = First(g, B(y), d)
        /\ \A x \in S : End(h, x, d) = F(End(g, x, d))
    BY DEF Renumbered
  <1> HIDE DEF B, F
  <1>2. \A x \in S : End(g, x, d) \in NIx(g) /\ End(g, x, d) \notin X
    BY DEF Threads, Renumbered
  <1>3. \A x \in S : End(h, x, d) \in NIx(h) /\ B(End(h, x, d)) = End(g, x, d)
    BY <1>1, <1>2
  <1>4. \A n \in NIx(h) :
       /\ First(h, n, d) \in S \cup {Sentinel}
       /\ First(h, n, d) \in S => End(h, First(h, n, d), d) = n
       /\ \A x \in S : End(h, x, d) = n => r[x] <= r[First(h, n, d)]
    <2> SUFFICES ASSUME NEW n \in NIx(h)
                 PROVE  /\ First(h, n, d) \in S \cup {Sentinel}
                        /\ First(h, n, d) \in S => End(h, First(h, n, d), d) = n
                        /\ \A x \in S : End(h, x, d) = n => r[x] <= r[First(h, n, d)]
      OBVIOUS
    <2> DEFINE f == First(g, B(n), d)
    <2>1. B(n) \in NIx(g) /\ First(h, n, d) = f /\ F(B(n)) = n
      BY <1>1
    <2>2. /\ f \in S \cup {Sentinel}
          /\ f \in S => End(g, f, d) = B(n)
          /\ \A x \in S : End(g, x, d) = B(n) => r[x] <= r[f]
      BY <2>1 DEF Threads
    <2> HIDE DEF f
    <2> QED
      BY <1>1, <1>3, <2>1, <2>2
  <1>5. \A x, y \in S : End(h, x, d) = End(h, y, d) <=> End(g, x, d) = End(g, y, d)
    BY <1>1, <1>3
  <1>6. \A e \in S :
       /\ Succ(h, e, d) \in S \cup {Sentinel}
       /\ Succ(h, e, d) \in S => End(h, Succ(h, e, d), d) = End(h, e, d)
       /\ r[Succ(h, e, d)] < r[e]
       /\ \A x \in S : End(h, x, d) = End(h, e, d) /\ r[x] < r[e] => r[x] <= r[Succ(h, e, d)]
    BY <1>5 DEF Threads, Renumbered
  <1>7. /\ \A x \in S \cup {Sentinel} : r[x] \in Int
        /\ \A x, y \in S : r[x] = r[y] => x = y
        /\ \A x \in S : r[Sentinel] < r[x]
    BY DEF Threads
  <1> QED
    BY <1>3, <1>4, <1>6, <1>7 DEF Threads

-----------------------------------------------------------------------------
(***************************************************************************)
(* The edges of es whose end in direction d is n.                          *)
(***************************************************************************)
EndingAt(g, es, n, d) == {e \in EIx(g) : e \in es /\ End(g, e, d) = n}

(***************************************************************************)
(* The edges of S without the dying ones that a sweep has visited.         *)
(***************************************************************************)
Spared(S, D, Q) == {x \in S : ~(x \in Q /\ x \in D)}

(***************************************************************************)
(* After k turns of the sweep that unlinks the edges of D from chain d of  *)
(* n the state is s, and the edges of Q have been visited: the youngest    *)
(* ones.  M is all that are to be unlinked.                                *)
(***************************************************************************)
Unlinking(g, n, d, S, r, D, M, Q, s, k) ==
  /\ s = [g |-> s.g, pred |-> s.pred, left |-> s.left]
  /\ s.g \in Tables /\ NIx(s.g) = NIx(g) /\ EIx(s.g) = EIx(g)
  /\ \A m \in NIx(g), c \in Dirs : c # d => First(s.g, m, c) = First(g, m, c)
  /\ \A e \in EIx(g), c \in Dirs : /\ c # d => Succ(s.g, e, c) = Succ(g, e, c)
                                   /\ End(s.g, e, c) = End(g, e, c)
  /\ Threads(s.g, d, Spared(S, D, Q), r)
  /\ \A x \in Q : x \in S /\ End(g, x, d) = n
  /\ \A x \in Q : \A y \in S : End(g, y, d) = n /\ r[x] < r[y] => y \in Q
  /\ \/ s.pred = Sentinel /\ \A x \in Q : x \in D
     \/ s.pred \in Q /\ s.pred \notin D /\ \A x \in Q : x \notin D => r[s.pred] <= r[x]
  /\ s.left = Cardinality(M \ Q)
  /\ Cardinality(Q) = k \/ s.left = 0

(***************************************************************************)
(* One more turn.                                                          *)
(***************************************************************************)
LEMMA UnlinkTurnVisits ==
  ASSUME NEW g \in Tables, NEW n \in NIx(g), NEW d \in Dirs, NEW S, S \subseteq EIx(g), NEW r,
         \A x \in S : r[x] \in Int, \A x, y \in S : r[x] = r[y] => x = y,
         NEW D, NEW M, \A x : x \in M <=> x \in S /\ x \in D /\ End(g, x, d) = n,
         NEW Q, NEW s, NEW k \in Nat, Unlinking(g, n, d, S, r, D, M, Q, s, k),
         NEW h, h = UnlinkTurn(s, n, d, D)
  PROVE  \E P : Unlinking(g, n, d, S, r, D, M, P, h, k + 1)
  <1> DEFINE next == IF s.pred = Sentinel THEN First(s.g, n, d) ELSE Succ(s.g, s.pred, d)
  <1>1. SlotAfter(s.g, n, d, s.pred) = next
    BY DEF SlotAfter, First, Succ
  <1>2. /\ s.g \in Tables /\ NIx(s.g) = NIx(g) /\ EIx(s.g) = EIx(g) /\ Sentinel \notin EIx(g)
        /\ IsFiniteSet(EIx(g))
    BY PartTypes DEF Unlinking
  <1>3. IsFiniteSet(M \ Q) /\ IsFiniteSet(Q) /\ Q \subseteq EIx(g)
    <2>1. M \ Q \subseteq EIx(g) /\ Q \subseteq EIx(g)
      BY DEF Unlinking
    <2> QED
      BY <1>2, <2>1, FS_Subset
  <1>4. s.left \in Nat /\ (s.left = 0 <=> M \ Q = {})
    BY <1>3, FS_CardinalityType, FS_EmptySet DEF Unlinking
  <1>5. /\ \A x : x \in Spared(S, D, Q) <=> x \in S /\ ~(x \in Q /\ x \in D)
        /\ Sentinel \notin Spared(S, D, Q)
    BY <1>2 DEF Spared
  <1>6. \A x \in S : End(s.g, x, d) = End(g, x, d)
    BY DEF Unlinking
  <1> HIDE DEF next
  <1>7. CASE s.left = 0
    <2>1. h = s
      BY <1>7 DEF UnlinkTurn
    <2>2. Unlinking(g, n, d, S, r, D, M, Q, h, k + 1)
      BY <1>7, <2>1 DEF Unlinking
    <2> QED
      BY <2>2
  <1>8. CASE s.left # 0
    <2>1. \/ s.pred = Sentinel /\ \A x \in Q : x \in D
          \/ s.pred \in Q /\ s.pred \notin D /\ \A x \in Q : x \notin D => r[s.pred] <= r[x]
      BY DEF Unlinking
    <2>2. \A x \in Q : x \in S /\ End(g, x, d) = n
      BY DEF Unlinking
    <2>3. \A x \in Q : \A y \in S : End(g, y, d) = n /\ r[x] < r[y] => y \in Q
      BY DEF Unlinking
    <2>4. s.pred = Sentinel \/ (s.pred \in Spared(S, D, Q) /\ End(s.g, s.pred, d) = n)
      BY <1>5, <1>6, <2>1, <2>2
    <2>5. Threads(s.g, d, Spared(S, D, Q), r) /\ n \in NIx(s.g)
      BY <1>2 DEF Unlinking
    <2>6. /\ next = Sentinel \/ (next \in Spared(S, D, Q) /\ End(s.g, next, d) = n)
          /\ next # Sentinel /\ s.pred # Sentinel => r[next] < r[s.pred]
          /\ \A x \in Spared(S, D, Q) : End(s.g, x, d) = n /\ (s.pred = Sentinel \/ r[x] < r[s.pred]) =>
               next # Sentinel /\ r[x] <= r[next]
          /\ next # Sentinel => /\ \A m \in NIx(s.g) : First(s.g, m, d) = next => m = n /\ s.pred = Sentinel
                                /\ \A x \in Spared(S, D, Q) : Succ(s.g, x, d) = next => x = s.pred
      BY <1>5, <2>4, <2>5, NextOnChain DEF next
    <2>7. \A y \in S : End(g, y, d) = n /\ y \notin Q => next # Sentinel /\ r[y] <= r[next]
      <3> SUFFICES ASSUME NEW y \in S, End(g, y, d) = n, y \notin Q
                   PROVE  next # Sentinel /\ r[y] <= r[next]
        OBVIOUS
      <3>1. y \in Spared(S, D, Q) /\ End(s.g, y, d) = n
        BY <1>5, <1>6
      <3>2. s.pred = Sentinel \/ r[y] < r[s.pred]
        BY <2>1, <2>2, <2>3
      <3> QED
        BY <2>6, <3>1, <3>2
    <2>8. next # Sentinel /\ next \in S /\ End(g, next, d) = n /\ next \notin Q
      <3>1. PICK y \in M : y \notin Q
        BY <1>4, <1>8
      <3>2. next # Sentinel
        BY <2>7, <3>1
      <3>3. next \in S /\ End(g, next, d) = n /\ ~(next \in Q /\ next \in D)
        BY <1>5, <1>6, <2>6, <3>2
      <3>4. ASSUME next \in Q PROVE FALSE
        <4>1. s.pred # Sentinel /\ r[s.pred] <= r[next]
          BY <1>2, <2>1, <2>2, <3>3, <3>4
        <4>2. s.pred \in S
          BY <2>1, <2>2, <4>1
        <4> QED
          BY <2>6, <3>2, <3>3, <4>1, <4>2
      <3> QED
        BY <3>2, <3>3, <3>4
    <2> DEFINE P == Q \cup {next}
    <2>9. \A x : x \in P <=> x \in Q \/ x = next
      OBVIOUS
    <2>10. Cardinality(P) = Cardinality(Q) + 1
      BY <1>3, <2>8, FS_AddElement
    <2>11. Cardinality(P) = k + 1
      BY <1>8, <2>10 DEF Unlinking
    <2> HIDE DEF P
    <2>12. \A x \in P : x \in S /\ End(g, x, d) = n
      BY <2>2, <2>8, <2>9
    <2>13. \A x \in P : \A y \in S : End(g, y, d) = n /\ r[x] < r[y] => y \in P
      <3> SUFFICES ASSUME NEW x \in P, NEW y \in S, End(g, y, d) = n, r[x] < r[y], y \notin Q
                   PROVE  FALSE
        BY <2>9
      <3>1. r[y] <= r[next]
        BY <2>7
      <3>2. x = next
        BY <2>3, <2>9
      <3> QED
        BY <2>8, <3>1, <3>2
    <2>14. next \in DOMAIN s.g.edges
      BY <1>2, <2>8 DEF EIx
    <2>15. CASE next \in D
      <3> DEFINE to == Succ(s.g, next, d)
      <3>1. h = [s EXCEPT !.g = SetSlotAfter(s.g, n, d, s.pred, s.g.edges[next].next[d]), !.left = s.left - 1]
        BY <1>1, <1>8, <2>14, <2>15 DEF UnlinkTurn
      <3>2. /\ h = [g |-> h.g, pred |-> h.pred, left |-> h.left]
            /\ h.g = SetSlotAfter(s.g, n, d, s.pred, s.g.edges[next].next[d])
            /\ h.pred = s.pred /\ h.left = s.left - 1
        BY <3>1 DEF Unlinking
      <3>3. h.g = SetSlotAfter(s.g, n, d, s.pred, to)
        BY <3>2, Zenon DEF Succ
      <3>4. to \in Slots
        BY <1>2, <2>8, PartTypes
      <3>5. s.pred = Sentinel \/ s.pred \in EIx(s.g)
        BY <1>2, <2>1, <2>2
      <3> HIDE DEF to
      <3>6. /\ h.g \in Tables /\ NIx(h.g) = NIx(s.g) /\ EIx(h.g) = EIx(s.g)
            /\ \A m \in NIx(s.g), c \in Dirs :
                 First(h.g, m, c) = IF s.pred = Sentinel /\ m = n /\ c = d THEN to ELSE First(s.g, m, c)
            /\ \A e \in EIx(s.g), c \in Dirs :
                 /\ Succ(h.g, e, c) = IF e = s.pred /\ c = d THEN to ELSE Succ(s.g, e, c)
                 /\ End(h.g, e, c) = End(s.g, e, c)
        BY <1>2, <3>3, <3>4, <3>5, SlotSet
      <3>7. \A x : x \in Spared(S, D, P) <=> x \in Spared(S, D, Q) /\ x # next
        BY <1>5, <2>8, <2>9, <2>15 DEF Spared
      <3>8. next \in Spared(S, D, Q)
        BY <1>5, <2>8
      <3>9. \A m \in NIx(s.g) : First(h.g, m, d) = IF First(s.g, m, d) = next THEN to ELSE First(s.g, m, d)
        BY <2>6, <2>8, <3>6 DEF next
      <3>10. \A x \in Spared(S, D, Q) :
               /\ Succ(h.g, x, d) = IF Succ(s.g, x, d) = next THEN to ELSE Succ(s.g, x, d)
               /\ End(h.g, x, d) = End(s.g, x, d)
        <4>1. \A x \in Spared(S, D, Q) : x \in EIx(s.g) /\ x # Sentinel
          BY <1>2, <1>5
        <4>2. s.pred # Sentinel => Succ(s.g, s.pred, d) = next
          BY DEF next
        <4> QED
          BY <2>6, <2>8, <3>6, <4>1, <4>2
      <3>11. Threads(h.g, d, Spared(S, D, P), r)
        BY <1>2, <1>5, <2>5, <3>6, <3>7, <3>8, <3>9, <3>10, ThreadsWithout DEF to
      <3>12. h.left = Cardinality(M \ P)
        <4>1. M \ P = (M \ Q) \ {next} /\ next \in M \ Q
          BY <2>8, <2>9, <2>15
        <4>2. Cardinality((M \ Q) \ {next}) = Cardinality(M \ Q) - 1
          BY <1>3, <4>1, FS_RemoveElement
        <4>3. s.left = Cardinality(M \ Q)
          BY DEF Unlinking
        <4> QED
          BY <3>2, <4>1, <4>2, <4>3
      <3>13. \/ h.pred = Sentinel /\ \A x \in P : x \in D
             \/ h.pred \in P /\ h.pred \notin D /\ \A x \in P : x \notin D => r[h.pred] <= r[x]
        BY <2>1, <2>9, <2>15, <3>2
      <3>14. \A m \in NIx(g), c \in Dirs : c # d => First(h.g, m, c) = First(g, m, c)
        BY <1>2, <3>6 DEF Unlinking
      <3>15. \A e \in EIx(g), c \in Dirs : /\ c # d => Succ(h.g, e, c) = Succ(g, e, c)
                                           /\ End(h.g, e, c) = End(g, e, c)
        BY <1>2, <3>6 DEF Unlinking
      <3>16. Unlinking(g, n, d, S, r, D, M, P, h, k + 1)
        BY <1>2, <2>11, <2>12, <2>13, <3>2, <3>6, <3>11, <3>12, <3>13, <3>14, <3>15 DEF Unlinking
      <3> QED
        BY <3>16
    <2>16. CASE next \notin D
      <3>1. h = [s EXCEPT !.pred = next]
        BY <1>1, <1>8, <2>14, <2>16 DEF UnlinkTurn
      <3>2. /\ h = [g |-> h.g, pred |-> h.pred, left |-> h.left]
            /\ h.g = s.g /\ h.pred = next /\ h.left = s.left
        BY <3>1 DEF Unlinking
      <3>3. Spared(S, D, P) = Spared(S, D, Q)
        BY <2>9, <2>16 DEF Spared
      <3>4. M \ P = M \ Q
        BY <2>9, <2>16
      <3>5. \A x \in P : x \notin D => r[next] <= r[x]
        <4> SUFFICES ASSUME NEW x \in P, x \notin D PROVE r[next] <= r[x]
          OBVIOUS
        <4>1. CASE x = next
          BY <2>8, <4>1
        <4>2. CASE x # next
          <5>1. x \in Q /\ x \in S /\ s.pred \in S /\ s.pred # Sentinel /\ r[s.pred] <= r[x]
            BY <1>2, <2>1, <2>2, <2>9, <4>2
          <5> QED
            BY <2>6, <2>8, <5>1
        <4> QED
          BY <4>1, <4>2
      <3>6. next \in P
        BY <2>9
      <3>7. Unlinking(g, n, d, S, r, D, M, P, h, k + 1)
        BY <2>11, <2>12, <2>13, <2>16, <3>2, <3>3, <3>4, <3>5, <3>6 DEF Unlinking
      <3> QED
        BY <3>7
    <2> QED
      BY <2>15, <2>16
  <1> QED
    BY <1>4, <1>7, <1>8


(***************************************************************************)
(* The sweep meets all the edges it is to unlink, and what remains is      *)
(* threaded.                                                               *)
(***************************************************************************)
LEMMA UnlinkDyingUnlinks ==
  ASSUME NEW g \in Tables, NEW n \in NIx(g), NEW d \in Dirs, NEW S, S \subseteq EIx(g), NEW r,
         Threads(g, d, S, r), NEW D, NEW M, M = EndingAt(g, D, n, d), M \subseteq S,
         NEW s, s = UnlinkDying(g, n, d, D, Cardinality(M))
  PROVE  /\ s.left = 0
         /\ s.g \in Tables /\ NIx(s.g) = NIx(g) /\ EIx(s.g) = EIx(g)
         /\ \A m \in NIx(g), c \in Dirs : c # d => First(s.g, m, c) = First(g, m, c)
         /\ \A e \in EIx(g), c \in Dirs : /\ c # d => Succ(s.g, e, c) = Succ(g, e, c)
                                          /\ End(s.g, e, c) = End(g, e, c)
         /\ Threads(s.g, d, S \ M, r)
  <1>0. \A x : x \in M <=> x \in S /\ x \in D /\ End(g, x, d) = n
    BY DEF EndingAt
  <1> DEFINE len == Size(g.edges)
             b == [g |-> g, pred |-> Sentinel, left |-> Cardinality(M)]
             q == [k \in 1..len |-> k]
  <1>1. len \in Nat /\ IsFiniteSet(EIx(g)) /\ Cardinality(EIx(g)) = len
    BY PartTypes
  <1>2. DOMAIN q = 1..len /\ Len(q) = len /\ \A k \in 1..len : q[k] = k
    BY <1>1
  <1>3. RunsTo(s, "unlink", n, d, D, b, q)
    BY <1>1, UnlinkRuns
  <1>4. b = [g |-> b.g, pred |-> b.pred, left |-> b.left]
        /\ b.g = g /\ b.pred = Sentinel /\ b.left = Cardinality(M)
    OBVIOUS
  <1> HIDE DEF len, b, q
  <1>5. PICK f : Runs(f, "unlink", n, d, D, b, q) /\ f[len] = s
    BY <1>2, <1>3 DEF RunsTo
  <1>6. f[0] = b /\ \A k \in 1..len : f[k] = UnlinkTurn(f[k - 1], n, d, D)
    BY <1>2, <1>5 DEF Runs, TurnOf
  <1>7. (\A x \in S : r[x] \in Int) /\ \A x, y \in S : r[x] = r[y] => x = y
    BY DEF Threads
  <1> DEFINE K == {k \in 0..len : \E Q : Unlinking(g, n, d, S, r, D, M, Q, f[k], k)}
  <1>8. 0 \in K
    <2>1. Spared(S, D, {}) = S /\ M \ {} = M /\ Cardinality({}) = 0
      BY FS_EmptySet DEF Spared
    <2>2. Unlinking(g, n, d, S, r, D, M, {}, b, 0)
      BY <1>4, <2>1 DEF Unlinking
    <2>3. Unlinking(g, n, d, S, r, D, M, {}, f[0], 0)
      BY <1>6, <2>2
    <2> QED
      BY <1>1, <2>3
  <1>9. \A k \in 1..len : k - 1 \in K => k \in K
    <2> SUFFICES ASSUME NEW k \in 1..len, k - 1 \in K PROVE k \in K
      OBVIOUS
    <2>1. PICK Q : Unlinking(g, n, d, S, r, D, M, Q, f[k - 1], k - 1)
      BY Zenon
    <2>2. k - 1 \in Nat /\ k - 1 + 1 = k /\ k \in 0..len
      BY <1>1
    <2>3. \E P : Unlinking(g, n, d, S, r, D, M, P, f[k], k - 1 + 1)
      BY <1>0, <1>6, <1>7, <2>1, <2>2, UnlinkTurnVisits
    <2> QED
      BY <2>2, <2>3
  <1>10. len \in K
    <2> HIDE DEF K
    <2> QED
      BY <1>1, <1>8, <1>9, RoundInduction
  <1>11. PICK Q : Unlinking(g, n, d, S, r, D, M, Q, s, len)
    BY <1>5, <1>10
  <1>12. Q \subseteq EIx(g) /\ IsFiniteSet(M \ Q)
    <2>1. Q \subseteq EIx(g) /\ M \ Q \subseteq EIx(g)
      BY <1>11 DEF Unlinking
    <2> QED
      BY <1>1, <2>1, FS_Subset
  <1>13. s.left = Cardinality(M \ Q) /\ (Cardinality(Q) = len \/ s.left = 0)
    BY <1>11 DEF Unlinking
  <1>14. M \ Q = {}
    <2>1. CASE Cardinality(Q) = len
      <3>1. Q = EIx(g)
        BY <1>1, <1>12, <2>1, FS_Subset
      <3> QED
        BY <3>1
    <2>2. CASE s.left = 0
      BY <1>12, <1>13, <2>2, FS_EmptySet
    <2> QED
      BY <1>13, <2>1, <2>2
  <1>15. s.left = 0
    BY <1>13, <1>14, FS_EmptySet
  <1>16. Threads(s.g, d, S \ M, r)
    <2>1. \A x \in Q : x \in S /\ End(g, x, d) = n
      BY <1>11 DEF Unlinking
    <2>2. S \ M = Spared(S, D, Q)
      BY <1>0, <1>14, <2>1 DEF Spared
    <2> QED
      BY <1>11, <2>2 DEF Unlinking
  <1> QED
    BY <1>11, <1>15, <1>16 DEF Unlinking

-----------------------------------------------------------------------------
(***************************************************************************)
(* moves tells where entries have moved to, the indices of X being in use  *)
(* now, and origin where they were.                                        *)
(***************************************************************************)
MovesBack(moves, origin, X) ==
  /\ \A x \in DOMAIN moves : x \notin X /\ moves[x] \in DOMAIN origin /\ origin[moves[x]] = x
  /\ \A y \in DOMAIN origin : y \in X /\ origin[y] \in DOMAIN moves /\ moves[origin[y]] = y

(***************************************************************************)
(* A pointer that should be to x, if the edges of Q have been visited.     *)
(***************************************************************************)
Seen(origin, Q, x) == IF x \in Q THEN x ELSE Now(origin, x)

(***************************************************************************)
(* After k turns of the sweep that patches chain d of n so that it becomes *)
(* as in v, the state is s, and the edges of Q have been visited.  M is    *)
(* all whose pointers are to be redirected.                                *)
(***************************************************************************)
Patching(g, v, n, d, r, origin, M, Q, s, k) ==
  /\ s = [g |-> s.g, pred |-> s.pred, left |-> s.left]
  /\ s.g \in Tables /\ NIx(s.g) = NIx(g) /\ EIx(s.g) = EIx(g)
  /\ First(s.g, n, d) = Seen(origin, Q, First(v, n, d))
  /\ \A m \in NIx(g), c \in Dirs : m # n \/ c # d => First(s.g, m, c) = First(g, m, c)
  /\ \A e \in EIx(g) : End(v, e, d) = n => Succ(s.g, e, d) = Seen(origin, Q, Succ(v, e, d))
  /\ \A e \in EIx(g), c \in Dirs :
       /\ End(v, e, d) # n \/ c # d => Succ(s.g, e, c) = Succ(g, e, c)
       /\ End(s.g, e, c) = End(g, e, c)
  /\ \A x \in Q : x \in EIx(g) /\ End(v, x, d) = n
  /\ \A x \in Q : \A y \in EIx(g) : End(v, y, d) = n /\ r[x] < r[y] => y \in Q
  /\ \/ s.pred = Sentinel /\ Q = {}
     \/ s.pred \in Q /\ \A x \in Q : r[s.pred] <= r[x]
  /\ s.left = Cardinality(M \ Q)
  /\ Cardinality(Q) = k \/ s.left = 0

(***************************************************************************)
(* One more turn.                                                          *)
(***************************************************************************)
LEMMA PatchTurnVisits ==
  ASSUME NEW g \in Tables, NEW n \in NIx(g), NEW d \in Dirs,
         NEW v, NIx(v) = NIx(g), EIx(v) = EIx(g), NEW r, Threads(v, d, EIx(g), r),
         NEW moves, NEW origin, MovesBack(moves, origin, EIx(g)),
         NEW M, \A x : x \in M <=> x \in EIx(g) /\ x \in DOMAIN origin /\ End(v, x, d) = n,
         NEW Q, NEW s, NEW k \in Nat, Patching(g, v, n, d, r, origin, M, Q, s, k),
         NEW h, h = PatchTurn(s, n, d, moves)
  PROVE  \E P : Patching(g, v, n, d, r, origin, M, P, h, k + 1)
  <1> DEFINE next == IF s.pred = Sentinel THEN First(v, n, d) ELSE Succ(v, s.pred, d)
             cur == SlotAfter(s.g, n, d, s.pred)
  <1>1. cur = IF s.pred = Sentinel THEN First(s.g, n, d) ELSE Succ(s.g, s.pred, d)
    BY DEF SlotAfter, First, Succ
  <1>2. /\ s.g \in Tables /\ NIx(s.g) = NIx(g) /\ EIx(s.g) = EIx(g) /\ Sentinel \notin EIx(g)
        /\ IsFiniteSet(EIx(g))
    BY PartTypes DEF Patching
  <1>3. IsFiniteSet(M \ Q) /\ IsFiniteSet(Q) /\ Q \subseteq EIx(g)
    <2>1. M \ Q \subseteq EIx(g) /\ Q \subseteq EIx(g)
      BY DEF Patching
    <2> QED
      BY <1>2, <2>1, FS_Subset
  <1>4. s.left \in Nat /\ (s.left = 0 <=> M \ Q = {})
    BY <1>3, FS_CardinalityType, FS_EmptySet DEF Patching
  <1>5. (\A x \in EIx(g) : r[x] \in Int) /\ \A x, y \in EIx(g) : r[x] = r[y] => x = y
    BY DEF Threads
  <1> HIDE DEF next, cur
  <1>7. CASE s.left = 0
    <2>1. h = s
      BY <1>7 DEF PatchTurn
    <2>2. Patching(g, v, n, d, r, origin, M, Q, h, k + 1)
      BY <1>7, <2>1 DEF Patching
    <2> QED
      BY <2>2
  <1>8. CASE s.left # 0
    <2>1. \/ s.pred = Sentinel /\ Q = {}
          \/ s.pred \in Q /\ \A x \in Q : r[s.pred] <= r[x]
      BY DEF Patching
    <2>2. \A x \in Q : x \in EIx(g) /\ End(v, x, d) = n
      BY DEF Patching
    <2>3. \A x \in Q : \A y \in EIx(g) : End(v, y, d) = n /\ r[x] < r[y] => y \in Q
      BY DEF Patching
    <2>4. s.pred = Sentinel \/ (s.pred \in EIx(g) /\ End(v, s.pred, d) = n)
      BY <2>1, <2>2
    <2>6. /\ next = Sentinel \/ (next \in EIx(g) /\ End(v, next, d) = n)
          /\ next # Sentinel /\ s.pred # Sentinel => r[next] < r[s.pred]
          /\ \A x \in EIx(g) : End(v, x, d) = n /\ (s.pred = Sentinel \/ r[x] < r[s.pred]) =>
               next # Sentinel /\ r[x] <= r[next]
          /\ next # Sentinel => /\ \A m \in NIx(v) : First(v, m, d) = next => m = n /\ s.pred = Sentinel
                                /\ \A x \in EIx(g) : Succ(v, x, d) = next => x = s.pred
      BY <1>2, <2>4, NextOnChain DEF next
    <2>7. \A y \in EIx(g) : End(v, y, d) = n /\ y \notin Q => next # Sentinel /\ r[y] <= r[next]
      <3> SUFFICES ASSUME NEW y \in EIx(g), End(v, y, d) = n, y \notin Q
                   PROVE  next # Sentinel /\ r[y] <= r[next]
        OBVIOUS
      <3>2. s.pred = Sentinel \/ r[y] < r[s.pred]
        BY <1>5, <2>1, <2>2, <2>3
      <3> QED
        BY <2>6, <3>2
    <2>8. next # Sentinel /\ next \in EIx(g) /\ End(v, next, d) = n /\ next \notin Q
      <3>1. PICK y \in M : y \notin Q
        BY <1>4, <1>8
      <3>2. next # Sentinel
        BY <2>7, <3>1
      <3>3. next \in EIx(g) /\ End(v, next, d) = n
        BY <2>6, <3>2
      <3>4. ASSUME next \in Q PROVE FALSE
        <4>1. s.pred # Sentinel /\ r[s.pred] <= r[next] /\ s.pred \in EIx(g)
          BY <1>2, <2>1, <2>2, <3>4
        <4> QED
          BY <1>5, <2>6, <3>2, <3>3, <4>1
      <3> QED
        BY <3>2, <3>3, <3>4
    <2> DEFINE P == Q \cup {next}
    <2>9. \A x : x \in P <=> x \in Q \/ x = next
      OBVIOUS
    <2>10. Cardinality(P) = Cardinality(Q) + 1
      BY <1>3, <2>8, FS_AddElement
    <2>11. Cardinality(P) = k + 1
      BY <1>8, <2>10 DEF Patching
    <2> HIDE DEF P
    <2>12. \A x \in P : x \in EIx(g) /\ End(v, x, d) = n
      BY <2>2, <2>8, <2>9
    <2>13. \A x \in P : \A y \in EIx(g) : End(v, y, d) = n /\ r[x] < r[y] => y \in P
      <3> SUFFICES ASSUME NEW x \in P, NEW y \in EIx(g), End(v, y, d) = n, r[x] < r[y], y \notin Q
                   PROVE  FALSE
        BY <2>9
      <3>1. r[y] <= r[next]
        BY <2>7
      <3>2. x = next
        BY <2>3, <2>9
      <3> QED
        BY <1>5, <2>8, <3>1, <3>2
    <2>14. cur = Now(origin, next)
      <3>1. First(s.g, n, d) = Seen(origin, Q, First(v, n, d))
        BY DEF Patching
      <3>2. s.pred # Sentinel => Succ(s.g, s.pred, d) = Seen(origin, Q, Succ(v, s.pred, d))
        BY <2>4 DEF Patching
      <3> QED
        BY <1>1, <2>8, <3>1, <3>2 DEF next, Seen
    <2>15. \A x \in P : r[next] <= r[x]
      <3> SUFFICES ASSUME NEW x \in P PROVE r[next] <= r[x]
        OBVIOUS
      <3>1. CASE x = next
        BY <1>5, <2>8, <3>1
      <3>2. CASE x # next
        <4>1. x \in Q /\ x \in EIx(g) /\ s.pred \in EIx(g) /\ s.pred # Sentinel /\ r[s.pred] <= r[x]
          BY <1>2, <2>1, <2>2, <2>9, <3>2
        <4> QED
          BY <1>5, <2>6, <2>8, <4>1
      <3> QED
        BY <3>1, <3>2
    <2>16. next \in P
      BY <2>9
    <2>17. CASE next \in DOMAIN origin
      <3>1. cur \in DOMAIN moves /\ moves[cur] = next /\ cur \notin EIx(g)
        BY <2>14, <2>17 DEF MovesBack, Now
      <3>2. h = [g |-> SetSlotAfter(s.g, n, d, s.pred, next), pred |-> next, left |-> s.left - 1]
        BY <1>8, <3>1 DEF PatchTurn, cur
      <3>3. /\ h = [g |-> h.g, pred |-> h.pred, left |-> h.left]
            /\ h.g = SetSlotAfter(s.g, n, d, s.pred, next)
            /\ h.pred = next /\ h.left = s.left - 1
        BY <3>2
      <3>4. next \in Slots
        BY <2>8, PartTypes DEF Slots
      <3>5. s.pred = Sentinel \/ s.pred \in EIx(s.g)
        BY <1>2, <2>4
      <3>6. /\ h.g \in Tables /\ NIx(h.g) = NIx(s.g) /\ EIx(h.g) = EIx(s.g)
            /\ \A m \in NIx(s.g), c \in Dirs :
                 First(h.g, m, c) = IF s.pred = Sentinel /\ m = n /\ c = d THEN next ELSE First(s.g, m, c)
            /\ \A e \in EIx(s.g), c \in Dirs :
                 /\ Succ(h.g, e, c) = IF e = s.pred /\ c = d THEN next ELSE Succ(s.g, e, c)
                 /\ End(h.g, e, c) = End(s.g, e, c)
        BY <1>2, <3>3, <3>4, <3>5, SlotSet
      <3>7. First(h.g, n, d) = Seen(origin, P, First(v, n, d))
        <4>1. First(s.g, n, d) = Seen(origin, Q, First(v, n, d))
          BY DEF Patching
        <4>2. s.pred = Sentinel <=> First(v, n, d) = next
          BY <2>6, <2>8 DEF next
        <4> QED
          BY <1>2, <2>9, <3>6, <4>1, <4>2 DEF Seen
      <3>8. \A e \in EIx(g) : End(v, e, d) = n => Succ(h.g, e, d) = Seen(origin, P, Succ(v, e, d))
        <4> SUFFICES ASSUME NEW e \in EIx(g), End(v, e, d) = n
                     PROVE  Succ(h.g, e, d) = Seen(origin, P, Succ(v, e, d))
          OBVIOUS
        <4>1. Succ(s.g, e, d) = Seen(origin, Q, Succ(v, e, d))
          BY DEF Patching
        <4>2. e = s.pred <=> Succ(v, e, d) = next
          BY <1>2, <2>6, <2>8 DEF next
        <4> QED
          BY <1>2, <2>9, <3>6, <4>1, <4>2 DEF Seen
      <3>9. \A m \in NIx(g), c \in Dirs : m # n \/ c # d => First(h.g, m, c) = First(g, m, c)
        BY <1>2, <3>6 DEF Patching
      <3>10. \A e \in EIx(g), c \in Dirs :
               /\ End(v, e, d) # n \/ c # d => Succ(h.g, e, c) = Succ(g, e, c)
               /\ End(h.g, e, c) = End(g, e, c)
        BY <1>2, <2>4, <3>6 DEF Patching
      <3>12. h.left = Cardinality(M \ P)
        <4>1. M \ P = (M \ Q) \ {next} /\ next \in M \ Q
          BY <2>8, <2>9, <2>17
        <4>2. Cardinality((M \ Q) \ {next}) = Cardinality(M \ Q) - 1
          BY <1>3, <4>1, FS_RemoveElement
        <4>3. s.left = Cardinality(M \ Q)
          BY DEF Patching
        <4> QED
          BY <3>3, <4>1, <4>2, <4>3
      <3>16. Patching(g, v, n, d, r, origin, M, P, h, k + 1)
        BY <1>2, <2>11, <2>12, <2>13, <2>15, <2>16, <3>3, <3>6, <3>7, <3>8, <3>9, <3>10, <3>12 DEF Patching
      <3> QED
        BY <3>16
    <2>18. CASE next \notin DOMAIN origin
      <3>1. cur = next /\ next \notin DOMAIN moves /\ next \in DOMAIN s.g.edges
        BY <1>2, <2>8, <2>14, <2>18 DEF MovesBack, Now, EIx
      <3>2. h = [s EXCEPT !.pred = next]
        BY <1>8, <3>1 DEF PatchTurn, cur
      <3>3. /\ h = [g |-> h.g, pred |-> h.pred, left |-> h.left]
            /\ h.g = s.g /\ h.pred = next /\ h.left = s.left
        BY <3>2 DEF Patching
      <3>4. M \ P = M \ Q
        BY <2>9, <2>18
      <3>5. \A x : Seen(origin, P, x) = Seen(origin, Q, x)
        BY <2>9, <2>18 DEF Seen, Now
      <3>6. /\ First(h.g, n, d) = Seen(origin, P, First(v, n, d))
            /\ \A e \in EIx(g) : End(v, e, d) = n => Succ(h.g, e, d) = Seen(origin, P, Succ(v, e, d))
        BY <3>3, <3>5 DEF Patching
      <3>7. Patching(g, v, n, d, r, origin, M, P, h, k + 1)
        BY <2>11, <2>12, <2>13, <2>15, <2>16, <3>3, <3>4, <3>6 DEF Patching
      <3> QED
        BY <3>7
    <2> QED
      BY <2>17, <2>18
  <1> QED
    BY <1>4, <1>7, <1>8

(***************************************************************************)
(* The sweep meets all the pointers it is to redirect, and the chain is as *)
(* in v.                                                                   *)
(***************************************************************************)
LEMMA PatchMovedPatches ==
  ASSUME NEW g \in Tables, NEW n \in NIx(g), NEW d \in Dirs,
         NEW v, NIx(v) = NIx(g), EIx(v) = EIx(g), NEW r, Threads(v, d, EIx(g), r),
         NEW moves, NEW origin, MovesBack(moves, origin, EIx(g)),
         First(g, n, d) = Now(origin, First(v, n, d)),
         \A e \in EIx(g) : End(v, e, d) = n => Succ(g, e, d) = Now(origin, Succ(v, e, d)),
         NEW M, M = EndingAt(v, DOMAIN origin, n, d),
         NEW s, s = PatchMoved(g, n, d, moves, Cardinality(M))
  PROVE  /\ s.left = 0
         /\ s.g \in Tables /\ NIx(s.g) = NIx(g) /\ EIx(s.g) = EIx(g)
         /\ First(s.g, n, d) = First(v, n, d)
         /\ \A m \in NIx(g), c \in Dirs : m # n \/ c # d => First(s.g, m, c) = First(g, m, c)
         /\ \A e \in EIx(g) : End(v, e, d) = n => Succ(s.g, e, d) = Succ(v, e, d)
         /\ \A e \in EIx(g), c \in Dirs :
              /\ End(v, e, d) # n \/ c # d => Succ(s.g, e, c) = Succ(g, e, c)
              /\ End(s.g, e, c) = End(g, e, c)
  <1>0. \A x : x \in M <=> x \in EIx(g) /\ x \in DOMAIN origin /\ End(v, x, d) = n
    BY DEF EndingAt
  <1> DEFINE len == Size(g.edges)
             b == [g |-> g, pred |-> Sentinel, left |-> Cardinality(M)]
             q == [k \in 1..len |-> k]
  <1>1. len \in Nat /\ IsFiniteSet(EIx(g)) /\ Cardinality(EIx(g)) = len
    BY PartTypes
  <1>2. DOMAIN q = 1..len /\ Len(q) = len /\ \A k \in 1..len : q[k] = k
    BY <1>1
  <1>3. RunsTo(s, "patch", n, d, moves, b, q)
    BY <1>1, PatchRuns
  <1>4. b = [g |-> b.g, pred |-> b.pred, left |-> b.left]
        /\ b.g = g /\ b.pred = Sentinel /\ b.left = Cardinality(M)
    OBVIOUS
  <1> HIDE DEF len, b, q
  <1>5. PICK f : Runs(f, "patch", n, d, moves, b, q) /\ f[len] = s
    BY <1>2, <1>3 DEF RunsTo
  <1>6. f[0] = b /\ \A k \in 1..len : f[k] = PatchTurn(f[k - 1], n, d, moves)
    BY <1>2, <1>5 DEF Runs, TurnOf
  <1> DEFINE K == {k \in 0..len : \E Q : Patching(g, v, n, d, r, origin, M, Q, f[k], k)}
  <1>8. 0 \in K
    <2>1. M \ {} = M /\ Cardinality({}) = 0
      BY FS_EmptySet
    <2>2. Patching(g, v, n, d, r, origin, M, {}, b, 0)
      BY <1>4, <2>1 DEF Patching, Seen
    <2>3. Patching(g, v, n, d, r, origin, M, {}, f[0], 0)
      BY <1>6, <2>2
    <2> QED
      BY <1>1, <2>3
  <1>9. \A k \in 1..len : k - 1 \in K => k \in K
    <2> SUFFICES ASSUME NEW k \in 1..len, k - 1 \in K PROVE k \in K
      OBVIOUS
    <2>1. PICK Q : Patching(g, v, n, d, r, origin, M, Q, f[k - 1], k - 1)
      BY Zenon
    <2>2. k - 1 \in Nat /\ k - 1 + 1 = k /\ k \in 0..len
      BY <1>1
    <2>3. \E P : Patching(g, v, n, d, r, origin, M, P, f[k], k - 1 + 1)
      BY <1>0, <1>6, <2>1, <2>2, PatchTurnVisits
    <2> QED
      BY <2>2, <2>3
  <1>10. len \in K
    <2> HIDE DEF K
    <2> QED
      BY <1>1, <1>8, <1>9, RoundInduction
  <1>11. PICK Q : Patching(g, v, n, d, r, origin, M, Q, s, len)
    BY <1>5, <1>10
  <1>12. Q \subseteq EIx(g) /\ IsFiniteSet(M \ Q)
    <2>1. Q \subseteq EIx(g) /\ M \ Q \subseteq EIx(g)
      BY <1>0, <1>11 DEF Patching
    <2> QED
      BY <1>1, <2>1, FS_Subset
  <1>13. s.left = Cardinality(M \ Q) /\ (Cardinality(Q) = len \/ s.left = 0)
    BY <1>11 DEF Patching
  <1>14. M \ Q = {}
    <2>1. CASE Cardinality(Q) = len
      <3>1. Q = EIx(g)
        BY <1>1, <1>12, <2>1, FS_Subset
      <3> QED
        BY <1>0, <3>1
    <2>2. CASE s.left = 0
      BY <1>12, <1>13, <2>2, FS_EmptySet
    <2> QED
      BY <1>13, <2>1, <2>2
  <1>15. s.left = 0
    BY <1>13, <1>14, FS_EmptySet
  <1>16. \A x : x \in DOMAIN origin => x \in EIx(g)
    BY DEF MovesBack
  <1>17. First(s.g, n, d) = First(v, n, d)
    <2>1. First(v, n, d) \in EIx(g) => End(v, First(v, n, d), d) = n
      BY DEF Threads
    <2>2. First(s.g, n, d) = Seen(origin, Q, First(v, n, d))
      BY <1>11 DEF Patching
    <2> QED
      BY <1>0, <1>14, <1>16, <2>1, <2>2 DEF Seen, Now
  <1>18. \A e \in EIx(g) : End(v, e, d) = n => Succ(s.g, e, d) = Succ(v, e, d)
    <2> SUFFICES ASSUME NEW e \in EIx(g), End(v, e, d) = n PROVE Succ(s.g, e, d) = Succ(v, e, d)
      OBVIOUS
    <2>1. Succ(v, e, d) \in EIx(g) => End(v, Succ(v, e, d), d) = n
      BY DEF Threads
    <2>2. Succ(s.g, e, d) = Seen(origin, Q, Succ(v, e, d))
      BY <1>11 DEF Patching
    <2> QED
      BY <1>0, <1>14, <1>16, <2>1, <2>2 DEF Seen, Now
  <1> QED
    BY <1>11, <1>15, <1>17, <1>18 DEF Patching

-----------------------------------------------------------------------------
(***************************************************************************)
(* The chains that the edges of es are on, and how many of them.           *)
(***************************************************************************)
LEMMA ChainsCounted ==
  ASSUME NEW g, NEW es, NEW skip, NEW f, f = ChainCounts(g, es, skip)
  PROVE  /\ f = [c \in DOMAIN f |-> f[c]]
         /\ \A c \in DOMAIN f : /\ c = <<c[1], c[2]>> /\ c[1] \in NIx(g) /\ c[1] \notin skip /\ c[2] \in Dirs
                                /\ f[c] = Cardinality(EndingAt(g, es, c[1], c[2]))
                                /\ \E e \in EIx(g) : e \in es /\ End(g, e, c[2]) = c[1]
         /\ \A e \in EIx(g), d \in Dirs :
              e \in es /\ End(g, e, d) \in NIx(g) /\ End(g, e, d) \notin skip => <<End(g, e, d), d>> \in DOMAIN f
  <1> DEFINE on(n, dir) == {e \in EIx(g) : e \in es /\ End(g, e, dir) = n}
             C == {c \in (NIx(g) \ skip) \X Dirs : on(c[1], c[2]) # {}}
  <1>1. f = [c \in C |-> Cardinality(on(c[1], c[2]))]
    BY Zenon DEF ChainCounts, NIx, EIx, End
  <1>2. \A c \in C : c = <<c[1], c[2]>> /\ c[1] \in NIx(g) /\ c[1] \notin skip /\ c[2] \in Dirs
                     /\ on(c[1], c[2]) # {}
    OBVIOUS
  <1>3. \A n \in NIx(g), d \in Dirs : n \notin skip /\ on(n, d) # {} => <<n, d>> \in C
    OBVIOUS
  <1>4. \A c : on(c[1], c[2]) = EndingAt(g, es, c[1], c[2])
    BY DEF EndingAt
  <1>5. \A n, d, e : e \in on(n, d) <=> e \in EIx(g) /\ e \in es /\ End(g, e, d) = n
    OBVIOUS
  <1> HIDE DEF C, on
  <1>6. DOMAIN f = C /\ \A c \in C : f[c] = Cardinality(EndingAt(g, es, c[1], c[2]))
    BY <1>1, <1>4
  <1>7. \A c \in C : \E e \in EIx(g) : e \in es /\ End(g, e, c[2]) = c[1]
    BY <1>2, <1>5
  <1>8. ASSUME NEW e \in EIx(g), NEW d \in Dirs, e \in es, End(g, e, d) \in NIx(g), End(g, e, d) \notin skip
        PROVE  <<End(g, e, d), d>> \in C
    <2>1. e \in on(End(g, e, d), d)
      BY <1>5, <1>8
    <2> QED
      BY <1>3, <1>8, <2>1
  <1>9. f = [c \in DOMAIN f |-> f[c]]
    BY <1>1
  <1> QED
    BY <1>2, <1>6, <1>7, <1>8, <1>9

(***************************************************************************)
(* Indices are ordered.                                                    *)
(***************************************************************************)
LEMMA IndicesOrdered ==
  ASSUME NEW g \in Tables
  PROVE  NIx(g) \subseteq Int /\ EIx(g) \subseteq Int
  <1>1. NodeIndices \subseteq Int
    BY KeysAssumption, FamiliesAssumption DEF NodeIndices
  <1>2. EdgeIndices \subseteq Int
    <2>1. MaxEdges \in Int
      BY SizesAssumption
    <2> QED
      BY <2>1, KeysAssumption, FamiliesAssumption DEF EdgeIndices
  <1> QED
    BY <1>1, <1>2, PartTypes

(***************************************************************************)
(* What a call is asked for is in the graph.                               *)
(***************************************************************************)
LEMMA BatchesName ==
  ASSUME NEW S, NEW q \in Batches(S)
  PROVE  ToSet(q) \subseteq S
  <1>1. PICK T \in SUBSET S : q \in SetToSeqs(T)
    BY DEF Batches
  <1>2. q \in [1..Cardinality(T) -> T]
    BY <1>1 DEF SetToSeqs
  <1> QED
    BY <1>2 DEF ToSet

-----------------------------------------------------------------------------
(***************************************************************************)
(* The edges that are still on the chains of direction d: those that stay, *)
(* and the dying ones at a dying node or on a chain not yet visited.       *)
(***************************************************************************)
Still(g, N, D, chains, d) ==
  {e \in EIx(g) : e \in D => End(g, e, d) \in N \/ <<End(g, e, d), d>> \in DOMAIN chains}

(***************************************************************************)
(* Phases 1 to 3: the nodes of N and the edges of D are to go, and chains  *)
(* is what is left to visit.                                               *)
(***************************************************************************)
Unlinks(g, N, D, chains) ==
  /\ g \in Tables /\ N \subseteq NIx(g) /\ D \subseteq EIx(g)
  /\ \A e \in EIx(g), d \in Dirs : End(g, e, d) \in N => e \in D
  /\ \A c \in DOMAIN chains : /\ c = <<c[1], c[2]>> /\ c[1] \in NIx(g) /\ c[1] \notin N /\ c[2] \in Dirs
                              /\ chains[c] = Cardinality(EndingAt(g, D, c[1], c[2]))
  /\ \A d \in Dirs : \E r : Threads(g, d, Still(g, N, D, chains, d), r)

(***************************************************************************)
(* The beginning.                                                          *)
(***************************************************************************)
LEMMA UnlinksBegin ==
  ASSUME NEW g \in Tables, Threaded(g, EIx(g)), NEW ns, NEW es,
         ToSet(ns) \subseteq NIx(g), ToSet(es) \subseteq EIx(g),
         NEW D, D = Dying(g, ns, es), NEW chains, chains = ChainCounts(g, D, ToSet(ns))
  PROVE  Unlinks(g, ToSet(ns), D, chains)
  <1>1. \A n \in ToSet(ns), d \in Dirs : \A e : e \in ToSet(Chain(g, n, d)) <=> e \in EIx(g) /\ End(g, e, d) = n
    <2> SUFFICES ASSUME NEW n \in ToSet(ns), NEW d \in Dirs, NEW e
                 PROVE  e \in ToSet(Chain(g, n, d)) <=> e \in EIx(g) /\ End(g, e, d) = n
      OBVIOUS
    <2> DEFINE c == Chain(g, n, d)
    <2>1. /\ \A i \in DOMAIN c : c[i] \in EIx(g) /\ End(g, c[i], d) = n
          /\ \A x \in EIx(g) : End(g, x, d) = n => \E i \in DOMAIN c : c[i] = x
      BY ChainLists
    <2>2. e \in ToSet(c) <=> \E i \in DOMAIN c : c[i] = e
      BY DEF ToSet
    <2> HIDE DEF c
    <2>3. e \in ToSet(c) <=> e \in EIx(g) /\ End(g, e, d) = n
      BY <2>1, <2>2
    <2> QED
      BY <2>3 DEF c
  <1>2. \A e : e \in D <=> e \in ToSet(es) \/ \E n \in ToSet(ns), d \in Dirs : e \in ToSet(Chain(g, n, d))
    BY DEF Dying
  <1>3. D \subseteq EIx(g) /\ \A e \in EIx(g), d \in Dirs : End(g, e, d) \in ToSet(ns) => e \in D
    BY <1>1, <1>2
  <1>4. /\ \A c \in DOMAIN chains : /\ c = <<c[1], c[2]>> /\ c[1] \in NIx(g) /\ c[1] \notin ToSet(ns) /\ c[2] \in Dirs
                                    /\ chains[c] = Cardinality(EndingAt(g, D, c[1], c[2]))
        /\ \A e \in EIx(g), d \in Dirs :
             e \in D /\ End(g, e, d) \in NIx(g) /\ End(g, e, d) \notin ToSet(ns) => <<End(g, e, d), d>> \in DOMAIN chains
    BY ChainsCounted
  <1>5. ASSUME NEW d \in Dirs PROVE \E r : Threads(g, d, Still(g, ToSet(ns), D, chains, d), r)
    <2>1. PICK r : Threads(g, d, EIx(g), r)
      BY DEF Threaded
    <2>2. \A e \in EIx(g) : End(g, e, d) \in NIx(g)
      BY <2>1 DEF Threads
    <2>3. Still(g, ToSet(ns), D, chains, d) = EIx(g)
      BY <1>4, <2>2 DEF Still
    <2> QED
      BY <2>1, <2>3
  <1> QED
    BY <1>3, <1>4, <1>5 DEF Unlinks

(***************************************************************************)
(* A chain is visited.                                                     *)
(***************************************************************************)
LEMMA UnlinksChain ==
  ASSUME NEW g, NEW N, NEW D, NEW chains, Unlinks(g, N, D, chains),
         NEW n, NEW d, NEW c, c = <<n, d>>, c \in DOMAIN chains,
         NEW s, s = UnlinkDying(g, n, d, D, chains[c]),
         NEW others, others = [x \in DOMAIN chains \ {c} |-> chains[x]],
         NEW S, S = Still(g, N, D, chains, d), NEW M, M = EndingAt(g, D, n, d)
  PROVE  s.left = 0 /\ Unlinks(s.g, N, D, others)
  <1>1. /\ c = <<n, d>> /\ n \in NIx(g) /\ n \notin N /\ d \in Dirs /\ chains[c] = Cardinality(M)
        /\ g \in Tables /\ N \subseteq NIx(g) /\ D \subseteq EIx(g)
    BY DEF Unlinks
  <1>2. PICK r : Threads(g, d, S, r)
    BY <1>1 DEF Unlinks
  <1>3. \A x : x \in M <=> x \in EIx(g) /\ x \in D /\ End(g, x, d) = n
    BY DEF EndingAt
  <1>4. \A x : x \in S <=> x \in EIx(g) /\ (x \in D => End(g, x, d) \in N \/ <<End(g, x, d), d>> \in DOMAIN chains)
    BY DEF Still
  <1>5. S \subseteq EIx(g) /\ M \subseteq S
    BY <1>1, <1>3, <1>4
  <1>6. s = UnlinkDying(g, n, d, D, Cardinality(M))
    BY <1>1
  <1>7. /\ s.left = 0
        /\ s.g \in Tables /\ NIx(s.g) = NIx(g) /\ EIx(s.g) = EIx(g)
        /\ \A m \in NIx(g), b \in Dirs : b # d => First(s.g, m, b) = First(g, m, b)
        /\ \A e \in EIx(g), b \in Dirs : /\ b # d => Succ(s.g, e, b) = Succ(g, e, b)
                                         /\ End(s.g, e, b) = End(g, e, b)
        /\ Threads(s.g, d, S \ M, r)
    BY <1>1, <1>2, <1>5, <1>6, UnlinkDyingUnlinks
  <1>8. \A x : x \in DOMAIN others <=> x \in DOMAIN chains /\ x # c
    OBVIOUS
  <1>9. \A x \in DOMAIN others : others[x] = chains[x]
    OBVIOUS
  <1>10. \A b \in Dirs : \A e : e \in Still(s.g, N, D, others, b) <=>
                           e \in Still(g, N, D, chains, b) /\ ~(b = d /\ e \in M)
    <2> SUFFICES ASSUME NEW b \in Dirs, NEW e \in EIx(g)
                 PROVE  e \in Still(s.g, N, D, others, b) <=>
                           e \in Still(g, N, D, chains, b) /\ ~(b = d /\ e \in M)
      BY <1>7 DEF Still
    <2>1. End(s.g, e, b) = End(g, e, b) /\ e \in EIx(s.g)
      BY <1>7
    <2>2. e \in Still(s.g, N, D, others, b) <=>
            (e \in D => End(g, e, b) \in N \/ <<End(g, e, b), b>> \in DOMAIN others)
      BY <2>1 DEF Still
    <2>3. e \in Still(g, N, D, chains, b) <=>
            (e \in D => End(g, e, b) \in N \/ <<End(g, e, b), b>> \in DOMAIN chains)
      BY DEF Still
    <2>4. <<End(g, e, b), b>> = c <=> b = d /\ End(g, e, d) = n
      BY <1>1
    <2> QED
      BY <1>1, <1>3, <1>8, <2>2, <2>3, <2>4
  <1>11. ASSUME NEW b \in Dirs PROVE \E q : Threads(s.g, b, Still(s.g, N, D, others, b), q)
    <2>1. CASE b = d
      <3>1. Still(s.g, N, D, others, d) = S \ M
        BY <1>1, <1>10
      <3> QED
        BY <1>7, <2>1, <3>1
    <2>2. CASE b # d
      <3>1. Still(s.g, N, D, others, b) = Still(g, N, D, chains, b)
        BY <1>10, <2>2
      <3>2. PICK q : Threads(g, b, Still(g, N, D, chains, b), q)
        BY DEF Unlinks
      <3>3. \A e \in Still(g, N, D, chains, b) : e \in EIx(g)
        BY DEF Still
      <3>4. Threads(s.g, b, Still(g, N, D, chains, b), q)
        BY <1>7, <2>2, <3>2, <3>3, ThreadsCopied
      <3> QED
        BY <3>1, <3>4
    <2> QED
      BY <2>1, <2>2
  <1>12. \A x \in DOMAIN others : EndingAt(s.g, D, x[1], x[2]) = EndingAt(g, D, x[1], x[2])
    <2> SUFFICES ASSUME NEW x \in DOMAIN others PROVE EndingAt(s.g, D, x[1], x[2]) = EndingAt(g, D, x[1], x[2])
      OBVIOUS
    <2>1. x[2] \in Dirs
      BY <1>8 DEF Unlinks
    <2> QED
      BY <1>7, <2>1 DEF EndingAt
  <1>13. \A x \in DOMAIN others : /\ x = <<x[1], x[2]>> /\ x[1] \in NIx(s.g) /\ x[1] \notin N /\ x[2] \in Dirs
                                  /\ others[x] = Cardinality(EndingAt(s.g, D, x[1], x[2]))
    BY <1>7, <1>8, <1>9, <1>12 DEF Unlinks
  <1>16. \A e \in EIx(s.g), b \in Dirs : End(s.g, e, b) \in N => e \in D
    BY <1>7 DEF Unlinks
  <1> QED
    BY <1>1, <1>7, <1>11, <1>13, <1>16 DEF Unlinks

-----------------------------------------------------------------------------
(***************************************************************************)
(* Phases 4 and 5: the edges to go have gone, and others have moved.  The  *)
(* chains of the nodes that stay are to become those of v; the pointers of *)
(* the chains not yet visited are still to where the edges were.           *)
(***************************************************************************)
Patches(g, N, moves, chains, v, origin) ==
  /\ g \in Tables /\ N \subseteq NIx(g) /\ NIx(v) = NIx(g) /\ EIx(v) = EIx(g)
  /\ MovesBack(moves, origin, EIx(g))
  /\ \A e \in EIx(g), d \in Dirs : End(v, e, d) = End(g, e, d) /\ End(g, e, d) \notin N
  /\ \A d \in Dirs : \E r : Threads(v, d, EIx(g), r)
  /\ \A c \in DOMAIN chains :
       /\ c = <<c[1], c[2]>> /\ c[1] \in NIx(g) /\ c[1] \notin N /\ c[2] \in Dirs
       /\ chains[c] = Cardinality(EndingAt(v, DOMAIN origin, c[1], c[2]))
  /\ \A n \in NIx(g), d \in Dirs : n \notin N =>
       First(g, n, d) = IF <<n, d>> \in DOMAIN chains THEN Now(origin, First(v, n, d)) ELSE First(v, n, d)
  /\ \A e \in EIx(g), d \in Dirs :
       Succ(g, e, d) = IF <<End(g, e, d), d>> \in DOMAIN chains THEN Now(origin, Succ(v, e, d)) ELSE Succ(v, e, d)

(***************************************************************************)
(* h is g without the entries of the edges of D, others having moved.      *)
(***************************************************************************)
EntriesTaken(g, D, h, moves, origin) ==
  /\ h \in Tables /\ NIx(h) = NIx(g)
  /\ \A n \in NIx(g), d \in Dirs : First(h, n, d) = First(g, n, d)
  /\ \A e \in EIx(h), d \in Dirs : /\ Succ(h, e, d) = Succ(g, Now(origin, e), d)
                                   /\ End(h, e, d) = End(g, Now(origin, e), d)
  /\ \A y \in EIx(h) : /\ Now(origin, y) \in EIx(g) /\ Now(origin, y) \notin D
                       /\ Now(moves, Now(origin, y)) = y
  /\ \A x \in EIx(g) : x \notin D => Now(moves, x) \in EIx(h) /\ Now(origin, Now(moves, x)) = x
  /\ MovesBack(moves, origin, EIx(h))
  /\ DOMAIN moves \subseteq EIx(g)

(***************************************************************************)
(* So the loop of phase 3 leaves it.                                       *)
(***************************************************************************)
LEMMA DyingLeave ==
  ASSUME NEW g \in Tables, NEW D, D \subseteq EIx(g),
         NEW t, t = TakeAll(DenseEdges, g.edges, D), NEW h, h = [g EXCEPT !.edges = t.c]
  PROVE  EntriesTaken(g, D, h, t.moves, t.origin)
  <1> DEFINE moves == t.moves
             origin == t.origin
  <1>1. D \in SUBSET Int /\ D \subseteq DOMAIN g.edges
    BY IndicesOrdered DEF EIx
  <1>2. g.nodes \in Colls(DenseNodes, NodeIndices, NodeEntries) /\ g.edges \in Colls(DenseEdges, EdgeIndices, EdgeEntries)
        /\ h = [nodes |-> g.nodes, edges |-> t.c]
    BY TablesElim
  <1>3. Compacting(DenseEdges, EdgeIndices, EdgeEntries, g.edges, D, D, t)
    BY <1>1, <1>2, FamiliesAssumption, TakeAllCompacts
  <1>4. t.c \in Colls(DenseEdges, EdgeIndices, EdgeEntries)
    BY <1>3 DEF Compacting
  <1>5. h \in Tables /\ h.nodes = g.nodes /\ h.edges = t.c
    BY <1>2, <1>4, TablesIntro
  <1>6. NIx(h) = NIx(g) /\ EIx(h) = DOMAIN t.c /\ \A n, d : First(h, n, d) = First(g, n, d)
    BY <1>5 DEF NIx, EIx, First
  <1>7. \A y \in EIx(h) : /\ Now(origin, y) \in EIx(g) /\ Now(origin, y) \notin D
                          /\ Now(moves, Now(origin, y)) = y
                          /\ h.edges[y] = g.edges[Now(origin, y)]
    BY <1>3, <1>5, <1>6 DEF Compacting, EIx
  <1>8. \A e \in EIx(h), d \in Dirs : /\ Succ(h, e, d) = Succ(g, Now(origin, e), d)
                                      /\ End(h, e, d) = End(g, Now(origin, e), d)
    BY <1>7 DEF Succ, End
  <1>9. \A x \in EIx(g) : x \notin D => Now(moves, x) \in EIx(h) /\ Now(origin, Now(moves, x)) = x
    BY <1>3, <1>6 DEF Compacting, EIx
  <1>10. MovesBack(moves, origin, EIx(h)) /\ DOMAIN moves \subseteq EIx(g)
    BY <1>3, <1>6 DEF Compacting, EIx, MovesBack
  <1> QED
    BY <1>5, <1>6, <1>7, <1>8, <1>9, <1>10 DEF EntriesTaken

(***************************************************************************)
(* The dying edges are taken, all chains having been visited.              *)
(***************************************************************************)
LEMMA DyingTaken ==
  ASSUME NEW g, NEW N, NEW D, NEW chains, Unlinks(g, N, D, chains), DOMAIN chains = {},
         NEW t, t = TakeAll(DenseEdges, g.edges, D), NEW h, h = [g EXCEPT !.edges = t.c],
         NEW stale, stale = ChainCounts(h, Range(t.moves), {})
  PROVE  \E v, origin : Patches(h, N, t.moves, stale, v, origin)
  <1> DEFINE moves == t.moves
             origin == t.origin
             first == [n \in NIx(g) |-> [d \in Dirs |-> IF n \in N THEN Sentinel ELSE Now(moves, First(g, n, d))]]
             succ == [e \in EIx(h) |-> [d \in Dirs |-> Now(moves, Succ(g, Now(origin, e), d))]]
             end == [e \in EIx(h) |-> [d \in Dirs |-> End(g, Now(origin, e), d)]]
  <1>1. /\ g \in Tables /\ N \subseteq NIx(g) /\ D \subseteq EIx(g)
        /\ \A e \in EIx(g), d \in Dirs : End(g, e, d) \in N => e \in D
        /\ \A d \in Dirs : \E r : Threads(g, d, Still(g, N, D, chains, d), r)
    BY DEF Unlinks
  <1>2. /\ h \in Tables /\ NIx(h) = NIx(g)
        /\ \A n \in NIx(g), d \in Dirs : First(h, n, d) = First(g, n, d)
        /\ \A e \in EIx(h), d \in Dirs : /\ Succ(h, e, d) = Succ(g, Now(origin, e), d)
                                         /\ End(h, e, d) = End(g, Now(origin, e), d)
        /\ \A y \in EIx(h) : /\ Now(origin, y) \in EIx(g) /\ Now(origin, y) \notin D
                             /\ Now(moves, Now(origin, y)) = y
        /\ \A x \in EIx(g) : x \notin D => Now(moves, x) \in EIx(h) /\ Now(origin, Now(moves, x)) = x
        /\ MovesBack(moves, origin, EIx(h))
        /\ DOMAIN moves \subseteq EIx(g)
    <2>1. EntriesTaken(g, D, h, moves, origin)
      BY <1>1, DyingLeave
    <2> HIDE DEF moves, origin
    <2> QED
      BY <2>1 DEF EntriesTaken
  <1>3. Sentinel \notin EIx(g) /\ Sentinel \notin EIx(h)
    BY <1>1, <1>2, PartTypes
  <1>4. /\ \A n \in NIx(g), d \in Dirs :
             first[n][d] = IF n \in N THEN Sentinel ELSE Now(moves, First(g, n, d))
        /\ \A e \in EIx(h), d \in Dirs : /\ succ[e][d] = Now(moves, Succ(g, Now(origin, e), d))
                                         /\ end[e][d] = End(g, Now(origin, e), d)
    OBVIOUS
  <1>5. /\ \A c \in DOMAIN stale : /\ c = <<c[1], c[2]>> /\ c[1] \in NIx(h) /\ c[2] \in Dirs
                                   /\ stale[c] = Cardinality(EndingAt(h, Range(moves), c[1], c[2]))
                                   /\ \E e \in EIx(h) : e \in Range(moves) /\ End(h, e, c[2]) = c[1]
        /\ \A e \in EIx(h), d \in Dirs :
             e \in Range(moves) /\ End(h, e, d) \in NIx(h) => <<End(h, e, d), d>> \in DOMAIN stale
    <2>1. \A x : x \notin {}
      OBVIOUS
    <2> HIDE DEF moves
    <2> QED
      BY <2>1, ChainsCounted DEF moves
  <1>6. \A y : y \in Range(moves) <=> y \in DOMAIN origin
    <2>1. \A y : y \in Range(moves) <=> \E x \in DOMAIN moves : moves[x] = y
      BY DEF Range
    <2> HIDE DEF moves, origin
    <2> QED
      BY <1>2, <2>1 DEF MovesBack
  <1> HIDE DEF moves, origin, first, succ, end
  <1>7. PICK v : /\ NIx(v) = NIx(g) /\ EIx(v) = EIx(h)
                 /\ \A n \in NIx(g), d \in Dirs : First(v, n, d) = first[n][d]
                 /\ \A e \in EIx(h), d \in Dirs : Succ(v, e, d) = succ[e][d] /\ End(v, e, d) = end[e][d]
    <2>1. PICK v : Draws(v, NIx(g), EIx(h), first, succ, end)
      BY Drawn
    <2> QED
      BY <2>1 DEF Draws
  <1>8. \A d \in Dirs : \A x : x \in Still(g, N, D, chains, d) <=> x \in EIx(g) /\ (x \in D => End(g, x, d) \in N)
    BY DEF Still
  <1>9. ASSUME NEW d \in Dirs PROVE \E q : Threads(v, d, EIx(h), q)
    <2> DEFINE S == Still(g, N, D, chains, d)
    <2>1. PICK r : Threads(g, d, S, r)
      BY <1>1
    <2>2. Sentinel \notin S /\ Sentinel \notin EIx(h)
      BY <1>3, <1>8
    <2>3. Now(moves, Sentinel) = Sentinel
      BY <1>2, <1>3 DEF Now
    <2>4. \A y \in EIx(h) : /\ Now(origin, y) \in S /\ Now(moves, Now(origin, y)) = y
                            /\ End(g, Now(origin, y), d) \notin N
      BY <1>1, <1>2, <1>8
    <2>5. \A x \in S : End(g, x, d) \notin N => Now(moves, x) \in EIx(h) /\ Now(origin, Now(moves, x)) = x
      BY <1>2, <1>8
    <2>6. \A n \in NIx(g) : First(v, n, d) = IF n \in N THEN Sentinel ELSE Now(moves, First(g, n, d))
      BY <1>4, <1>7
    <2>7. \A y \in EIx(h) : /\ Succ(v, y, d) = Now(moves, Succ(g, Now(origin, y), d))
                            /\ End(v, y, d) = End(g, Now(origin, y), d)
      BY <1>4, <1>7
    <2>8. Relabelled(g, v, d, S, EIx(h), N, moves, origin)
      BY <2>4, <2>5, <2>6, <2>7 DEF Relabelled
    <2> HIDE DEF S
    <2> QED
      BY <1>7, <2>1, <2>2, <2>3, <2>8, EdgesMoved
  <1>10. ASSUME NEW n \in NIx(g), n \notin N, NEW d \in Dirs, NEW x,
                x = Sentinel \/ (x \in Still(g, N, D, chains, d) /\ End(g, x, d) = n)
         PROVE  x = IF <<n, d>> \in DOMAIN stale THEN Now(origin, Now(moves, x)) ELSE Now(moves, x)
    <2>1. CASE x = Sentinel
      <3>1. Now(moves, x) = x /\ Now(origin, x) = x
        BY <1>2, <1>3, <2>1 DEF Now, MovesBack
      <3> QED
        BY <3>1
    <2>2. CASE x \in Still(g, N, D, chains, d) /\ End(g, x, d) = n
      <3>1. x \in EIx(g) /\ x \notin D
        BY <1>8, <1>10, <2>2
      <3>2. Now(origin, Now(moves, x)) = x /\ Now(moves, x) \in EIx(h)
        BY <1>2, <3>1
      <3>3. ASSUME <<n, d>> \notin DOMAIN stale PROVE Now(moves, x) = x
        <4>1. ASSUME x \in DOMAIN moves PROVE FALSE
          <5>1. Now(moves, x) \in DOMAIN origin
            BY <1>2, <4>1 DEF Now, MovesBack
          <5>2. End(h, Now(moves, x), d) = n
            BY <1>2, <2>2, <3>2
          <5> QED
            BY <1>2, <1>5, <1>6, <3>2, <3>3, <5>1, <5>2
        <4> QED
          BY <4>1 DEF Now
      <3> QED
        BY <3>2, <3>3
    <2> QED
      BY <1>10, <2>1, <2>2
  <1>11. ASSUME NEW n \in NIx(h), NEW d \in Dirs, n \notin N
         PROVE  First(h, n, d) = IF <<n, d>> \in DOMAIN stale THEN Now(origin, First(v, n, d)) ELSE First(v, n, d)
    <2>1. PICK r : Threads(g, d, Still(g, N, D, chains, d), r)
      BY <1>1
    <2>2. First(g, n, d) = Sentinel \/ (First(g, n, d) \in Still(g, N, D, chains, d) /\ End(g, First(g, n, d), d) = n)
      BY <1>2, <2>1 DEF Threads
    <2>3. First(h, n, d) = First(g, n, d) /\ First(v, n, d) = Now(moves, First(g, n, d))
      BY <1>2, <1>4, <1>7, <1>11
    <2> QED
      BY <1>2, <1>10, <1>11, <2>2, <2>3
  <1>12. ASSUME NEW e \in EIx(h), NEW d \in Dirs
         PROVE  Succ(h, e, d) = IF <<End(h, e, d), d>> \in DOMAIN stale THEN Now(origin, Succ(v, e, d)) ELSE Succ(v, e, d)
    <2>1. PICK r : Threads(g, d, Still(g, N, D, chains, d), r)
      BY <1>1
    <2> DEFINE o == Now(origin, e)
    <2>2. o \in Still(g, N, D, chains, d) /\ End(g, o, d) \notin N
      BY <1>1, <1>2, <1>8
    <2>3. Succ(h, e, d) = Succ(g, o, d) /\ End(h, e, d) = End(g, o, d) /\ Succ(v, e, d) = Now(moves, Succ(g, o, d))
      BY <1>2, <1>4, <1>7
    <2> HIDE DEF o
    <2>4. /\ Succ(g, o, d) = Sentinel
             \/ (Succ(g, o, d) \in Still(g, N, D, chains, d) /\ End(g, Succ(g, o, d), d) = End(g, o, d))
          /\ End(g, o, d) \in NIx(g)
      BY <2>1, <2>2 DEF Threads
    <2> QED
      BY <1>10, <2>2, <2>3, <2>4
  <1>13. \A e \in EIx(h), d \in Dirs : End(v, e, d) = End(h, e, d) /\ End(h, e, d) \notin N
    BY <1>1, <1>2, <1>4, <1>7
  <1>14. \A c \in DOMAIN stale :
           /\ c = <<c[1], c[2]>> /\ c[1] \in NIx(h) /\ c[1] \notin N /\ c[2] \in Dirs
           /\ stale[c] = Cardinality(EndingAt(v, DOMAIN origin, c[1], c[2]))
    <2> SUFFICES ASSUME NEW c \in DOMAIN stale
                 PROVE  c[1] \notin N /\ EndingAt(h, Range(moves), c[1], c[2]) = EndingAt(v, DOMAIN origin, c[1], c[2])
      BY <1>5
    <2>1. c[2] \in Dirs /\ \E e \in EIx(h) : End(h, e, c[2]) = c[1]
      BY <1>5
    <2>2. c[1] \notin N
      BY <1>13, <2>1
    <2>3. \A e \in EIx(h) : End(v, e, c[2]) = End(h, e, c[2])
      BY <1>13, <2>1
    <2>4. EndingAt(h, Range(moves), c[1], c[2]) = EndingAt(v, DOMAIN origin, c[1], c[2])
      BY <1>6, <1>7, <2>3 DEF EndingAt
    <2> QED
      BY <2>2, <2>4
  <1>15. Patches(h, N, moves, stale, v, origin)
    BY <1>1, <1>2, <1>7, <1>9, <1>11, <1>12, <1>13, <1>14 DEF Patches
  <1> QED
    BY <1>15 DEF moves

(***************************************************************************)
(* A chain is visited.                                                     *)
(***************************************************************************)
LEMMA PatchesChain ==
  ASSUME NEW g, NEW N, NEW moves, NEW chains, NEW v, NEW origin, Patches(g, N, moves, chains, v, origin),
         NEW n, NEW d, NEW c, c = <<n, d>>, c \in DOMAIN chains,
         NEW s, s = PatchMoved(g, n, d, moves, chains[c]),
         NEW others, others = [x \in DOMAIN chains \ {c} |-> chains[x]]
  PROVE  s.left = 0 /\ Patches(s.g, N, moves, others, v, origin)
  <1> DEFINE M == EndingAt(v, DOMAIN origin, n, d)
  <1>1. /\ g \in Tables /\ N \subseteq NIx(g) /\ NIx(v) = NIx(g) /\ EIx(v) = EIx(g)
        /\ MovesBack(moves, origin, EIx(g))
        /\ \A e \in EIx(g), b \in Dirs : End(v, e, b) = End(g, e, b) /\ End(g, e, b) \notin N
        /\ n \in NIx(g) /\ n \notin N /\ d \in Dirs
    BY DEF Patches
  <1>2. PICK r : Threads(v, d, EIx(g), r)
    BY <1>1 DEF Patches
  <1>3. s = PatchMoved(g, n, d, moves, Cardinality(M))
    BY DEF Patches
  <1>4. First(g, n, d) = Now(origin, First(v, n, d))
    BY <1>1 DEF Patches
  <1>5. \A e \in EIx(g) : End(v, e, d) = n => Succ(g, e, d) = Now(origin, Succ(v, e, d))
    BY <1>1 DEF Patches
  <1> HIDE DEF M
  <1>6. /\ s.left = 0
        /\ s.g \in Tables /\ NIx(s.g) = NIx(g) /\ EIx(s.g) = EIx(g)
        /\ First(s.g, n, d) = First(v, n, d)
        /\ \A m \in NIx(g), b \in Dirs : m # n \/ b # d => First(s.g, m, b) = First(g, m, b)
        /\ \A e \in EIx(g) : End(v, e, d) = n => Succ(s.g, e, d) = Succ(v, e, d)
        /\ \A e \in EIx(g), b \in Dirs :
             /\ End(v, e, d) # n \/ b # d => Succ(s.g, e, b) = Succ(g, e, b)
             /\ End(s.g, e, b) = End(g, e, b)
    <2>1. M = EndingAt(v, DOMAIN origin, n, d)
      BY DEF M
    <2> QED
      BY <1>1, <1>2, <1>3, <1>4, <1>5, <2>1, PatchMovedPatches
  <1>7. \A x \in DOMAIN others : x \in DOMAIN chains /\ others[x] = chains[x]
    OBVIOUS
  <1>8. \A m, b : <<m, b>> \in DOMAIN others <=> <<m, b>> \in DOMAIN chains /\ ~(m = n /\ b = d)
    OBVIOUS
  <1>9. ASSUME NEW m \in NIx(g), NEW b \in Dirs, m \notin N
        PROVE  First(s.g, m, b) = IF <<m, b>> \in DOMAIN others THEN Now(origin, First(v, m, b)) ELSE First(v, m, b)
    <2>1. CASE m = n /\ b = d
      BY <1>6, <1>8, <2>1
    <2>2. CASE ~(m = n /\ b = d)
      <3>1. First(g, m, b) = IF <<m, b>> \in DOMAIN chains THEN Now(origin, First(v, m, b)) ELSE First(v, m, b)
        BY <1>9 DEF Patches
      <3> QED
        BY <1>6, <1>8, <2>2, <3>1
    <2> QED
      BY <2>1, <2>2
  <1>10. ASSUME NEW e \in EIx(g), NEW b \in Dirs
         PROVE  Succ(s.g, e, b) = IF <<End(g, e, b), b>> \in DOMAIN others THEN Now(origin, Succ(v, e, b)) ELSE Succ(v, e, b)
    <2>1. CASE End(g, e, b) = n /\ b = d
      BY <1>1, <1>6, <1>8, <2>1
    <2>2. CASE ~(End(g, e, b) = n /\ b = d)
      <3>1. Succ(g, e, b) = IF <<End(g, e, b), b>> \in DOMAIN chains THEN Now(origin, Succ(v, e, b)) ELSE Succ(v, e, b)
        BY DEF Patches
      <3>2. Succ(s.g, e, b) = Succ(g, e, b)
        BY <1>1, <1>6, <2>2
      <3> QED
        BY <1>8, <2>2, <3>1, <3>2
    <2> QED
      BY <2>1, <2>2
  <1>11. \A x \in DOMAIN others :
       /\ x = <<x[1], x[2]>> /\ x[1] \in NIx(s.g) /\ x[1] \notin N /\ x[2] \in Dirs
       /\ others[x] = Cardinality(EndingAt(v, DOMAIN origin, x[1], x[2]))
    BY <1>6, <1>7 DEF Patches
  <1>12. \A b \in Dirs : \E q : Threads(v, b, EIx(s.g), q)
    BY <1>6 DEF Patches
  <1> QED
    BY <1>1, <1>6, <1>9, <1>10, <1>11, <1>12 DEF Patches

-----------------------------------------------------------------------------
(***************************************************************************)
(* Phase 6: nodes have moved.  With the endpoints rewritten that are still *)
(* to be, the graph is v, whose edges are threaded.                        *)
(***************************************************************************)
Rewrites(g, moves, v) ==
  /\ g \in Tables /\ NIx(v) = NIx(g) /\ EIx(v) = EIx(g)
  /\ \A n \in NIx(g), d \in Dirs : First(v, n, d) = First(g, n, d)
  /\ \A e \in EIx(g), d \in Dirs : Succ(v, e, d) = Succ(g, e, d)
  /\ \A d \in Dirs : \E r : Threads(v, d, EIx(g), r)
  /\ \A x \in DOMAIN moves : x \notin NIx(g) /\ moves[x] \in NIx(g)
  /\ \A x, y \in DOMAIN moves : moves[x] = moves[y] => x = y
  /\ \A e \in EIx(g), d \in Dirs : /\ End(v, e, d) = Now(moves, End(g, e, d))
                                   /\ \A x \in DOMAIN moves : End(g, e, d) # moves[x]

(***************************************************************************)
(* The nodes are taken, all chains having been visited.                    *)
(***************************************************************************)
LEMMA NodesTaken ==
  ASSUME NEW g, NEW N, NEW moved, NEW chains, NEW u, NEW was, Patches(g, N, moved, chains, u, was), DOMAIN chains = {},
         NEW t, t = TakeAll(DenseNodes, g.nodes, N), NEW h, h = [g EXCEPT !.nodes = t.c]
  PROVE  \E v : Rewrites(h, t.moves, v)
  <1> DEFINE moves == t.moves
             origin == t.origin
             first == [n \in NIx(h) |-> [d \in Dirs |-> First(h, n, d)]]
             succ == [e \in EIx(h) |-> [d \in Dirs |-> Succ(h, e, d)]]
             end == [e \in EIx(h) |-> [d \in Dirs |-> Now(moves, End(h, e, d))]]
  <1>1. /\ g \in Tables /\ N \subseteq NIx(g) /\ NIx(u) = NIx(g) /\ EIx(u) = EIx(g)
        /\ \A e \in EIx(g), d \in Dirs : End(u, e, d) = End(g, e, d) /\ End(g, e, d) \notin N
        /\ \A d \in Dirs : \E r : Threads(u, d, EIx(g), r)
        /\ \A n \in NIx(g), d \in Dirs : n \notin N => First(g, n, d) = First(u, n, d)
        /\ \A e \in EIx(g), d \in Dirs : Succ(g, e, d) = Succ(u, e, d)
    BY DEF Patches
  <1>2. N \in SUBSET Int /\ N \subseteq DOMAIN g.nodes
    BY <1>1, IndicesOrdered DEF NIx
  <1>3. g.nodes \in Colls(DenseNodes, NodeIndices, NodeEntries) /\ g.edges \in Colls(DenseEdges, EdgeIndices, EdgeEntries)
        /\ h = [nodes |-> t.c, edges |-> g.edges]
    BY <1>1, TablesElim
  <1>4. Compacting(DenseNodes, NodeIndices, NodeEntries, g.nodes, N, N, t)
    BY <1>2, <1>3, FamiliesAssumption, TakeAllCompacts
  <1>5. t.c \in Colls(DenseNodes, NodeIndices, NodeEntries)
    BY <1>4 DEF Compacting
  <1>6. h \in Tables /\ h.nodes = t.c /\ h.edges = g.edges
    BY <1>3, <1>5, TablesIntro
  <1>7. /\ NIx(h) = DOMAIN t.c /\ EIx(h) = EIx(g)
        /\ \A e, d : Succ(h, e, d) = Succ(g, e, d) /\ End(h, e, d) = End(g, e, d)
    BY <1>6 DEF NIx, EIx, Succ, End
  <1>8. \A y \in NIx(h) : /\ Now(origin, y) \in NIx(g) /\ Now(origin, y) \notin N
                          /\ Now(moves, Now(origin, y)) = y
                          /\ h.nodes[y] = g.nodes[Now(origin, y)]
    BY <1>4, <1>6, <1>7 DEF Compacting, NIx
  <1>9. \A n \in NIx(h), d \in Dirs : First(h, n, d) = First(g, Now(origin, n), d)
    BY <1>8 DEF First
  <1>10. \A x \in NIx(g) : x \notin N => Now(moves, x) \in NIx(h) /\ Now(origin, Now(moves, x)) = x
    BY <1>4, <1>7 DEF Compacting, NIx
  <1>11. /\ \A x \in DOMAIN moves : x \notin NIx(h) /\ moves[x] \in NIx(h) /\ moves[x] \in N
         /\ \A x, y \in DOMAIN moves : moves[x] = moves[y] => x = y
    BY <1>4, <1>7 DEF Compacting
  <1>12. /\ \A n \in NIx(h), d \in Dirs : first[n][d] = First(h, n, d)
         /\ \A e \in EIx(h), d \in Dirs : succ[e][d] = Succ(h, e, d) /\ end[e][d] = Now(moves, End(h, e, d))
    OBVIOUS
  <1> HIDE DEF moves, origin, first, succ, end
  <1>13. PICK v : /\ NIx(v) = NIx(h) /\ EIx(v) = EIx(h)
                  /\ \A n \in NIx(h), d \in Dirs : First(v, n, d) = First(h, n, d)
                  /\ \A e \in EIx(h), d \in Dirs : Succ(v, e, d) = Succ(h, e, d) /\ End(v, e, d) = Now(moves, End(h, e, d))
    <2>1. PICK v : Draws(v, NIx(h), EIx(h), first, succ, end)
      BY Drawn
    <2>2. /\ NIx(v) = NIx(h) /\ EIx(v) = EIx(h)
          /\ \A n \in NIx(h), d \in Dirs : First(v, n, d) = First(h, n, d)
          /\ \A e \in EIx(h), d \in Dirs : Succ(v, e, d) = Succ(h, e, d) /\ End(v, e, d) = Now(moves, End(h, e, d))
      BY <1>12, <2>1 DEF Draws
    <2> QED
      BY <2>2
  <1>14. ASSUME NEW d \in Dirs PROVE \E r : Threads(v, d, EIx(h), r)
    <2>1. PICK r : Threads(u, d, EIx(g), r)
      BY <1>1
    <2>2. Sentinel \notin EIx(g)
      BY <1>1, PartTypes
    <2>3. Renumbered(u, v, d, EIx(g), N, moves, origin)
      BY <1>1, <1>7, <1>8, <1>9, <1>10, <1>13 DEF Renumbered
    <2>4. Threads(v, d, EIx(g), r)
      BY <2>1, <2>2, <2>3, NodesMoved
    <2> QED
      BY <1>7, <2>4
  <1>15. \A e \in EIx(h), d \in Dirs : /\ End(v, e, d) = Now(moves, End(h, e, d))
                                       /\ \A x \in DOMAIN moves : End(h, e, d) # moves[x]
    BY <1>1, <1>7, <1>11, <1>13
  <1>16. Rewrites(h, moves, v)
    BY <1>6, <1>11, <1>13, <1>14, <1>15 DEF Rewrites
  <1> QED
    BY <1>16 DEF moves

(***************************************************************************)
(* The chains of a node that moved list the edges that were at it.         *)
(***************************************************************************)
LEMMA RewriteChains ==
  ASSUME NEW g, NEW moves, NEW v, Rewrites(g, moves, v), NEW o \in DOMAIN moves, NEW d \in Dirs
  PROVE  \A e : e \in ToSet(Chain(g, moves[o], d)) <=> e \in EIx(g) /\ End(g, e, d) = o
  <1> DEFINE n == moves[o]
             c == Chain(g, n, d)
             B == At(v, n, d, EIx(g)) \cup {Sentinel}
  <1>1. g \in Tables /\ n \in NIx(g) /\ NIx(v) = NIx(g) /\ EIx(v) = EIx(g) /\ Sentinel \notin EIx(g)
    BY PartTypes DEF Rewrites
  <1>2. PICK r : Threads(v, d, EIx(g), r)
    BY DEF Rewrites
  <1>3. Descends(v, n, d, B, Sentinel, r)
    BY <1>1, <1>2, ThreadsDescend
  <1>4. \A x : x \in B <=> (x \in EIx(g) /\ End(v, x, d) = n) \/ x = Sentinel
    BY DEF At
  <1>5. \A e \in EIx(g) : End(v, e, d) = n <=> End(g, e, d) = o
    BY DEF Rewrites, Now
  <1>6. First(v, n, d) = First(g, n, d) /\ \A e \in EIx(g) : Succ(v, e, d) = Succ(g, e, d)
    BY <1>1 DEF Rewrites
  <1> HIDE DEF n, B
  <1>7. Descends(g, n, d, B, Sentinel, r)
    BY <1>1, <1>3, <1>4, <1>6 DEF Descends
  <1> HIDE DEF c
  <1>8. /\ \A i \in DOMAIN c : c[i] \in B /\ c[i] # Sentinel
        /\ \A e \in B : e # Sentinel => \E i \in DOMAIN c : c[i] = e
    BY <1>1, <1>7, ChainDescends DEF c
  <1>9. \A e : e \in ToSet(c) <=> \E i \in DOMAIN c : c[i] = e
    BY DEF ToSet
  <1>10. \A e : e \in ToSet(c) <=> e \in EIx(g) /\ End(g, e, d) = o
    BY <1>1, <1>4, <1>5, <1>8, <1>9
  <1> QED
    BY <1>10 DEF c, n

(***************************************************************************)
(* A node is visited.                                                      *)
(***************************************************************************)
LEMMA RewritesStep ==
  ASSUME NEW g, NEW moves, NEW v, Rewrites(g, moves, v), NEW o \in DOMAIN moves,
         NEW h, h = Reattach(g, moves[o]),
         NEW others, others = [x \in DOMAIN moves \ {o} |-> moves[x]]
  PROVE  Rewrites(h, others, v)
  <1> DEFINE n == moves[o]
  <1>1. g \in Tables /\ n \in NIx(g) /\ NIx(v) = NIx(g) /\ EIx(v) = EIx(g)
    BY DEF Rewrites
  <1>2. \A d \in Dirs : \A e : e \in ToSet(Chain(g, n, d)) <=> e \in EIx(g) /\ End(g, e, d) = o
    BY RewriteChains
  <1>3. h = Reattach(g, n)
    OBVIOUS
  <1>4. \A x : x \in DOMAIN others <=> x \in DOMAIN moves /\ x # o
    OBVIOUS
  <1>5. \A x \in DOMAIN others : others[x] = moves[x]
    OBVIOUS
  <1>6. n = moves[o]
    OBVIOUS
  <1> HIDE DEF n
  <1>7. /\ h \in Tables /\ NIx(h) = NIx(g) /\ EIx(h) = EIx(g)
        /\ \A x \in NIx(g), d \in Dirs : First(h, x, d) = First(g, x, d)
        /\ \A e \in EIx(g), d \in Dirs :
             /\ Succ(h, e, d) = Succ(g, e, d)
             /\ End(h, e, d) = IF e \in ToSet(Chain(g, n, d)) THEN n ELSE End(g, e, d)
    BY <1>1, <1>3, EdgesReattached
  <1>8. \A e \in EIx(g), d \in Dirs : End(h, e, d) = IF End(g, e, d) = o THEN n ELSE End(g, e, d)
    BY <1>2, <1>7
  <1>9. /\ \A x \in DOMAIN moves : x \notin NIx(g) /\ moves[x] \in NIx(g)
        /\ \A x, y \in DOMAIN moves : moves[x] = moves[y] => x = y
        /\ \A e \in EIx(g), d \in Dirs : /\ End(v, e, d) = Now(moves, End(g, e, d))
                                         /\ \A x \in DOMAIN moves : End(g, e, d) # moves[x]
    BY DEF Rewrites
  <1>10. ASSUME NEW e \in EIx(g), NEW d \in Dirs
         PROVE  /\ End(v, e, d) = Now(others, End(h, e, d))
                /\ \A x \in DOMAIN others : End(h, e, d) # others[x]
    <2>1. CASE End(g, e, d) = o
      <3>1. End(h, e, d) = n /\ End(v, e, d) = n
        BY <1>6, <1>8, <1>9, <2>1 DEF Now
      <3> QED
        BY <1>1, <1>4, <1>5, <1>6, <1>9, <3>1 DEF Now
    <2>2. CASE End(g, e, d) # o
      <3>1. End(h, e, d) = End(g, e, d)
        BY <1>8, <2>2
      <3> QED
        BY <1>4, <1>5, <1>9, <2>2, <3>1 DEF Now
    <2> QED
      BY <2>1, <2>2
  <1>11. /\ \A m \in NIx(g), d \in Dirs : First(v, m, d) = First(h, m, d)
         /\ \A e \in EIx(g), d \in Dirs : Succ(v, e, d) = Succ(h, e, d)
         /\ \A d \in Dirs : \E r : Threads(v, d, EIx(g), r)
    BY <1>7 DEF Rewrites
  <1>12. /\ \A x \in DOMAIN others : x \notin NIx(h) /\ others[x] \in NIx(h)
         /\ \A x, y \in DOMAIN others : others[x] = others[y] => x = y
    BY <1>4, <1>5, <1>7, <1>9
  <1> QED
    BY <1>1, <1>7, <1>10, <1>11, <1>12, SMTT(30) DEF Rewrites

(***************************************************************************)
(* No node is left to visit.                                               *)
(***************************************************************************)
LEMMA RewritesDone ==
  ASSUME NEW g, NEW moves, NEW v, Rewrites(g, moves, v), DOMAIN moves = {}
  PROVE  g \in Tables /\ Threaded(g, EIx(g))
  <1>1. ASSUME NEW d \in Dirs PROVE \E r : Threads(g, d, EIx(g), r)
    <2>1. PICK r : Threads(v, d, EIx(g), r)
      BY DEF Rewrites
    <2>2. /\ NIx(g) = NIx(v)
          /\ \A n \in NIx(v) : First(g, n, d) = First(v, n, d)
          /\ \A e \in EIx(g) : Succ(g, e, d) = Succ(v, e, d) /\ End(g, e, d) = End(v, e, d)
      BY DEF Rewrites, Now
    <2>3. Threads(g, d, EIx(g), r)
      BY <2>1, <2>2, ThreadsCopied
    <2> QED
      BY <2>3
  <1> QED
    BY <1>1 DEF Rewrites, Threaded

-----------------------------------------------------------------------------
(***************************************************************************)
(* b is in use where c is, without the index gone.                         *)
(***************************************************************************)
WithoutIndex(c, b, gone) == \A x : x \in DOMAIN b <=> x \in DOMAIN c /\ x # gone

(***************************************************************************)
(* Removal leaves the lower indices in use.                                *)
(***************************************************************************)
LEMMA LowerStay ==
  ASSUME NEW dense \in BOOLEAN, NEW X, NEW S, NEW c \in Colls(dense, X, S),
         NEW Y, NEW T, NEW b \in Colls(dense, Y, T),
         NEW ix \in DOMAIN c, NEW gone, dense \/ gone = ix, WithoutIndex(c, b, gone),
         NEW x \in DOMAIN c, x \in Int, ix \in Int, x < ix
  PROVE  x \in DOMAIN b
  <1>1. CASE gone = ix
    BY <1>1 DEF WithoutIndex
  <1>2. CASE gone # ix /\ dense
    <2>1. /\ Size(c) \in Nat /\ Size(b) \in Nat
          /\ dense => DOMAIN c = 0..(Size(c) - 1)
          /\ dense => DOMAIN b = 0..(Size(b) - 1)
      BY CollElim
    <2>2. ix \in DOMAIN b
      BY <1>2 DEF WithoutIndex
    <2> QED
      BY <1>2, <2>1, <2>2
  <1> QED
    BY <1>1, <1>2

(***************************************************************************)
(* The shortcut that takes edges one at a time keeps the chains intact.    *)
(***************************************************************************)
LEMMA EdgesTakenOneByOne ==
  ASSUME NEW g \in Tables, Threaded(g, EIx(g)), NEW es, ToSet(es) \subseteq EIx(g),
         NEW t, t = TakeEdgesScalar(g, es)
  PROVE  t.g \in Tables /\ Threaded(t.g, EIx(t.g))
  <1> DEFINE S == ToSet(es)
             q == Descending(S)
             len == Cardinality(S)
             b == [g |-> g, taken |-> <<>>]
  <1>1. S \in SUBSET Int /\ IsFiniteSet(S)
    <2>1. S \subseteq EIx(g) /\ IsFiniteSet(EIx(g))
      BY PartTypes
    <2> HIDE DEF S
    <2> QED
      BY <2>1, FS_Subset, IndicesOrdered
  <1>2. /\ len \in Nat /\ DOMAIN q = 1..len /\ Len(q) = len
        /\ \A i \in 1..len : q[i] \in S
        /\ \A i, j \in 1..len : i < j => q[i] > q[j]
    <2> HIDE DEF S
    <2> QED
      BY <1>1, DescendingLists
  <1>3. RunsTo(t, "take edges", {}, {}, {}, b, q)
    BY <1>2, TakeEdgesRuns
  <1>4. \A x \in S : x \in EIx(g) /\ x \in Int
    BY <1>1
  <1>5. b.g = g
    OBVIOUS
  <1> HIDE DEF S, q, len, b
  <1>6. PICK f : Runs(f, "take edges", {}, {}, {}, b, q) /\ f[len] = t
    BY <1>2, <1>3 DEF RunsTo
  <1>7. f[0] = b /\ \A k \in 1..len : f[k] = EdgeTurn(f[k - 1], q[k])
    BY <1>2, <1>6 DEF Runs, TurnOf
  <1> DEFINE K == {k \in 0..len : /\ f[k].g \in Tables /\ Threaded(f[k].g, EIx(f[k].g))
                                  /\ \A i \in 1..len : i > k => q[i] \in EIx(f[k].g)}
  <1>8. 0 \in K
    BY <1>2, <1>4, <1>5, <1>7
  <1>9. \A k \in 1..len : k - 1 \in K => k \in K
    <2> SUFFICES ASSUME NEW k \in 1..len, k - 1 \in K PROVE k \in K
      OBVIOUS
    <2> DEFINE u == f[k - 1].g
               e == q[k]
               h == TakeEdge(u, e)
    <2>1. /\ u \in Tables /\ Threaded(u, EIx(u))
          /\ \A i \in 1..len : i > k - 1 => q[i] \in EIx(u)
      OBVIOUS
    <2>2. e \in EIx(u) /\ k - 1 \in Int /\ k \in Int /\ k > k - 1 /\ k \in 0..len
      BY <1>2, <2>1
    <2>3. f[k].g = h
      <3>1. f[k] = EdgeTurn(f[k - 1], q[k])
        BY <1>7
      <3> QED
        BY <3>1 DEF EdgeTurn
    <2> HIDE DEF u, h
    <2>4. h \in Tables /\ LessEdge(u, e, h) /\ Threaded(h, EIx(h))
      BY <2>1, <2>2, TakeEdgeThreaded DEF h
    <2>5. PICK gone : (\A x : x \in EIx(h) <=> x \in EIx(u) /\ x # gone) /\ (DenseEdges \/ gone = e)
      BY <2>4 DEF LessEdge
    <2>6. u.edges \in Colls(DenseEdges, EdgeIndices, EdgeEntries) /\ h.edges \in Colls(DenseEdges, EdgeIndices, EdgeEntries)
      BY <2>1, <2>4, TablesElim
    <2>7. ASSUME NEW i \in 1..len, i > k PROVE q[i] \in EIx(h)
      <3>1. q[i] \in EIx(u) /\ q[i] \in Int /\ e \in Int /\ q[i] < e
        BY <1>2, <1>4, <2>1, <2>2, <2>7
      <3> HIDE DEF e
      <3>2. WithoutIndex(u.edges, h.edges, gone)
        BY <2>5 DEF WithoutIndex, EIx
      <3> QED
        BY <2>2, <2>5, <2>6, <3>1, <3>2, FamiliesAssumption, LowerStay DEF EIx
    <2> QED
      BY <2>2, <2>3, <2>4, <2>7
  <1>10. len \in K
    <2> HIDE DEF K
    <2> QED
      BY <1>2, <1>8, <1>9, RoundInduction
  <1> QED
    BY <1>6, <1>10

(***************************************************************************)
(* So does the one that takes nodes.                                       *)
(***************************************************************************)
LEMMA NodesTakenOneByOne ==
  ASSUME NEW g \in Tables, Threaded(g, EIx(g)), NEW ns, ToSet(ns) \subseteq NIx(g),
         NEW t, t = TakeNodesScalar(g, ns)
  PROVE  t.g \in Tables /\ Threaded(t.g, EIx(t.g))
  <1> DEFINE S == ToSet(ns)
             q == Descending(S)
             len == Cardinality(S)
             b == [g |-> g, taken |-> <<>>]
  <1>1. S \in SUBSET Int /\ IsFiniteSet(S)
    <2>1. S \subseteq NIx(g) /\ IsFiniteSet(NIx(g))
      BY PartTypes
    <2> HIDE DEF S
    <2> QED
      BY <2>1, FS_Subset, IndicesOrdered
  <1>2. /\ len \in Nat /\ DOMAIN q = 1..len /\ Len(q) = len
        /\ \A i \in 1..len : q[i] \in S
        /\ \A i, j \in 1..len : i < j => q[i] > q[j]
    <2> HIDE DEF S
    <2> QED
      BY <1>1, DescendingLists
  <1>3. RunsTo(t, "take nodes", {}, {}, {}, b, q)
    BY <1>2, TakeNodesRuns
  <1>4. \A x \in S : x \in NIx(g) /\ x \in Int
    BY <1>1
  <1>5. b.g = g
    OBVIOUS
  <1> HIDE DEF S, q, len, b
  <1>6. PICK f : Runs(f, "take nodes", {}, {}, {}, b, q) /\ f[len] = t
    BY <1>2, <1>3 DEF RunsTo
  <1>7. f[0] = b /\ \A k \in 1..len : f[k] = NodeTurn(f[k - 1], q[k])
    BY <1>2, <1>6 DEF Runs, TurnOf
  <1> DEFINE K == {k \in 0..len : /\ f[k].g \in Tables /\ Threaded(f[k].g, EIx(f[k].g))
                                  /\ \A i \in 1..len : i > k => q[i] \in NIx(f[k].g)}
  <1>8. 0 \in K
    BY <1>2, <1>4, <1>5, <1>7
  <1>9. \A k \in 1..len : k - 1 \in K => k \in K
    <2> SUFFICES ASSUME NEW k \in 1..len, k - 1 \in K PROVE k \in K
      OBVIOUS
    <2> DEFINE u == f[k - 1].g
               n == q[k]
               h == TakeNode(u, n)
    <2>1. /\ u \in Tables /\ Threaded(u, EIx(u))
          /\ \A i \in 1..len : i > k - 1 => q[i] \in NIx(u)
      OBVIOUS
    <2>2. n \in NIx(u) /\ k - 1 \in Int /\ k \in Int /\ k > k - 1 /\ k \in 0..len
      BY <1>2, <2>1
    <2>3. f[k].g = h
      <3>1. f[k] = NodeTurn(f[k - 1], q[k])
        BY <1>7
      <3> QED
        BY <3>1 DEF NodeTurn
    <2> HIDE DEF u, h
    <2>4. h \in Tables /\ LessNode(u, n, h) /\ Threaded(h, EIx(h))
      BY <2>1, <2>2, TakeNodeThreaded DEF h
    <2>5. PICK gone : (\A x : x \in NIx(h) <=> x \in NIx(u) /\ x # gone) /\ (DenseNodes \/ gone = n)
      BY <2>4 DEF LessNode
    <2>6. u.nodes \in Colls(DenseNodes, NodeIndices, NodeEntries) /\ h.nodes \in Colls(DenseNodes, NodeIndices, NodeEntries)
      BY <2>1, <2>4, TablesElim
    <2>7. ASSUME NEW i \in 1..len, i > k PROVE q[i] \in NIx(h)
      <3>1. q[i] \in NIx(u) /\ q[i] \in Int /\ n \in Int /\ q[i] < n
        BY <1>2, <1>4, <2>1, <2>2, <2>7
      <3> HIDE DEF n
      <3>2. WithoutIndex(u.nodes, h.nodes, gone)
        BY <2>5 DEF WithoutIndex, NIx
      <3> QED
        BY <2>2, <2>5, <2>6, <3>1, <3>2, FamiliesAssumption, LowerStay DEF NIx
    <2> QED
      BY <2>2, <2>3, <2>4, <2>7
  <1>10. len \in K
    <2> HIDE DEF K
    <2> QED
      BY <1>2, <1>8, <1>9, RoundInduction
  <1> QED
    BY <1>6, <1>10

-----------------------------------------------------------------------------
(***************************************************************************)
(* The inductive invariant.  Between calls the graph is linked; in a batch *)
(* what holds of it depends on the phase.                                  *)
(***************************************************************************)
JobFields(j) == {"pc", "chains", "moves", "out", "short"} \subseteq DOMAIN j /\ ~j.short

InUnlink(g, j) ==
  /\ JobFields(j) /\ j.pc = "unlink" /\ DOMAIN j.moves = {}
  /\ Unlinks(g, ToSet(j.ns), j.dying, j.chains)

InPatch(g, j) ==
  /\ JobFields(j) /\ j.pc = "patch"
  /\ \E v, origin : Patches(g, ToSet(j.ns), j.moves, j.chains, v, origin)

InRewrite(g, j) ==
  /\ JobFields(j) /\ j.pc = "rewrite"
  /\ \E v : Rewrites(g, j.moves, v)

BatchInv ==
  \/ job = Idle /\ Linked
  \/ InUnlink(graph, job)
  \/ InPatch(graph, job)
  \/ InRewrite(graph, job)

(***************************************************************************)
(* A job under way is in one of the phases.                                *)
(***************************************************************************)
LEMMA PhasesApart ==
  /\ Idle.pc = "idle"
  /\ job = Idle => job.pc = "idle"
  /\ InUnlink(graph, job) => job.pc = "unlink"
  /\ InPatch(graph, job) => job.pc = "patch"
  /\ InRewrite(graph, job) => job.pc = "rewrite"
  BY DEF Idle, InUnlink, InPatch, InRewrite

(***************************************************************************)
(* It holds at first.                                                      *)
(***************************************************************************)
LEMMA BatchInit == BInit => BatchInv
  BY EmptyThreaded DEF BInit, Init, BatchInv, Linked

(***************************************************************************)
(* A call of LinkedAdjEdge.                                                *)
(***************************************************************************)
LEMMA SingleKeeps == BatchInv /\ job = Idle /\ Next /\ UNCHANGED job => BatchInv'
  <1> SUFFICES ASSUME BatchInv, job = Idle, Next, UNCHANGED job PROVE BatchInv'
    OBVIOUS
  <1>1. Linked
    BY PhasesApart DEF BatchInv
  <1>2. Linked'
    BY <1>1, LinkedStep
  <1> QED
    BY <1>2 DEF BatchInv

(***************************************************************************)
(* The shortcuts.                                                          *)
(***************************************************************************)
LEMMA ShortcutsKeep ==
  /\ \A es \in Batches(Edges) : BatchInv /\ TakeEdgesOnly(es) => BatchInv'
  /\ \A ns \in Batches(Nodes) : BatchInv /\ TakeNodesOnly(ns) => BatchInv'
  <1>1. ASSUME NEW es \in Batches(Edges), BatchInv, TakeEdgesOnly(es) PROVE BatchInv'
    <2> DEFINE t == TakeEdgesScalar(graph, es)
    <2>1. job = Idle /\ graph' = t.g /\ job' = job
      BY <1>1 DEF TakeEdgesOnly
    <2>2. graph \in Tables /\ Threaded(graph, EIx(graph))
      BY <1>1, <2>1, PhasesApart DEF BatchInv, Linked
    <2>3. ToSet(es) \subseteq EIx(graph)
      BY BatchesName DEF Edges, EIx
    <2>4. t.g \in Tables /\ Threaded(t.g, EIx(t.g))
      BY <2>2, <2>3, EdgesTakenOneByOne
    <2> HIDE DEF t
    <2> QED
      BY <2>1, <2>4 DEF BatchInv, Linked
  <1>2. ASSUME NEW ns \in Batches(Nodes), BatchInv, TakeNodesOnly(ns) PROVE BatchInv'
    <2> DEFINE t == TakeNodesScalar(graph, ns)
    <2>1. job = Idle /\ graph' = t.g /\ job' = job
      BY <1>2 DEF TakeNodesOnly
    <2>2. graph \in Tables /\ Threaded(graph, EIx(graph))
      BY <1>2, <2>1, PhasesApart DEF BatchInv, Linked
    <2>3. ToSet(ns) \subseteq NIx(graph)
      BY BatchesName DEF Nodes, NIx
    <2>4. t.g \in Tables /\ Threaded(t.g, EIx(t.g))
      BY <2>2, <2>3, NodesTakenOneByOne
    <2> HIDE DEF t
    <2> QED
      BY <2>1, <2>4 DEF BatchInv, Linked
  <1> QED
    BY <1>1, <1>2

(***************************************************************************)
(* A batch begins.                                                         *)
(***************************************************************************)
LEMMA BeginKeeps ==
  ASSUME BatchInv, NEW ns \in Batches(Nodes), NEW es \in Batches(Edges), BeginPhases(ns, es)
  PROVE  BatchInv'
  <1> DEFINE D == Dying(graph, ns, es)
             chains == ChainCounts(graph, D, ToSet(ns))
  <1>1. /\ job = Idle /\ graph' = graph
        /\ job'.pc = "unlink" /\ job'.ns = ns /\ job'.dying = D /\ job'.chains = chains /\ job'.moves = <<>>
        /\ JobFields(job')
    BY DEF BeginPhases, JobFields
  <1>2. graph \in Tables /\ Threaded(graph, EIx(graph))
    BY <1>1, PhasesApart DEF BatchInv, Linked
  <1>3. ToSet(ns) \subseteq NIx(graph) /\ ToSet(es) \subseteq EIx(graph)
    BY BatchesName DEF Nodes, NIx, Edges, EIx
  <1>4. Unlinks(graph, ToSet(ns), D, chains)
    BY <1>2, <1>3, UnlinksBegin
  <1>5. DOMAIN <<>> = {}
    BY CollEmpty
  <1> HIDE DEF D, chains
  <1>6. InUnlink(graph, job)'
    BY <1>1, <1>4, <1>5 DEF InUnlink
  <1> QED
    BY <1>6 DEF BatchInv

(***************************************************************************)
(* Phase 2.                                                                *)
(***************************************************************************)
LEMMA UnlinkKeeps ==
  ASSUME InUnlink(graph, job), NEW c \in DOMAIN job.chains, UnlinkChain(c)
  PROVE  InUnlink(graph, job)'
  <1> DEFINE s == UnlinkDying(graph, c[1], c[2], job.dying, job.chains[c])
             others == [d \in DOMAIN job.chains \ {c} |-> job.chains[d]]
             short == job.short \/ s.left > 0
             j == job
  <1>1. graph' = s.g /\ job' = [j EXCEPT !.chains = others, !.short = short]
    BY DEF UnlinkChain, Visited
  <1>2. JobFields(j) /\ j.pc = "unlink" /\ DOMAIN j.moves = {} /\ Unlinks(graph, ToSet(j.ns), j.dying, j.chains)
    BY DEF InUnlink
  <1>3. c = <<c[1], c[2]>>
    BY <1>2 DEF Unlinks
  <1>4. s.left = 0 /\ Unlinks(s.g, ToSet(j.ns), j.dying, others)
    BY <1>2, <1>3, UnlinksChain
  <1> HIDE DEF s, others, j
  <1>5. ~short
    <2>1. ~(s.left > 0)
      BY <1>4
    <2>2. ~j.short
      BY <1>2 DEF JobFields
    <2> QED
      BY <2>1, <2>2 DEF j
  <1> HIDE DEF short
  <1>6. /\ {"pc", "chains", "moves", "out", "short"} \subseteq DOMAIN job'
        /\ job'.chains = others /\ job'.short = short
        /\ job'.pc = j.pc /\ job'.ns = j.ns /\ job'.dying = j.dying /\ job'.moves = j.moves
    BY <1>1, <1>2 DEF JobFields
  <1>7. JobFields(job')
    BY <1>5, <1>6, Zenon DEF JobFields
  <1> QED
    BY <1>1, <1>2, <1>4, <1>6, <1>7 DEF InUnlink

(***************************************************************************)
(* Phase 3.                                                                *)
(***************************************************************************)
LEMMA TakeDyingEdgesKeeps ==
  ASSUME InUnlink(graph, job), TakeDyingEdges
  PROVE  InPatch(graph, job)'
  <1> DEFINE t == TakeAll(DenseEdges, graph.edges, job.dying)
             h == [graph EXCEPT !.edges = t.c]
             stale == ChainCounts(h, Range(t.moves), {})
             out == OutBuffer(job.es, t.taken)
             j == job
  <1>1. /\ graph' = h /\ j.chains = <<>>
        /\ job' = [j EXCEPT !.pc = "patch", !.moves = t.moves, !.chains = stale, !.out[2] = out]
    BY DEF TakeDyingEdges
  <1>2. JobFields(j) /\ Unlinks(graph, ToSet(j.ns), j.dying, j.chains)
    BY DEF InUnlink
  <1>3. DOMAIN j.chains = {}
    BY <1>1, CollEmpty
  <1>4. \E v, origin : Patches(h, ToSet(j.ns), t.moves, stale, v, origin)
    BY <1>2, <1>3, DyingTaken
  <1> HIDE DEF t, h, stale, out, j
  <1>5. JobFields(job') /\ job'.pc = "patch" /\ job'.ns = j.ns /\ job'.moves = t.moves /\ job'.chains = stale
    BY <1>1, <1>2 DEF JobFields
  <1> QED
    BY <1>1, <1>4, <1>5 DEF InPatch

(***************************************************************************)
(* Phase 4.                                                                *)
(***************************************************************************)
LEMMA PatchKeeps ==
  ASSUME InPatch(graph, job), NEW c \in DOMAIN job.chains, PatchChain(c)
  PROVE  InPatch(graph, job)'
  <1> DEFINE s == PatchMoved(graph, c[1], c[2], job.moves, job.chains[c])
             others == [d \in DOMAIN job.chains \ {c} |-> job.chains[d]]
             short == job.short \/ s.left > 0
             j == job
  <1>1. graph' = s.g /\ job' = [j EXCEPT !.chains = others, !.short = short]
    BY DEF PatchChain, Visited
  <1>2. JobFields(j) /\ j.pc = "patch"
    BY DEF InPatch
  <1>3. PICK v, origin : Patches(graph, ToSet(j.ns), j.moves, j.chains, v, origin)
    BY DEF InPatch
  <1>4. c = <<c[1], c[2]>>
    BY <1>3 DEF Patches
  <1>5. s.left = 0 /\ Patches(s.g, ToSet(j.ns), j.moves, others, v, origin)
    BY <1>3, <1>4, PatchesChain
  <1> HIDE DEF s, others, j
  <1>6. ~short
    <2>1. ~(s.left > 0)
      BY <1>5
    <2>2. ~j.short
      BY <1>2 DEF JobFields
    <2> QED
      BY <2>1, <2>2 DEF j
  <1> HIDE DEF short
  <1>7. /\ {"pc", "chains", "moves", "out", "short"} \subseteq DOMAIN job'
        /\ job'.chains = others /\ job'.short = short
        /\ job'.pc = j.pc /\ job'.ns = j.ns /\ job'.moves = j.moves
    BY <1>1, <1>2 DEF JobFields
  <1>8. JobFields(job')
    BY <1>6, <1>7, Zenon DEF JobFields
  <1> QED
    BY <1>1, <1>2, <1>5, <1>7, <1>8 DEF InPatch

(***************************************************************************)
(* Phase 5.                                                                *)
(***************************************************************************)
LEMMA TakeDyingNodesKeeps ==
  ASSUME InPatch(graph, job), TakeDyingNodes
  PROVE  InRewrite(graph, job)'
  <1> DEFINE t == TakeAll(DenseNodes, graph.nodes, ToSet(job.ns))
             h == [graph EXCEPT !.nodes = t.c]
             out == OutBuffer(job.ns, t.taken)
             j == job
  <1>1. /\ graph' = h /\ j.chains = <<>>
        /\ job' = [j EXCEPT !.pc = "rewrite", !.moves = t.moves, !.out[1] = out]
    BY DEF TakeDyingNodes
  <1>2. JobFields(j)
    BY DEF InPatch
  <1>3. PICK v, origin : Patches(graph, ToSet(j.ns), j.moves, j.chains, v, origin)
    BY DEF InPatch
  <1>4. DOMAIN j.chains = {}
    BY <1>1, CollEmpty
  <1>5. \E w : Rewrites(h, t.moves, w)
    BY <1>3, <1>4, NodesTaken
  <1> HIDE DEF t, h, out, j
  <1>6. JobFields(job') /\ job'.pc = "rewrite" /\ job'.moves = t.moves
    BY <1>1, <1>2 DEF JobFields
  <1> QED
    BY <1>1, <1>5, <1>6 DEF InRewrite

(***************************************************************************)
(* Phase 6.                                                                *)
(***************************************************************************)
LEMMA RewriteKeeps ==
  ASSUME InRewrite(graph, job), NEW o \in DOMAIN job.moves, RewriteEndpoints(o)
  PROVE  InRewrite(graph, job)'
  <1> DEFINE h == Reattach(graph, job.moves[o])
             others == [n \in DOMAIN job.moves \ {o} |-> job.moves[n]]
             j == job
  <1>1. graph' = h /\ job' = [j EXCEPT !.moves = others]
    BY DEF RewriteEndpoints
  <1>2. JobFields(j) /\ j.pc = "rewrite"
    BY DEF InRewrite
  <1>3. PICK v : Rewrites(graph, j.moves, v)
    BY DEF InRewrite
  <1>4. Rewrites(h, others, v)
    BY <1>3, RewritesStep
  <1> HIDE DEF h, others, j
  <1>5. JobFields(job') /\ job'.pc = "rewrite" /\ job'.moves = others
    BY <1>1, <1>2 DEF JobFields
  <1> QED
    BY <1>1, <1>4, <1>5 DEF InRewrite

(***************************************************************************)
(* The call returns.                                                       *)
(***************************************************************************)
LEMMA ReturnKeeps ==
  ASSUME InRewrite(graph, job), Return
  PROVE  job' = Idle /\ Linked'
  <1>1. graph' = graph /\ job' = Idle /\ job.moves = <<>>
    BY DEF Return
  <1>2. PICK v : Rewrites(graph, job.moves, v)
    BY DEF InRewrite
  <1>3. DOMAIN job.moves = {}
    BY <1>1, CollEmpty
  <1>4. graph \in Tables /\ Threaded(graph, EIx(graph))
    BY <1>2, <1>3, RewritesDone
  <1> QED
    BY <1>1, <1>4 DEF Linked

(***************************************************************************)
(* A step of a batch.                                                      *)
(***************************************************************************)
LEMMA PhasesKeep ==
  ASSUME BatchInv, job # Idle, Phases
  PROVE  BatchInv'
  <1>1. InUnlink(graph, job) \/ InPatch(graph, job) \/ InRewrite(graph, job)
    BY DEF BatchInv
  <1>2. ASSUME NEW c \in DOMAIN job.chains, UnlinkChain(c) PROVE BatchInv'
    <2>1. InUnlink(graph, job)
      BY <1>1, <1>2, PhasesApart DEF UnlinkChain
    <2> QED
      BY <1>2, <2>1, UnlinkKeeps DEF BatchInv
  <1>3. ASSUME NEW c \in DOMAIN job.chains, PatchChain(c) PROVE BatchInv'
    <2>1. InPatch(graph, job)
      BY <1>1, <1>3, PhasesApart DEF PatchChain
    <2> QED
      BY <1>3, <2>1, PatchKeeps DEF BatchInv
  <1>4. ASSUME TakeDyingEdges PROVE BatchInv'
    <2>1. InUnlink(graph, job)
      BY <1>1, <1>4, PhasesApart DEF TakeDyingEdges
    <2> QED
      BY <1>4, <2>1, TakeDyingEdgesKeeps DEF BatchInv
  <1>5. ASSUME TakeDyingNodes PROVE BatchInv'
    <2>1. InPatch(graph, job)
      BY <1>1, <1>5, PhasesApart DEF TakeDyingNodes
    <2> QED
      BY <1>5, <2>1, TakeDyingNodesKeeps DEF BatchInv
  <1>6. ASSUME NEW o \in DOMAIN job.moves, RewriteEndpoints(o) PROVE BatchInv'
    <2>1. InRewrite(graph, job)
      BY <1>1, <1>6, PhasesApart DEF RewriteEndpoints
    <2> QED
      BY <1>6, <2>1, RewriteKeeps DEF BatchInv
  <1>7. ASSUME Return PROVE BatchInv'
    <2>1. InRewrite(graph, job)
      BY <1>1, <1>7, PhasesApart DEF Return
    <2> QED
      BY <1>7, <2>1, ReturnKeeps DEF BatchInv
  <1> QED
    BY <1>2, <1>3, <1>4, <1>5, <1>6, <1>7 DEF Phases

(***************************************************************************)
(* Every step keeps the invariant.                                         *)
(***************************************************************************)
LEMMA BatchStep == BatchInv /\ [BNext]_bvars => BatchInv'
  <1> SUFFICES ASSUME BatchInv, [BNext]_bvars PROVE BatchInv'
    OBVIOUS
  <1>1. CASE UNCHANGED bvars
    BY <1>1 DEF bvars, BatchInv, Linked
  <1>2. CASE job = Idle /\ Next /\ UNCHANGED job
    BY <1>2, SingleKeeps
  <1>3. ASSUME NEW es \in Batches(Edges), TakeEdgesOnly(es) PROVE BatchInv'
    BY <1>3, ShortcutsKeep
  <1>4. ASSUME NEW ns \in Batches(Nodes), TakeNodesOnly(ns) PROVE BatchInv'
    BY <1>4, ShortcutsKeep
  <1>5. ASSUME NEW ns \in Batches(Nodes), NEW es \in Batches(Edges), BeginPhases(ns, es) PROVE BatchInv'
    BY <1>5, BeginKeeps
  <1>6. CASE job # Idle /\ Phases
    BY <1>6, PhasesKeep
  <1> QED
    BY <1>1, <1>2, <1>3, <1>4, <1>5, <1>6 DEF BNext

-----------------------------------------------------------------------------
(***************************************************************************)
(* What the invariant says between calls.                                  *)
(***************************************************************************)
LEMMA InvThreaded == BatchInv => ThreadedOnceWhenIdle
  BY PhasesApart, LinkedTypeOK, LinkedThreadedOnce DEF BatchInv, ThreadedOnceWhenIdle

(***************************************************************************)
(* What it says of the sweeps.                                             *)
(***************************************************************************)
LEMMA InvSweeps == BatchInv => SweepsMeetAll
  <1> SUFFICES ASSUME BatchInv, job # Idle PROVE ~job.short
    BY DEF SweepsMeetAll
  <1>1. JobFields(job)
    BY DEF BatchInv, InUnlink, InPatch, InRewrite
  <1> DEFINE j == job
  <1>2. JobFields(j)
    BY <1>1
  <1> HIDE DEF j
  <1>3. ~j.short
    BY <1>2 DEF JobFields
  <1> QED
    BY <1>3 DEF j

(***************************************************************************)
(* What it says of the moves.                                              *)
(***************************************************************************)
LEMMA InvPositions == BatchInv => PositionsNeverCollide
  <1> SUFFICES ASSUME BatchInv, job # Idle PROVE DOMAIN job.moves \cap Range(job.moves) = {}
    BY DEF PositionsNeverCollide
  <1>1. \A y : y \in Range(job.moves) <=> \E x \in DOMAIN job.moves : job.moves[x] = y
    BY DEF Range
  <1>2. CASE InUnlink(graph, job)
    BY <1>2 DEF InUnlink
  <1>3. CASE InPatch(graph, job)
    <2>1. PICK v, origin : Patches(graph, ToSet(job.ns), job.moves, job.chains, v, origin)
      BY <1>3 DEF InPatch
    <2>2. \A x \in DOMAIN job.moves : x \notin EIx(graph) /\ job.moves[x] \in EIx(graph)
      BY <2>1 DEF Patches, MovesBack
    <2> QED
      BY <1>1, <2>2
  <1>4. CASE InRewrite(graph, job)
    <2>1. PICK v : Rewrites(graph, job.moves, v)
      BY <1>4 DEF InRewrite
    <2>2. \A x \in DOMAIN job.moves : x \notin NIx(graph) /\ job.moves[x] \in NIx(graph)
      BY <2>1 DEF Rewrites
    <2> QED
      BY <1>1, <2>2
  <1> QED
    BY <1>2, <1>3, <1>4 DEF BatchInv

(***************************************************************************)
(* What it says of the rewriting.                                          *)
(***************************************************************************)
LEMMA InvRewrite == BatchInv => RewriteSeesOrigin
  <1> SUFFICES ASSUME BatchInv, job # Idle, job.pc = "rewrite", NEW o \in DOMAIN job.moves
               PROVE  /\ job.moves[o] \in Nodes
                      /\ \A dir \in Dirs : \A e \in ToSet(Chain(graph, job.moves[o], dir)) :
                           graph.edges[e].node[dir] = o
    BY DEF RewriteSeesOrigin
  <1>1. InRewrite(graph, job)
    BY PhasesApart DEF BatchInv
  <1>2. PICK v : Rewrites(graph, job.moves, v)
    BY <1>1 DEF InRewrite
  <1>3. job.moves[o] \in Nodes
    BY <1>2 DEF Rewrites, NIx, Nodes
  <1>4. ASSUME NEW dir \in Dirs, NEW e \in ToSet(Chain(graph, job.moves[o], dir))
        PROVE  End(graph, e, dir) = o
    BY <1>2, RewriteChains
  <1> QED
    BY <1>3, <1>4 DEF End

(***************************************************************************)
(* Whatever batches, shortcuts and single calls are made, in whatever      *)
(* order the phases visit chains and nodes, with whatever combination of   *)
(* backends: between calls the collections hold what they should, every    *)
(* edge is once on the chains of its two ends and on no other, and every   *)
(* chain ends.                                                             *)
(***************************************************************************)
THEOREM BatchesKeepChains == BSpec => []ThreadedOnceWhenIdle
  <1>1. BInit => BatchInv
    BY BatchInit
  <1>2. BatchInv /\ [BNext]_bvars => BatchInv'
    BY BatchStep
  <1>3. BatchInv => ThreadedOnceWhenIdle
    BY InvThreaded
  <1> QED
    BY <1>1, <1>2, <1>3, PTL DEF BSpec

(***************************************************************************)
(* No sweep along a chain runs off its end before it has met all the links *)
(* it was told to expect: unwrap_unchecked in unlink_dying_edges and       *)
(* patch_moved_edges never meets the end.                                  *)
(***************************************************************************)
THEOREM SweepsNeverFallShort == BSpec => []SweepsMeetAll
  <1>1. BInit => BatchInv
    BY BatchInit
  <1>2. BatchInv /\ [BNext]_bvars => BatchInv'
    BY BatchStep
  <1>3. BatchInv => SweepsMeetAll
    BY InvSweeps
  <1> QED
    BY <1>1, <1>2, <1>3, PTL DEF BSpec

(***************************************************************************)
(* While moved edges are patched and moved nodes rewritten, no position is *)
(* both one that an entry has left and one that an entry has moved to: a   *)
(* pointer found stale has not been redirected already.                    *)
(***************************************************************************)
THEOREM PositionsApart == BSpec => []PositionsNeverCollide
  <1>1. BInit => BatchInv
    BY BatchInit
  <1>2. BatchInv /\ [BNext]_bvars => BatchInv'
    BY BatchStep
  <1>3. BatchInv => PositionsNeverCollide
    BY InvPositions
  <1> QED
    BY <1>1, <1>2, <1>3, PTL DEF BSpec

(***************************************************************************)
(* When the endpoints are rewritten, a node that moved is where the map    *)
(* says, and all edges on its chains store the index it had (debug_assert  *)
(* in the loop).                                                           *)
(***************************************************************************)
THEOREM RewritesMeetOrigin == BSpec => []RewriteSeesOrigin
  <1>1. BInit => BatchInv
    BY BatchInit
  <1>2. BatchInv /\ [BNext]_bvars => BatchInv'
    BY BatchStep
  <1>3. BatchInv => RewriteSeesOrigin
    BY InvRewrite
  <1> QED
    BY <1>1, <1>2, <1>3, PTL DEF BSpec

-----------------------------------------------------------------------------
(***************************************************************************)
(* The iteration over the edges of a node.                                 *)
(***************************************************************************)
LEMMA ListRuns ==
  ASSUME NEW n, NEW len \in Nat, DOMAIN Chain(graph, n, INCOMING) = 1..len, Len(Chain(graph, n, INCOMING)) = len
  PROVE  RunsTo(EdgeIndicesOf(n), "list", n, {}, graph, Chain(graph, n, OUTGOING), Chain(graph, n, INCOMING))
  <1> DEFINE q == Chain(graph, n, INCOMING)
             b == Chain(graph, n, OUTGOING)
             T(s, x) == ListTurn(s, x, n, graph)
             Eq(i) == i = [s \in SUBSET DOMAIN q |->
                             IF s = {} THEN b ELSE T(i[s \ {Max(s)}], q[Max(s)])]
             it == CHOOSE i : Eq(i)
  <1>1. \A h, x : TurnOf("list", n, {}, graph, h, x) = T(h, x)
    BY DEF TurnOf
  <1>2. EdgeIndicesOf(n) = it[DOMAIN q]
    BY Zenon DEF EdgeIndicesOf, ListTurn, FoldLeft, MapThenFoldSet
  <1>3. DOMAIN q = 1..len /\ Len(q) = len
    OBVIOUS
  <1> HIDE DEF b, q, T
  <1>4. \A i : Eq(i) <=> Turns(i, "list", n, {}, graph, b, q)
    BY <1>1, Zenon DEF Turns
  <1>5. Eq(it)
    <2> HIDE DEF Eq
    <2> QED
      BY <1>3, <1>4, TurnsExist
  <1> HIDE DEF Eq, it
  <1>6. Turns(it, "list", n, {}, graph, b, q)
    BY <1>4, <1>5
  <1>7. RunsTo(it[DOMAIN q], "list", n, {}, graph, b, q)
    BY <1>3, <1>6, TurnsRun
  <1> QED
    BY <1>2, <1>7 DEF b, q

(***************************************************************************)
(* A list of edges that grows by one it does not have.                     *)
(***************************************************************************)
LEMMA ListGrows ==
  ASSUME NEW S, NEW es \in Seq(S), IsInjective(es), NEW e \in S, e \notin ToSet(es)
  PROVE  /\ Append(es, e) \in Seq(S) /\ IsInjective(Append(es, e))
         /\ \A x : x \in ToSet(Append(es, e)) <=> x \in ToSet(es) \/ x = e
  <1> DEFINE fs == Append(es, e)
  <1>1. /\ fs \in Seq(S) /\ Len(es) \in Nat /\ DOMAIN es = 1..Len(es) /\ DOMAIN fs = 1..(Len(es) + 1)
        /\ \A i \in 1..Len(es) : fs[i] = es[i]
        /\ fs[Len(es) + 1] = e
    OBVIOUS
  <1>2. \A s, x : x \in ToSet(s) <=> \E i \in DOMAIN s : s[i] = x
    BY DEF ToSet
  <1> HIDE DEF fs
  <1>3. \A i \in DOMAIN es : es[i] # e
    BY <1>2
  <1>4. \A i \in DOMAIN fs : i \in DOMAIN es \/ i = Len(es) + 1
    BY <1>1
  <1>5. IsInjective(fs)
    <2> SUFFICES ASSUME NEW i \in DOMAIN fs, NEW j \in DOMAIN fs, fs[i] = fs[j] PROVE i = j
      BY DEF IsInjective
    <2>1. \A k, l \in DOMAIN es : es[k] = es[l] => k = l
      BY DEF IsInjective
    <2> QED
      BY <1>1, <1>3, <1>4, <2>1
  <1>6. \A x : x \in ToSet(fs) <=> x \in ToSet(es) \/ x = e
    <2> SUFFICES ASSUME NEW x PROVE x \in ToSet(fs) <=> x \in ToSet(es) \/ x = e
      OBVIOUS
    <2>1. ASSUME x \in ToSet(es) PROVE x \in ToSet(fs)
      <3>1. PICK i \in DOMAIN es : es[i] = x
        BY <1>2, <2>1
      <3>2. i \in DOMAIN fs /\ fs[i] = x
        BY <1>1, <3>1
      <3> QED
        BY <1>2, <3>2
    <2>2. e \in ToSet(fs)
      <3>1. Len(es) + 1 \in DOMAIN fs
        BY <1>1
      <3> QED
        BY <1>1, <1>2, <3>1
    <2>3. ASSUME x \in ToSet(fs) PROVE x \in ToSet(es) \/ x = e
      <3>1. PICK i \in DOMAIN fs : fs[i] = x
        BY <1>2, <2>3
      <3> QED
        BY <1>1, <1>2, <1>4, <3>1
    <2> QED
      BY <2>1, <2>2, <2>3
  <1> QED
    BY <1>1, <1>5, <1>6 DEF fs

(***************************************************************************)
(* It yields the edges at the node, each once.                             *)
(***************************************************************************)
LEMMA LinkedIncidentOnce == Linked => IncidentOnce
  <1> SUFFICES ASSUME Linked, NEW n \in Nodes
               PROVE  /\ IsInjective(EdgeIndicesOf(n))
                      /\ ToSet(EdgeIndicesOf(n)) =
                           {e \in Edges : \E dir \in Dirs : graph.edges[e].node[dir] = n}
    BY DEF IncidentOnce
  <1> DEFINE b == Chain(graph, n, OUTGOING)
             q == Chain(graph, n, INCOMING)
             S == EIx(graph)
             len == Len(q)
             ix == EdgeIndicesOf(n)
  <1>1. graph \in Tables /\ Threaded(graph, EIx(graph)) /\ n \in NIx(graph)
    BY DEF Linked, Nodes, NIx
  <1>2. /\ Len(b) \in Nat /\ DOMAIN b = 1..Len(b)
        /\ \A i \in DOMAIN b : b[i] \in EIx(graph) /\ End(graph, b[i], OUTGOING) = n
        /\ \A i, j \in DOMAIN b : b[i] = b[j] => i = j
        /\ \A e \in EIx(graph) : End(graph, e, OUTGOING) = n => \E i \in DOMAIN b : b[i] = e
    BY <1>1, ChainLists, TwoDirs
  <1>3. /\ Len(q) \in Nat /\ DOMAIN q = 1..Len(q)
        /\ \A i \in DOMAIN q : q[i] \in EIx(graph) /\ End(graph, q[i], INCOMING) = n
        /\ \A i, j \in DOMAIN q : q[i] = q[j] => i = j
        /\ \A e \in EIx(graph) : End(graph, e, INCOMING) = n => \E i \in DOMAIN q : q[i] = e
    BY <1>1, ChainLists, TwoDirs
  <1>4. RunsTo(ix, "list", n, {}, graph, b, q)
    BY <1>3, ListRuns
  <1>5. b = [k \in DOMAIN b |-> b[k]]
    BY DEF Chain
  <1>6. \A s, x : x \in ToSet(s) <=> \E i \in DOMAIN s : s[i] = x
    BY DEF ToSet
  <1>7. \A e, d : End(graph, e, d) = graph.edges[e].node[d]
    BY DEF End
  <1> HIDE DEF b, q, S, len, ix
  <1>8. b \in Seq(S) /\ IsInjective(b)
    <2>1. b \in [1..Len(b) -> S]
      BY <1>2, <1>5 DEF S
    <2> QED
      BY <1>2, <2>1 DEF IsInjective
  <1>9. PICK f : Runs(f, "list", n, {}, graph, b, q) /\ f[len] = ix
    BY <1>4 DEF RunsTo, len
  <1>10. f[0] = b /\ \A k \in 1..len : f[k] = ListTurn(f[k - 1], q[k], n, graph)
    BY <1>9 DEF Runs, TurnOf, len
  <1>11. len \in Nat /\ DOMAIN q = 1..len
    BY <1>3 DEF len
  <1> DEFINE On(x, k) == \/ x \in ToSet(b)
                         \/ \E i \in 1..k : q[i] = x /\ End(graph, x, OUTGOING) # n
             K == {k \in 0..len : /\ f[k] \in Seq(S) /\ IsInjective(f[k])
                                  /\ \A x : x \in ToSet(f[k]) <=> On(x, k)}
  <1>12. 0 \in K
    BY <1>8, <1>10, <1>11
  <1>13. \A k \in 1..len : k - 1 \in K => k \in K
    <2> SUFFICES ASSUME NEW k \in 1..len, k - 1 \in K PROVE k \in K
      OBVIOUS
    <2> DEFINE es == f[k - 1]
               e == q[k]
    <2>1. /\ es \in Seq(S) /\ IsInjective(es)
          /\ \A x : x \in ToSet(es) <=> On(x, k - 1)
      OBVIOUS
    <2>2. e \in S /\ End(graph, e, INCOMING) = n
      BY <1>3, <1>11 DEF S
    <2>3. f[k] = IF End(graph, e, OUTGOING) = n THEN es ELSE Append(es, e)
      BY <1>7, <1>10 DEF ListTurn
    <2>4. k \in 0..len /\ k - 1 \in 0..len /\ \A i : i \in 1..k <=> i \in 1..(k - 1) \/ i = k
      BY <1>11
    <2>5. \A x : On(x, k) <=> On(x, k - 1) \/ (x = e /\ End(graph, e, OUTGOING) # n)
      BY <2>4
    <2> HIDE DEF es, On
    <2>6. CASE End(graph, e, OUTGOING) = n
      BY <2>1, <2>3, <2>4, <2>5, <2>6
    <2>7. CASE End(graph, e, OUTGOING) # n
      <3>1. e \notin ToSet(es)
        <4>1. e \notin ToSet(b)
          BY <1>2, <1>6, <2>7
        <4>2. \A i \in 1..(k - 1) : q[i] # e
          BY <1>3, <1>11
        <4> QED
          BY <2>1, <4>1, <4>2 DEF On
      <3>2. /\ Append(es, e) \in Seq(S) /\ IsInjective(Append(es, e))
            /\ \A x : x \in ToSet(Append(es, e)) <=> x \in ToSet(es) \/ x = e
        BY <2>1, <2>2, <3>1, ListGrows
      <3> QED
        BY <2>1, <2>3, <2>4, <2>5, <2>7, <3>2
    <2> QED
      BY <2>6, <2>7
  <1>14. len \in K
    <2> HIDE DEF K
    <2> QED
      BY <1>11, <1>12, <1>13, RoundInduction
  <1>15. IsInjective(ix) /\ \A x : x \in ToSet(ix) <=> On(x, len)
    BY <1>9, <1>14
  <1>16. \A x : On(x, len) <=> x \in EIx(graph) /\ \E d \in Dirs : End(graph, x, d) = n
    <2> SUFFICES ASSUME NEW x
                 PROVE  On(x, len) <=> x \in EIx(graph) /\ \E d \in Dirs : End(graph, x, d) = n
      OBVIOUS
    <2>1. x \in ToSet(b) <=> x \in EIx(graph) /\ End(graph, x, OUTGOING) = n
      BY <1>2, <1>6
    <2>2. (\E i \in 1..len : q[i] = x) <=> x \in EIx(graph) /\ End(graph, x, INCOMING) = n
      BY <1>3, <1>11
    <2>3. (\E d \in Dirs : End(graph, x, d) = n) <=> End(graph, x, OUTGOING) = n \/ End(graph, x, INCOMING) = n
      BY TwoDirs
    <2> QED
      BY <2>1, <2>2, <2>3
  <1> HIDE DEF On
  <1>17. ToSet(ix) = {e \in Edges : \E dir \in Dirs : graph.edges[e].node[dir] = n}
    BY <1>7, <1>15, <1>16 DEF Edges, EIx
  <1> QED
    BY <1>15, <1>17 DEF ix

(***************************************************************************)
(* Between calls, the iteration over the edges of a node yields each edge  *)
(* that starts or ends there, a self-loop too, exactly once, and no other. *)
(***************************************************************************)
THEOREM IterationMeetsEachOnce == BSpec => []IncidentOnceWhenIdle
  <1>1. BInit => BatchInv
    BY BatchInit
  <1>2. BatchInv /\ [BNext]_bvars => BatchInv'
    BY BatchStep
  <1>3. BatchInv => IncidentOnceWhenIdle
    BY PhasesApart, LinkedIncidentOnce DEF BatchInv, IncidentOnceWhenIdle
  <1> QED
    BY <1>1, <1>2, <1>3, PTL DEF BSpec
=============================================================================
