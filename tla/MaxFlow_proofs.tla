--------------------------- MODULE MaxFlow_proofs ---------------------------
(***************************************************************************)
(* Edmonds-Karp computes a maximum flow: for every network, in whichever   *)
(* order its edges are listed.                                             *)
(***************************************************************************)
EXTENDS MaxFlow, Groundwork

-----------------------------------------------------------------------------
(***************************************************************************)
(* Sums over edges.  Tallies(f, n, E, a): f[k] is the sum over the edges   *)
(* 1..k.                                                                   *)
(***************************************************************************)
Term(E, a, k) == IF k \in E THEN a[k] ELSE 0

Tallies(f, n, E, a) == /\ f[0] = 0
                       /\ \A k \in 1..n : f[k] = f[k - 1] + Term(E, a, k)
                       /\ \A k \in 0..n : f[k] \in Int

(***************************************************************************)
(* SumOf tallies.                                                          *)
(***************************************************************************)
LEMMA SumTallies ==
  ASSUME NEW n \in Nat, NEW E, NEW a, \A k \in 1..n : a[k] \in Int
  PROVE  \E f : Tallies(f, n, E, a) /\ SumOf(n, E, a) = f[n]
  <1> DEFINE step == [k \in 1..n |-> [x \in Int |-> x + Term(E, a, k)]]
             In == [k \in 0..n |-> Int]
             Eq(f) == f = [k \in 0..n |-> IF k = 0 THEN 0
                                          ELSE f[k - 1] + (IF k \in E THEN a[k] ELSE 0)]
             f == CHOOSE g : Eq(g)
  <1>0. \A k \in 1..n : Term(E, a, k) \in Int
    BY DEF Term
  <1>1. \E g : Iterates(g, n, In, 0, step)
    <2>1. \A k \in 1..n : \A x \in In[k - 1] : step[k][x] \in In[k]
      BY <1>0
    <2>2. 0 \in In[0]
      OBVIOUS
    <2> HIDE DEF In, step
    <2> QED
      BY <2>1, <2>2, IterationExists
  <1>2. PICK g : Iterates(g, n, In, 0, step)
    BY <1>1
  <1>3. Eq(g)
    <2>1. /\ g = [k \in 0..n |-> g[k]] /\ g[0] = 0
          /\ \A k \in 1..n : g[k] = step[k][g[k - 1]]
          /\ \A k \in 0..n : g[k] \in In[k]
      BY <1>2 DEF Iterates
    <2>2. ASSUME NEW k \in 0..n
          PROVE  g[k] = IF k = 0 THEN 0 ELSE g[k - 1] + (IF k \in E THEN a[k] ELSE 0)
      <3>1. CASE k = 0
        BY <2>1, <3>1
      <3>2. CASE k # 0
        <4>1. k \in 1..n /\ k - 1 \in 0..n
          BY <3>2
        <4>2. g[k - 1] \in Int
          BY <2>1, <4>1
        <4> QED
          BY <2>1, <3>2, <4>1, <4>2 DEF Term
      <3> QED
        BY <3>1, <3>2
    <2> QED
      BY <2>1, <2>2, Zenon
  <1>4. Eq(f)
    BY <1>3
  <1>5. SumOf(n, E, a) = f[n]
    BY Zenon DEF SumOf
  <1> HIDE DEF f
  <1>6. f[0] = 0 /\ \A k \in 1..n : f[k] = f[k - 1] + Term(E, a, k)
    <2>1. \A k \in 0..n : f[k] = IF k = 0 THEN 0
                                 ELSE f[k - 1] + (IF k \in E THEN a[k] ELSE 0)
      BY <1>4, Zenon
    <2>2. ASSUME NEW k \in 1..n PROVE f[k] = f[k - 1] + Term(E, a, k)
      BY <2>1 DEF Term
    <2> QED
      BY <2>1, <2>2
  <1>7. \A k \in 0..n : f[k] \in Int
    <2> DEFINE S == {k \in 0..n : f[k] \in Int}
    <2>1. 0 \in S
      BY <1>6
    <2>2. \A k \in 1..n : k - 1 \in S => k \in S
      BY <1>0, <1>6
    <2>3. \A k \in 0..n : k \in S
      <3> HIDE DEF S
      <3> QED
        BY <2>1, <2>2, RoundInduction
    <2> QED
      BY <2>3
  <1> QED
    BY <1>5, <1>6, <1>7 DEF Tallies

(***************************************************************************)
(* If the terms add up, so do the sums.                                    *)
(***************************************************************************)
LEMMA SumPlus ==
  ASSUME NEW n \in Nat, NEW E, NEW a, \A k \in 1..n : a[k] \in Int,
         NEW F, NEW b, \A k \in 1..n : b[k] \in Int,
         NEW G, NEW c, \A k \in 1..n : c[k] \in Int,
         \A k \in 1..n : Term(G, c, k) = Term(E, a, k) + Term(F, b, k)
  PROVE  SumOf(n, G, c) = SumOf(n, E, a) + SumOf(n, F, b)
  <1>1. PICK f : Tallies(f, n, E, a) /\ SumOf(n, E, a) = f[n]
    BY SumTallies
  <1>2. PICK g : Tallies(g, n, F, b) /\ SumOf(n, F, b) = g[n]
    BY SumTallies
  <1>3. PICK h : Tallies(h, n, G, c) /\ SumOf(n, G, c) = h[n]
    BY SumTallies
  <1> DEFINE S == {k \in 0..n : h[k] = f[k] + g[k]}
  <1>4. 0 \in S
    BY <1>1, <1>2, <1>3 DEF Tallies
  <1>5. ASSUME NEW k \in 1..n, k - 1 \in S PROVE k \in S
    <2>1. k - 1 \in 0..n /\ k \in 0..n
      OBVIOUS
    <2>2. /\ f[k] = f[k - 1] + Term(E, a, k) /\ g[k] = g[k - 1] + Term(F, b, k)
          /\ h[k] = h[k - 1] + Term(G, c, k)
          /\ f[k - 1] \in Int /\ g[k - 1] \in Int /\ h[k - 1] = f[k - 1] + g[k - 1]
      BY <1>1, <1>2, <1>3, <1>5, <2>1 DEF Tallies
    <2>3. Term(E, a, k) \in Int /\ Term(F, b, k) \in Int
      BY DEF Term
    <2>4. Term(G, c, k) = Term(E, a, k) + Term(F, b, k)
      OBVIOUS
    <2> QED
      BY <2>1, <2>2, <2>3, <2>4
  <1>6. \A k \in 0..n : k \in S
    <2> HIDE DEF S
    <2> QED
      BY <1>4, <1>5, RoundInduction
  <1>7. n \in S
    BY <1>6
  <1> QED
    BY <1>1, <1>2, <1>3, <1>7

(***************************************************************************)
(* A sum of integers is an integer.                                        *)
(***************************************************************************)
LEMMA SumInt ==
  ASSUME NEW n \in Nat, NEW E, NEW a, \A k \in 1..n : a[k] \in Int
  PROVE  SumOf(n, E, a) \in Int
  <1>1. PICK f : Tallies(f, n, E, a) /\ SumOf(n, E, a) = f[n]
    BY SumTallies
  <1> QED
    BY <1>1 DEF Tallies

(***************************************************************************)
(* A sum of nothing, or of zeros, is zero.                                 *)
(***************************************************************************)
LEMMA SumZero ==
  ASSUME NEW n \in Nat, NEW E, NEW a, \A k \in 1..n : a[k] \in Int,
         \A k \in 1..n : Term(E, a, k) = 0
  PROVE  SumOf(n, E, a) = 0
  <1>1. SumOf(n, E, a) = SumOf(n, E, a) + SumOf(n, E, a)
    <2>1. \A k \in 1..n : Term(E, a, k) = Term(E, a, k) + Term(E, a, k)
      OBVIOUS
    <2> QED
      BY <2>1, SumPlus
  <1>2. SumOf(n, E, a) \in Int
    BY SumInt
  <1> DEFINE s == SumOf(n, E, a)
  <1>3. s = s + s /\ s \in Int
    BY <1>1, <1>2
  <1> HIDE DEF s
  <1>4. s = 0
    BY <1>3
  <1> QED
    BY <1>4 DEF s

(***************************************************************************)
(* Equal terms have equal sums.                                            *)
(***************************************************************************)
LEMMA SumSame ==
  ASSUME NEW n \in Nat, NEW E, NEW a, \A k \in 1..n : a[k] \in Int,
         NEW F, NEW b, \A k \in 1..n : b[k] \in Int,
         \A k \in 1..n : Term(E, a, k) = Term(F, b, k)
  PROVE  SumOf(n, E, a) = SumOf(n, F, b)
  <1>1. SumOf(n, {}, a) = 0
    <2>1. \A k \in 1..n : Term({}, a, k) = 0
      BY DEF Term
    <2> QED
      BY <2>1, SumZero
  <1>2. SumOf(n, E, a) = SumOf(n, F, b) + SumOf(n, {}, a)
    <2>1. \A k \in 1..n : Term(E, a, k) = Term(F, b, k) + Term({}, a, k)
      <3>1. \A k \in 1..n : Term(F, b, k) \in Int /\ Term({}, a, k) = 0
        BY DEF Term
      <3> QED
        BY <3>1
    <2> QED
      BY <2>1, SumPlus
  <1>3. SumOf(n, F, b) \in Int
    BY SumInt
  <1> QED
    BY <1>1, <1>2, <1>3

(***************************************************************************)
(* A sum of terms none of which is negative is not negative.               *)
(***************************************************************************)
LEMMA SumNatural ==
  ASSUME NEW n \in Nat, NEW E, NEW a, \A k \in 1..n : a[k] \in Int,
         \A k \in 1..n : Term(E, a, k) >= 0
  PROVE  SumOf(n, E, a) >= 0
  <1>1. PICK f : Tallies(f, n, E, a) /\ SumOf(n, E, a) = f[n]
    BY SumTallies
  <1> DEFINE S == {k \in 0..n : f[k] >= 0}
  <1>2. 0 \in S
    BY <1>1 DEF Tallies
  <1>3. ASSUME NEW k \in 1..n, k - 1 \in S PROVE k \in S
    <2>1. k - 1 \in 0..n /\ k \in 0..n
      OBVIOUS
    <2>2. f[k] = f[k - 1] + Term(E, a, k) /\ f[k - 1] \in Int /\ f[k - 1] >= 0
      BY <1>1, <1>3, <2>1 DEF Tallies
    <2>3. Term(E, a, k) \in Int /\ Term(E, a, k) >= 0
      BY DEF Term
    <2> QED
      BY <2>1, <2>2, <2>3
  <1>4. \A k \in 0..n : k \in S
    <2> HIDE DEF S
    <2> QED
      BY <1>2, <1>3, RoundInduction
  <1> QED
    BY <1>1, <1>4

(***************************************************************************)
(* The sum over at most one edge.                                          *)
(***************************************************************************)
LEMMA SumOne ==
  ASSUME NEW n \in Nat, NEW x \in 1..n, NEW d \in Int
  PROVE  SumOf(n, {x}, [k \in 1..n |-> d]) = d
  <1> DEFINE a == [k \in 1..n |-> d]
  <1>0. \A k \in 1..n : a[k] = d
    OBVIOUS
  <1> HIDE DEF a
  <1>1. PICK f : Tallies(f, n, {x}, a) /\ SumOf(n, {x}, a) = f[n]
    BY <1>0, SumTallies
  <1> DEFINE S == {k \in 0..n : f[k] = IF k < x THEN 0 ELSE d}
  <1>2. 0 \in S
    BY <1>1 DEF Tallies
  <1>3. ASSUME NEW k \in 1..n, k - 1 \in S PROVE k \in S
    <2>1. k - 1 \in 0..n /\ k \in 0..n
      OBVIOUS
    <2>2. f[k] = f[k - 1] + Term({x}, a, k) /\ f[k - 1] = IF k - 1 < x THEN 0 ELSE d
      BY <1>1, <1>3, <2>1 DEF Tallies
    <2>3. Term({x}, a, k) = IF k = x THEN d ELSE 0
      BY <1>0 DEF Term
    <2>4. CASE k < x
      BY <2>1, <2>2, <2>3, <2>4
    <2>5. CASE k = x
      BY <2>1, <2>2, <2>3, <2>5
    <2>6. CASE k > x
      BY <2>1, <2>2, <2>3, <2>6
    <2> QED
      BY <2>4, <2>5, <2>6
  <1>4. \A k \in 0..n : k \in S
    <2> HIDE DEF S
    <2> QED
      BY <1>2, <1>3, RoundInduction
  <1>5. SumOf(n, {x}, a) = d
    BY <1>1, <1>4
  <1> QED
    BY <1>5 DEF a

-----------------------------------------------------------------------------
(***************************************************************************)
(* The search.  Runs(step): the step can be taken with the residuals and   *)
(* the cancellable flow there are.                                         *)
(***************************************************************************)
Steps == [from : Node, to : Node, edge : Nat]

Runs(step) ==
  /\ step \in Steps
  /\ step.edge # 0 => /\ step.edge \in EdgeIndices
                      /\ step = Forward(step.edge)
                      /\ residual[step.edge] > 0
  /\ step.edge = 0 => /\ step.from # step.to
                      /\ reverse[<<step.from, step.to>>] > 0
                      /\ \E e \in EdgeIndices : /\ network[e].tail = step.to
                                                /\ network[e].head = step.from

Searches == [queue : Seq(Node), visited : UNION {[D -> Steps] : D \in SUBSET (Node \ {Source})}]

FoundBy(s) == {Source} \cup DOMAIN s.visited

Queued(q, n) == \E k \in DOMAIN q : q[k] = n

(***************************************************************************)
(* The steps lead back towards Source: rank falls along them.              *)
(***************************************************************************)
Ranks(s, rank, m) ==
  /\ m \in Nat
  /\ \A n \in FoundBy(s) : rank[n] \in 0..m
  /\ \A n \in DOMAIN s.visited : rank[s.visited[n].from] < rank[n]

Sound(s) ==
  /\ s \in Searches
  /\ \A n \in DOMAIN s.visited : /\ Runs(s.visited[n])
                                 /\ s.visited[n].to = n
                                 /\ s.visited[n].from \in FoundBy(s)
  /\ \A k \in DOMAIN s.queue : s.queue[k] \in FoundBy(s)
  /\ \E rank, m : Ranks(s, rank, m)

(***************************************************************************)
(* The search went on from s to t.                                         *)
(***************************************************************************)
Further(s, t) ==
  /\ FoundBy(s) \subseteq FoundBy(t)
  /\ \A n : Queued(s.queue, n) => Queued(t.queue, n)
  /\ \A n \in FoundBy(t) : n \in FoundBy(s) \/ Queued(t.queue, n)

(***************************************************************************)
(* A search goes on, and on.                                               *)
(***************************************************************************)
LEMMA FurtherRefl == ASSUME NEW s PROVE Further(s, s)
  BY DEF Further

(***************************************************************************)
(* And goes on from where it went.                                         *)
(***************************************************************************)
LEMMA FurtherTrans ==
  ASSUME NEW s, NEW t, NEW u, Further(s, t), Further(t, u)
  PROVE  Further(s, u)
  BY DEF Further

(***************************************************************************)
(* A search is a record of a queue and the steps taken.                    *)
(***************************************************************************)
LEMMA SearchParts ==
  ASSUME NEW s
  PROVE  s \in Searches <=>
           /\ s = [queue |-> s.queue, visited |-> s.visited]
           /\ s.queue \in Seq(Node)
           /\ DOMAIN s.visited \subseteq Node \ {Source}
           /\ s.visited = [n \in DOMAIN s.visited |-> s.visited[n]]
           /\ \A n \in DOMAIN s.visited : s.visited[n] \in Steps
  <1> DEFINE P == /\ s = [queue |-> s.queue, visited |-> s.visited]
                  /\ s.queue \in Seq(Node)
                  /\ DOMAIN s.visited \subseteq Node \ {Source}
                  /\ s.visited = [n \in DOMAIN s.visited |-> s.visited[n]]
                  /\ \A n \in DOMAIN s.visited : s.visited[n] \in Steps
  <1>1. ASSUME s \in Searches PROVE P
    <2>1. /\ s = [queue |-> s.queue, visited |-> s.visited]
          /\ s.queue \in Seq(Node)
          /\ s.visited \in UNION {[D -> Steps] : D \in SUBSET (Node \ {Source})}
      BY <1>1 DEF Searches
    <2>2. PICK D \in SUBSET (Node \ {Source}) : s.visited \in [D -> Steps]
      BY <2>1
    <2> QED
      BY <2>1, <2>2
  <1>2. ASSUME P PROVE s \in Searches
    <2>1. s.visited \in [DOMAIN s.visited -> Steps]
      BY <1>2
    <2>2. s.visited \in UNION {[D -> Steps] : D \in SUBSET (Node \ {Source})}
      BY <1>2, <2>1
    <2> QED
      BY <1>2, <2>2, Zenon DEF Searches
  <1> QED
    BY <1>1, <1>2

(***************************************************************************)
(* What Find does to a search.                                             *)
(***************************************************************************)
LEMMA FindParts ==
  ASSUME NEW s \in Searches, NEW step \in Steps
  PROVE  LET t == Find(s, step) IN
         /\ t \in Searches
         /\ step.to \in FoundBy(s) => t = s
         /\ step.to \notin FoundBy(s) =>
              /\ t.queue = Append(s.queue, step.to)
              /\ DOMAIN t.visited = DOMAIN s.visited \cup {step.to}
              /\ t.visited[step.to] = step
              /\ \A n \in DOMAIN s.visited : n # step.to /\ t.visited[n] = s.visited[n]
  <1> DEFINE t == Find(s, step)
  <1>0. /\ s.queue \in Seq(Node)
        /\ DOMAIN s.visited \subseteq Node \ {Source}
        /\ s.visited = [n \in DOMAIN s.visited |-> s.visited[n]]
        /\ \A n \in DOMAIN s.visited : s.visited[n] \in Steps
    BY SearchParts
  <1>1. CASE step.to \in FoundBy(s)
    BY <1>1, Zenon DEF Find, FoundBy
  <1>2. CASE step.to \notin FoundBy(s)
    <2> DEFINE v == [n \in DOMAIN s.visited \cup {step.to} |->
                       IF n = step.to THEN step ELSE s.visited[n]]
    <2>1. t = [queue |-> Append(s.queue, step.to), visited |-> v]
      BY <1>2, Zenon DEF Find, FoundBy
    <2>2. step.to \in Node \ {Source} /\ step.to \notin DOMAIN s.visited
      BY <1>2 DEF Steps, FoundBy
    <2>3. /\ DOMAIN v = DOMAIN s.visited \cup {step.to} /\ v[step.to] = step
          /\ \A n \in DOMAIN s.visited : n # step.to /\ v[n] = s.visited[n]
          /\ v = [n \in DOMAIN v |-> v[n]]
      BY <2>2
    <2>4. Append(s.queue, step.to) \in Seq(Node)
      BY <1>0, <2>2
    <2> HIDE DEF v, t
    <2>5. t.queue = Append(s.queue, step.to) /\ t.visited = v
      BY <2>1
    <2>6. t = [queue |-> t.queue, visited |-> t.visited]
      BY <2>1, <2>5
    <2>7. /\ DOMAIN t.visited \subseteq Node \ {Source}
          /\ \A n \in DOMAIN t.visited : t.visited[n] \in Steps
          /\ t.visited = [n \in DOMAIN t.visited |-> t.visited[n]]
      BY <1>0, <2>2, <2>3, <2>5
    <2>8. t \in Searches
      BY <2>4, <2>5, <2>6, <2>7, SearchParts
    <2> QED
      BY <1>2, <2>3, <2>5, <2>8 DEF t
  <1> QED
    BY <1>1, <1>2

(***************************************************************************)
(* Appending to a queue.                                                   *)
(***************************************************************************)
LEMMA QueuedLast ==
  ASSUME NEW q \in Seq(Node), NEW x \in Node
  PROVE  \A n : Queued(Append(q, x), n) <=> (Queued(q, n) \/ n = x)
  <1> DEFINE r == Append(q, x)
  <1>1. Len(q) \in Nat /\ DOMAIN q = 1..Len(q) /\ DOMAIN r = 1..(Len(q) + 1)
    OBVIOUS
  <1>2. r[Len(q) + 1] = x /\ \A k \in 1..Len(q) : r[k] = q[k]
    OBVIOUS
  <1> HIDE DEF r
  <1>3. \A k \in DOMAIN r : k = Len(q) + 1 \/ k \in DOMAIN q
    BY <1>1
  <1>4. Len(q) + 1 \in DOMAIN r /\ DOMAIN q \subseteq DOMAIN r
    BY <1>1
  <1>5. \A n : Queued(r, n) <=> (Queued(q, n) \/ n = x)
    BY <1>1, <1>2, <1>3, <1>4 DEF Queued
  <1> QED
    BY <1>5 DEF r

(***************************************************************************)
(* A search stays sound when it finds what a step from a found node leads  *)
(* to.                                                                     *)
(***************************************************************************)
LEMMA FindSound ==
  ASSUME NEW s, Sound(s), NEW step, Runs(step), step.from \in FoundBy(s)
  PROVE  /\ Sound(Find(s, step))
         /\ Further(s, Find(s, step))
         /\ step.to \in FoundBy(Find(s, step))
  <1> DEFINE t == Find(s, step)
  <1>0. s \in Searches /\ step \in Steps /\ step.to \in Node
    BY DEF Sound, Runs, Steps
  <1>1. CASE step.to \in FoundBy(s)
    <2>1. t = s
      BY <1>0, <1>1, FindParts
    <2> QED
      BY <1>1, <2>1, FurtherRefl
  <1>2. CASE step.to \notin FoundBy(s)
    <2>1. /\ t \in Searches
          /\ t.queue = Append(s.queue, step.to)
          /\ DOMAIN t.visited = DOMAIN s.visited \cup {step.to}
          /\ t.visited[step.to] = step
          /\ \A n \in DOMAIN s.visited : n # step.to /\ t.visited[n] = s.visited[n]
      BY <1>0, <1>2, FindParts
    <2> HIDE DEF t
    <2>2. \A n : n \in FoundBy(t) <=> (n \in FoundBy(s) \/ n = step.to)
      BY <2>1 DEF FoundBy
    <2>3. \A n : Queued(t.queue, n) <=> (Queued(s.queue, n) \/ n = step.to)
      <3>1. s.queue \in Seq(Node)
        BY <1>0, SearchParts
      <3> QED
        BY <1>0, <2>1, <3>1, QueuedLast
    <2>4. Further(s, t)
      BY <2>2, <2>3 DEF Further
    <2>5. ASSUME NEW n \in DOMAIN t.visited
          PROVE  Runs(t.visited[n]) /\ t.visited[n].to = n /\ t.visited[n].from \in FoundBy(t)
      <3>1. CASE n = step.to
        BY <2>1, <2>2, <3>1
      <3>2. CASE n \in DOMAIN s.visited
        BY <2>1, <2>2, <3>2 DEF Sound
      <3> QED
        BY <2>1, <3>1, <3>2
    <2>6. \A k \in DOMAIN t.queue : t.queue[k] \in FoundBy(t)
      <3>1. \A n : Queued(s.queue, n) => n \in FoundBy(s)
        BY DEF Queued, Sound
      <3>2. \A n : Queued(t.queue, n) => n \in FoundBy(t)
        BY <2>2, <2>3, <3>1
      <3> QED
        BY <3>2 DEF Queued
    <2>7. \E rank, m : Ranks(t, rank, m)
      <3>1. PICK rank, m : Ranks(s, rank, m)
        BY DEF Sound
      <3> DEFINE r == [n \in FoundBy(t) |-> IF n = step.to THEN m + 1 ELSE rank[n]]
      <3>2. /\ m \in Nat /\ \A n \in FoundBy(s) : rank[n] \in 0..m
            /\ \A n \in DOMAIN s.visited : rank[s.visited[n].from] < rank[n]
        BY <3>1 DEF Ranks
      <3>3. /\ \A n \in FoundBy(s) : n # step.to /\ n \in FoundBy(t)
            /\ step.to \in FoundBy(t)
        BY <1>2, <2>2
      <3>4. r[step.to] = m + 1 /\ \A n \in FoundBy(s) : r[n] = rank[n]
        BY <3>3
      <3> HIDE DEF r
      <3>5. \A n \in FoundBy(t) : r[n] \in 0..(m + 1)
        <4>1. \A n \in FoundBy(s) : r[n] \in 0..(m + 1)
          BY <3>2, <3>4
        <4>2. r[step.to] \in 0..(m + 1)
          BY <3>2, <3>4
        <4> QED
          BY <2>2, <4>1, <4>2
      <3>6. ASSUME NEW n \in DOMAIN t.visited PROVE r[t.visited[n].from] < r[n]
        <4>1. CASE n = step.to
          <5>1. t.visited[n].from \in FoundBy(s)
            BY <2>1, <4>1
          <5>2. r[t.visited[n].from] \in 0..m
            BY <3>2, <3>4, <5>1
          <5> QED
            BY <3>2, <3>4, <4>1, <5>2
        <4>2. CASE n \in DOMAIN s.visited
          <5>1. /\ t.visited[n] = s.visited[n] /\ n \in FoundBy(s)
                /\ s.visited[n].from \in FoundBy(s)
            BY <2>1, <4>2 DEF Sound, FoundBy
          <5> QED
            BY <3>2, <3>4, <4>2, <5>1
        <4> QED
          BY <2>1, <4>1, <4>2
      <3>7. Ranks(t, r, m + 1)
        BY <3>2, <3>5, <3>6 DEF Ranks
      <3> QED
        BY <3>7
    <2>8. Sound(t)
      BY <2>1, <2>5, <2>6, <2>7 DEF Sound
    <2> QED
      BY <2>2, <2>4, <2>8 DEF t
  <1> QED
    BY <1>1, <1>2

(***************************************************************************)
(* The graph, with its residuals and its cancellable flow.                 *)
(***************************************************************************)
GraphTyped ==
  /\ Len(network) \in Nat
  /\ EdgeIndices = 1..Len(network)
  /\ \A e \in EdgeIndices : /\ network[e].tail \in Node
                            /\ network[e].head \in Node
                            /\ network[e].capacity \in Nat
  /\ residual \in [EdgeIndices -> Nat]
  /\ reverse \in [Node \X Node -> Nat]

(***************************************************************************)
(* The steps that can be taken from n lead to found nodes.                 *)
(***************************************************************************)
AlongTo(e, n, F) == network[e].tail = n /\ residual[e] > 0 => network[e].head \in F

AgainstTo(e, n, F) ==
  network[e].head = n /\ network[e].tail # n /\ reverse[<<n, network[e].tail>>] > 0
    => network[e].tail \in F

Exhaustive(n, F) == \A e \in EdgeIndices : AlongTo(e, n, F) /\ AgainstTo(e, n, F)

(***************************************************************************)
(* One turn of each of the two loops of Expand.                            *)
(***************************************************************************)
AlongTurn(s, e, n) == IF network[e].tail = n THEN FindForward(s, e) ELSE s
AgainstTurn(s, e, n) == IF network[e].head = n THEN FindBackward(s, e) ELSE s

(***************************************************************************)
(* A turn along an edge.                                                   *)
(***************************************************************************)
LEMMA AlongFinds ==
  ASSUME GraphTyped, NEW s \in Searches, NEW e \in EdgeIndices, NEW n
  PROVE  LET t == AlongTurn(s, e, n) IN
         /\ t \in Searches
         /\ Sound(s) /\ n \in FoundBy(s) =>
              Sound(t) /\ Further(s, t) /\ AlongTo(e, n, FoundBy(t))
  <1> DEFINE t == AlongTurn(s, e, n)
             step == Forward(e)
  <1>1. CASE network[e].tail = n /\ residual[e] > 0
    <2>1. t = Find(s, step)
      BY <1>1 DEF AlongTurn, FindForward
    <2>2. /\ step \in Steps
          /\ step.from = n /\ step.to = network[e].head /\ step.edge = e /\ e # 0
      BY <1>1 DEF GraphTyped, Forward, Steps
    <2> HIDE DEF t
    <2>3. Runs(step)
      BY <1>1, <2>2 DEF Runs
    <2> HIDE DEF step
    <2>4. t \in Searches
      BY <2>1, <2>2, FindParts
    <2>5. ASSUME Sound(s), n \in FoundBy(s)
          PROVE  Sound(t) /\ Further(s, t) /\ step.to \in FoundBy(t)
      BY <2>1, <2>2, <2>3, <2>5, FindSound
    <2> QED
      BY <2>2, <2>4, <2>5 DEF AlongTo, t
  <1>2. CASE ~(network[e].tail = n /\ residual[e] > 0)
    <2>1. t = s
      BY <1>2 DEF AlongTurn, FindForward
    <2> QED
      BY <1>2, <2>1, FurtherRefl DEF AlongTo
  <1> QED
    BY <1>1, <1>2

(***************************************************************************)
(* A turn against an edge.                                                 *)
(***************************************************************************)
LEMMA AgainstFinds ==
  ASSUME GraphTyped, NEW s \in Searches, NEW e \in EdgeIndices, NEW n
  PROVE  LET t == AgainstTurn(s, e, n) IN
         /\ t \in Searches
         /\ Sound(s) /\ n \in FoundBy(s) =>
              Sound(t) /\ Further(s, t) /\ AgainstTo(e, n, FoundBy(t))
  <1> DEFINE t == AgainstTurn(s, e, n)
             to == network[e].tail
             step == Backward(n, to)
             may == network[e].head = n /\ to # n /\ reverse[<<n, to>>] > 0
  <1>1. CASE may
    <2>1. t = Find(s, step)
      BY <1>1 DEF AgainstTurn, FindBackward
    <2>2. /\ step \in Steps
          /\ step.from = n /\ step.to = to /\ step.edge = 0
      BY <1>1 DEF GraphTyped, Backward, Steps
    <2> HIDE DEF t
    <2>3. Runs(step)
      BY <1>1, <2>2 DEF Runs
    <2> HIDE DEF step
    <2>4. t \in Searches
      BY <2>1, <2>2, FindParts
    <2>5. ASSUME Sound(s), n \in FoundBy(s)
          PROVE  Sound(t) /\ Further(s, t) /\ step.to \in FoundBy(t)
      BY <2>1, <2>2, <2>3, <2>5, FindSound
    <2> QED
      BY <2>2, <2>4, <2>5 DEF AgainstTo, t
  <1>2. CASE ~may
    <2>1. t = s
      BY <1>2 DEF AgainstTurn, FindBackward
    <2> QED
      BY <1>2, <2>1, FurtherRefl DEF AgainstTo
  <1> QED
    BY <1>1, <1>2

(***************************************************************************)
(* The first loop of Expand                                                *)
(***************************************************************************)
LoopAlong(s, n) ==
  LET Turn(x, e) == IF network[e].tail = n THEN FindForward(x, e) ELSE x
  IN FoldLeft(Turn, s, EdgeSeq)

(***************************************************************************)
(* It takes its turns one after the other.                                 *)
(***************************************************************************)
LEMMA LoopAlongUnfolds ==
  ASSUME GraphTyped, NEW s \in Searches, NEW n
  PROVE  \E f : /\ f[0] = s
                /\ \A k \in 1..Len(network) : f[k] = AlongTurn(f[k - 1], k, n)
                /\ LoopAlong(s, n) = f[Len(network)]
  <1> DEFINE N == Len(network)
             step == [k \in 1..N |-> [x \in Searches |-> AlongTurn(x, k, n)]]
             D == DOMAIN EdgeSeq
             Eq(it) == it = [p \in SUBSET D |->
                               IF p = {} THEN s
                               ELSE AlongTurn(it[p \ {Max(p)}], EdgeSeq[Max(p)], n)]
             it == CHOOSE i : Eq(i)
  <1>0. N \in Nat /\ EdgeIndices = 1..N /\ D = 1..N /\ \A k \in 1..N : EdgeSeq[k] = k
    BY DEF GraphTyped, EdgeSeq
  <1>1. \A k \in 1..N : \A x \in Searches : step[k][x] = AlongTurn(x, k, n) /\ step[k][x] \in Searches
    BY <1>0, AlongFinds
  <1>2. PICK i : Rounds(i, N, Searches, s, step)
    <2>1. \A k \in 1..N : \A x \in Searches : step[k][x] \in Searches
      BY <1>1
    <2>2. N \in Nat /\ s \in Searches
      BY <1>0
    <2> HIDE DEF step, N
    <2> QED
      BY <2>1, <2>2, FoldExists
  <1>3. Eq(i)
    <2>1. ASSUME NEW p \in SUBSET (1..N)
          PROVE  i[p] = IF p = {} THEN s ELSE AlongTurn(i[p \ {Max(p)}], EdgeSeq[Max(p)], n)
      <3>1. CASE p = {}
        BY <1>2, <3>1 DEF Rounds
      <3>2. CASE p # {}
        <4>1. Max(p) \in 1..N
          BY <1>0, <3>2, LastRound
        <4>2. i[p \ {Max(p)}] \in Searches
          BY <1>2 DEF Rounds
        <4> HIDE DEF step, N
        <4>3. step[Max(p)][i[p \ {Max(p)}]] = AlongTurn(i[p \ {Max(p)}], Max(p), n)
          BY <1>1, <4>1, <4>2
        <4> QED
          BY <1>0, <1>2, <3>2, <4>1, <4>3 DEF Rounds
      <3> QED
        BY <3>1, <3>2
    <2>2. i = [p \in SUBSET (1..N) |-> i[p]]
      BY <1>2 DEF Rounds
    <2> HIDE DEF N, D
    <2> QED
      BY <1>0, <2>1, <2>2
  <1>4. Eq(it)
    BY <1>3
  <1>5. LoopAlong(s, n) = it[D]
    BY Zenon DEF LoopAlong, FoldLeft, MapThenFoldSet, AlongTurn
  <1> DEFINE f == [k \in 0..N |-> it[1..k]]
  <1> HIDE DEF it
  <1>6. /\ it[{}] = s
        /\ \A k \in 1..N : it[1..k] = AlongTurn(it[1..(k - 1)], k, n)
    <2>1. \A p \in SUBSET D : it[p] = IF p = {} THEN s
                                      ELSE AlongTurn(it[p \ {Max(p)}], EdgeSeq[Max(p)], n)
      BY <1>4, Zenon
    <2> HIDE DEF N, D
    <2>2. ASSUME NEW k \in 1..N PROVE it[1..k] = AlongTurn(it[1..(k - 1)], k, n)
      <3>1. 1..k \in SUBSET D /\ 1..k # {} /\ Max(1..k) = k /\ (1..k) \ {k} = 1..(k - 1)
        BY <1>0, RoundsSoFar
      <3>2. EdgeSeq[k] = k
        BY <1>0
      <3> QED
        BY <2>1, <3>1, <3>2
    <2> QED
      BY <2>1, <2>2
  <1>7. 1..0 = {} /\ \A k \in 1..N : k \in 0..N /\ k - 1 \in 0..N
    BY <1>0
  <1>8. \A k \in 0..N : f[k] = it[1..k]
    OBVIOUS
  <1> HIDE DEF f, N, D
  <1>9. f[0] = s /\ f[N] = it[D]
    BY <1>0, <1>6, <1>7, <1>8
  <1>10. \A k \in 1..N : f[k] = AlongTurn(f[k - 1], k, n)
    BY <1>6, <1>7, <1>8
  <1> QED
    BY <1>5, <1>9, <1>10 DEF N

(***************************************************************************)
(* From a sound search that has found n, it goes on to all that the steps  *)
(* along the edges at n lead to.                                           *)
(***************************************************************************)
LEMMA LoopAlongFinds ==
  ASSUME GraphTyped, NEW s, Sound(s), NEW n, n \in FoundBy(s)
  PROVE  LET t == LoopAlong(s, n) IN
         /\ Sound(t) /\ Further(s, t)
         /\ \A e \in EdgeIndices : AlongTo(e, n, FoundBy(t))
  <1>0. s \in Searches /\ Len(network) \in Nat /\ EdgeIndices = 1..Len(network)
    BY DEF Sound, GraphTyped
  <1>1. PICK f : /\ f[0] = s
                 /\ \A k \in 1..Len(network) : f[k] = AlongTurn(f[k - 1], k, n)
                 /\ LoopAlong(s, n) = f[Len(network)]
    BY <1>0, LoopAlongUnfolds
  <1> DEFINE N == Len(network)
             P(k) == /\ Sound(f[k]) /\ Further(s, f[k])
                     /\ \A e \in 1..k : AlongTo(e, n, FoundBy(f[k]))
             S == {k \in 0..N : P(k)}
  <1>2. 0 \in S
    BY <1>0, <1>1, FurtherRefl
  <1>3. ASSUME NEW k \in 1..N, k - 1 \in S PROVE k \in S
    <2>1. P(k - 1) /\ k \in 0..N /\ k \in EdgeIndices
      BY <1>0, <1>3
    <2>2. f[k - 1] \in Searches /\ n \in FoundBy(f[k - 1]) /\ Sound(f[k - 1])
      BY <2>1 DEF Sound, Further
    <2>3. /\ Sound(f[k]) /\ Further(f[k - 1], f[k])
          /\ AlongTo(k, n, FoundBy(f[k]))
      BY <1>1, <2>1, <2>2, AlongFinds
    <2>4. Further(s, f[k])
      BY <2>1, <2>3, FurtherTrans
    <2>5. ASSUME NEW e \in 1..k PROVE AlongTo(e, n, FoundBy(f[k]))
      <3>1. CASE e = k
        BY <2>3, <3>1
      <3>2. CASE e # k
        <4>1. e \in 1..(k - 1)
          BY <1>0, <3>2
        <4>2. AlongTo(e, n, FoundBy(f[k - 1]))
          BY <2>1, <4>1
        <4> QED
          BY <2>3, <4>2 DEF AlongTo, Further
      <3> QED
        BY <3>1, <3>2
    <2> QED
      BY <2>1, <2>3, <2>4, <2>5
  <1>4. \A k \in 0..N : k \in S
    <2> HIDE DEF S
    <2> QED
      BY <1>0, <1>2, <1>3, RoundInduction
  <1>5. P(N)
    BY <1>0, <1>4
  <1> QED
    BY <1>0, <1>1, <1>5

(***************************************************************************)
(* The second loop of Expand                                               *)
(***************************************************************************)
LoopAgainst(s, n) ==
  LET Turn(x, e) == IF network[e].head = n THEN FindBackward(x, e) ELSE x
  IN FoldLeft(Turn, s, EdgeSeq)

(***************************************************************************)
(* It takes its turns one after the other.                                 *)
(***************************************************************************)
LEMMA LoopAgainstUnfolds ==
  ASSUME GraphTyped, NEW s \in Searches, NEW n
  PROVE  \E f : /\ f[0] = s
                /\ \A k \in 1..Len(network) : f[k] = AgainstTurn(f[k - 1], k, n)
                /\ LoopAgainst(s, n) = f[Len(network)]
  <1> DEFINE N == Len(network)
             step == [k \in 1..N |-> [x \in Searches |-> AgainstTurn(x, k, n)]]
             D == DOMAIN EdgeSeq
             Eq(it) == it = [p \in SUBSET D |->
                               IF p = {} THEN s
                               ELSE AgainstTurn(it[p \ {Max(p)}], EdgeSeq[Max(p)], n)]
             it == CHOOSE i : Eq(i)
  <1>0. N \in Nat /\ EdgeIndices = 1..N /\ D = 1..N /\ \A k \in 1..N : EdgeSeq[k] = k
    BY DEF GraphTyped, EdgeSeq
  <1>1. \A k \in 1..N : \A x \in Searches : step[k][x] = AgainstTurn(x, k, n) /\ step[k][x] \in Searches
    BY <1>0, AgainstFinds
  <1>2. PICK i : Rounds(i, N, Searches, s, step)
    <2>1. \A k \in 1..N : \A x \in Searches : step[k][x] \in Searches
      BY <1>1
    <2>2. N \in Nat /\ s \in Searches
      BY <1>0
    <2> HIDE DEF step, N
    <2> QED
      BY <2>1, <2>2, FoldExists
  <1>3. Eq(i)
    <2>1. ASSUME NEW p \in SUBSET (1..N)
          PROVE  i[p] = IF p = {} THEN s ELSE AgainstTurn(i[p \ {Max(p)}], EdgeSeq[Max(p)], n)
      <3>1. CASE p = {}
        BY <1>2, <3>1 DEF Rounds
      <3>2. CASE p # {}
        <4>1. Max(p) \in 1..N
          BY <1>0, <3>2, LastRound
        <4>2. i[p \ {Max(p)}] \in Searches
          BY <1>2 DEF Rounds
        <4> HIDE DEF step, N
        <4>3. step[Max(p)][i[p \ {Max(p)}]] = AgainstTurn(i[p \ {Max(p)}], Max(p), n)
          BY <1>1, <4>1, <4>2
        <4> QED
          BY <1>0, <1>2, <3>2, <4>1, <4>3 DEF Rounds
      <3> QED
        BY <3>1, <3>2
    <2>2. i = [p \in SUBSET (1..N) |-> i[p]]
      BY <1>2 DEF Rounds
    <2> HIDE DEF N, D
    <2> QED
      BY <1>0, <2>1, <2>2
  <1>4. Eq(it)
    BY <1>3
  <1>5. LoopAgainst(s, n) = it[D]
    BY Zenon DEF LoopAgainst, FoldLeft, MapThenFoldSet, AgainstTurn
  <1> DEFINE f == [k \in 0..N |-> it[1..k]]
  <1> HIDE DEF it
  <1>6. /\ it[{}] = s
        /\ \A k \in 1..N : it[1..k] = AgainstTurn(it[1..(k - 1)], k, n)
    <2>1. \A p \in SUBSET D : it[p] = IF p = {} THEN s
                                      ELSE AgainstTurn(it[p \ {Max(p)}], EdgeSeq[Max(p)], n)
      BY <1>4, Zenon
    <2> HIDE DEF N, D
    <2>2. ASSUME NEW k \in 1..N PROVE it[1..k] = AgainstTurn(it[1..(k - 1)], k, n)
      <3>1. 1..k \in SUBSET D /\ 1..k # {} /\ Max(1..k) = k /\ (1..k) \ {k} = 1..(k - 1)
        BY <1>0, RoundsSoFar
      <3>2. EdgeSeq[k] = k
        BY <1>0
      <3> QED
        BY <2>1, <3>1, <3>2
    <2> QED
      BY <2>1, <2>2
  <1>7. 1..0 = {} /\ \A k \in 1..N : k \in 0..N /\ k - 1 \in 0..N
    BY <1>0
  <1>8. \A k \in 0..N : f[k] = it[1..k]
    OBVIOUS
  <1> HIDE DEF f, N, D
  <1>9. f[0] = s /\ f[N] = it[D]
    BY <1>0, <1>6, <1>7, <1>8
  <1>10. \A k \in 1..N : f[k] = AgainstTurn(f[k - 1], k, n)
    BY <1>6, <1>7, <1>8
  <1> QED
    BY <1>5, <1>9, <1>10 DEF N

(***************************************************************************)
(* From a sound search that has found n, it goes on to all that the steps  *)
(* against the edges at n lead to.                                         *)
(***************************************************************************)
LEMMA LoopAgainstFinds ==
  ASSUME GraphTyped, NEW s, Sound(s), NEW n, n \in FoundBy(s)
  PROVE  LET t == LoopAgainst(s, n) IN
         /\ Sound(t) /\ Further(s, t)
         /\ \A e \in EdgeIndices : AgainstTo(e, n, FoundBy(t))
  <1>0. s \in Searches /\ Len(network) \in Nat /\ EdgeIndices = 1..Len(network)
    BY DEF Sound, GraphTyped
  <1>1. PICK f : /\ f[0] = s
                 /\ \A k \in 1..Len(network) : f[k] = AgainstTurn(f[k - 1], k, n)
                 /\ LoopAgainst(s, n) = f[Len(network)]
    BY <1>0, LoopAgainstUnfolds
  <1> DEFINE N == Len(network)
             P(k) == /\ Sound(f[k]) /\ Further(s, f[k])
                     /\ \A e \in 1..k : AgainstTo(e, n, FoundBy(f[k]))
             S == {k \in 0..N : P(k)}
  <1>2. 0 \in S
    BY <1>0, <1>1, FurtherRefl
  <1>3. ASSUME NEW k \in 1..N, k - 1 \in S PROVE k \in S
    <2>1. P(k - 1) /\ k \in 0..N /\ k \in EdgeIndices
      BY <1>0, <1>3
    <2>2. f[k - 1] \in Searches /\ n \in FoundBy(f[k - 1]) /\ Sound(f[k - 1])
      BY <2>1 DEF Sound, Further
    <2>3. /\ Sound(f[k]) /\ Further(f[k - 1], f[k])
          /\ AgainstTo(k, n, FoundBy(f[k]))
      BY <1>1, <2>1, <2>2, AgainstFinds
    <2>4. Further(s, f[k])
      BY <2>1, <2>3, FurtherTrans
    <2>5. ASSUME NEW e \in 1..k PROVE AgainstTo(e, n, FoundBy(f[k]))
      <3>1. CASE e = k
        BY <2>3, <3>1
      <3>2. CASE e # k
        <4>1. e \in 1..(k - 1)
          BY <1>0, <3>2
        <4>2. AgainstTo(e, n, FoundBy(f[k - 1]))
          BY <2>1, <4>1
        <4> QED
          BY <2>3, <4>2 DEF AgainstTo, Further
      <3> QED
        BY <3>1, <3>2
    <2> QED
      BY <2>1, <2>3, <2>4, <2>5
  <1>4. \A k \in 0..N : k \in S
    <2> HIDE DEF S
    <2> QED
      BY <1>0, <1>2, <1>3, RoundInduction
  <1>5. P(N)
    BY <1>0, <1>4
  <1> QED
    BY <1>0, <1>1, <1>5

(***************************************************************************)
(* The expansion of a found node keeps the search sound and finds all that *)
(* a step from it leads to.                                                *)
(***************************************************************************)
LEMMA ExpandFinds ==
  ASSUME GraphTyped, NEW s, Sound(s), NEW n, n \in FoundBy(s)
  PROVE  LET t == Expand(s, n) IN
         Sound(t) /\ Further(s, t) /\ Exhaustive(n, FoundBy(t))
  <1> DEFINE u == LoopAlong(s, n)
             t == LoopAgainst(u, n)
  <1>1. Expand(s, n) = t
    BY Zenon DEF Expand, LoopAlong, LoopAgainst
  <1>2. /\ Sound(u) /\ Further(s, u)
        /\ \A e \in EdgeIndices : AlongTo(e, n, FoundBy(u))
    BY LoopAlongFinds
  <1> HIDE DEF u
  <1>3. n \in FoundBy(u)
    BY <1>2 DEF Further
  <1>4. /\ Sound(t) /\ Further(u, t)
        /\ \A e \in EdgeIndices : AgainstTo(e, n, FoundBy(t))
    BY <1>2, <1>3, LoopAgainstFinds
  <1> HIDE DEF t
  <1>5. \A e \in EdgeIndices : AlongTo(e, n, FoundBy(t))
    BY <1>2, <1>4 DEF AlongTo, Further
  <1> QED
    BY <1>1, <1>2, <1>4, <1>5, FurtherTrans DEF Exhaustive

-----------------------------------------------------------------------------
(***************************************************************************)
(* The path.  Way(p, n): p is a path from Source to n along which rank     *)
(* rises and whose steps are those by which nodes were found.              *)
(***************************************************************************)
Rise(p, rank) ==
  \A i, j \in 1..Len(p) : i < j => rank[p[i].to] < rank[p[j].to]

Way(p, n, rank) ==
  /\ p \in Seq(Steps)
  /\ \A i \in 1..Len(p) : p[i].to \in DOMAIN visited /\ p[i] = visited[p[i].to]
  /\ \A i \in 1..Len(p) - 1 : p[i].to = p[i + 1].from
  /\ IF n = Source THEN Len(p) = 0
                   ELSE /\ Len(p) > 0
                        /\ p[1].from = Source
                        /\ p[Len(p)].to = n
  /\ Rise(p, rank)

TheSearch == [queue |-> queue, visited |-> visited]
Found == {Source} \cup DOMAIN visited

(***************************************************************************)
(* A path goes on by the step that found the next node.                    *)
(***************************************************************************)
LEMMA WayOn ==
  ASSUME Sound(TheSearch), NEW rank, NEW m, Ranks(TheSearch, rank, m),
         NEW n \in DOMAIN visited, NEW p, Way(p, visited[n].from, rank)
  PROVE  Way(Append(p, visited[n]), n, rank)
  <1> DEFINE step == visited[n]
             q == Append(p, step)
             L == Len(p)
  <1>1. /\ step \in Steps /\ step.to = n /\ step.from \in Found
        /\ n # Source /\ rank[step.from] < rank[n]
        /\ \A x \in Found : rank[x] \in Int
    <2>1. TheSearch.visited = visited /\ FoundBy(TheSearch) = Found
      BY DEF TheSearch, FoundBy, Found
    <2>2. TheSearch \in Searches
      BY DEF Sound
    <2>3. DOMAIN visited \subseteq Node \ {Source} /\ step \in Steps
      BY <2>1, <2>2, SearchParts
    <2>4. step.to = n /\ step.from \in Found
      BY <2>1 DEF Sound
    <2>5. rank[step.from] < rank[n] /\ \A x \in Found : rank[x] \in Int
      BY <2>1 DEF Ranks
    <2> QED
      BY <2>3, <2>4, <2>5
  <1> HIDE DEF step
  <1>2. /\ p \in Seq(Steps) /\ L \in Nat /\ q \in Seq(Steps) /\ Len(q) = L + 1
        /\ \A i \in 1..L : q[i] = p[i]
        /\ q[L + 1] = step
    BY <1>1 DEF Way
  <1>3. /\ \A i \in 1..L : p[i].to \in DOMAIN visited /\ p[i] = visited[p[i].to]
        /\ \A i \in 1..L - 1 : p[i].to = p[i + 1].from
        /\ IF step.from = Source THEN L = 0
                                 ELSE L > 0 /\ p[1].from = Source /\ p[L].to = step.from
        /\ \A i, j \in 1..L : i < j => rank[p[i].to] < rank[p[j].to]
    BY DEF Way, Rise, step
  <1> HIDE DEF q, L
  <1>4. \A i \in 1..(L + 1) : i \in 1..L \/ i = L + 1
    BY <1>2
  <1>5. \A i \in 1..Len(q) : q[i].to \in DOMAIN visited /\ q[i] = visited[q[i].to]
    <2>1. q[L + 1].to \in DOMAIN visited /\ q[L + 1] = visited[q[L + 1].to]
      BY <1>1, <1>2 DEF step
    <2>2. \A i \in 1..L : q[i].to \in DOMAIN visited /\ q[i] = visited[q[i].to]
      BY <1>2, <1>3
    <2> QED
      BY <1>2, <1>4, <2>1, <2>2
  <1>6. ASSUME NEW i \in 1..Len(q) - 1 PROVE q[i].to = q[i + 1].from
    <2>1. i \in 1..L
      BY <1>2
    <2>2. CASE i = L
      <3>1. L # 0 /\ q[i + 1] = step /\ q[i] = p[L]
        BY <1>2, <2>1, <2>2
      <3> QED
        BY <1>3, <3>1
    <2>3. CASE i # L
      <3>1. i \in 1..L - 1 /\ i + 1 \in 1..L
        BY <1>2, <2>1, <2>3
      <3> QED
        BY <1>2, <1>3, <2>1, <3>1
    <2> QED
      BY <2>2, <2>3
  <1>7. Len(q) > 0 /\ q[1].from = Source /\ q[Len(q)].to = n
    <2>1. CASE L = 0
      BY <1>1, <1>2, <1>3, <2>1
    <2>2. CASE L # 0
      <3>1. 1 \in 1..L
        BY <1>2, <2>2
      <3> QED
        BY <1>1, <1>2, <1>3, <2>2, <3>1
    <2> QED
      BY <2>1, <2>2
  <1>8. ASSUME NEW i \in 1..Len(q), NEW j \in 1..Len(q), i < j
        PROVE  rank[q[i].to] < rank[q[j].to]
    <2>1. i \in 1..L
      BY <1>2, <1>8
    <2>2. CASE j \in 1..L
      BY <1>2, <1>3, <1>8, <2>1, <2>2
    <2>3. CASE j = L + 1
      <3>1. L > 0 /\ L \in 1..L /\ p[L].to = step.from
        BY <1>2, <1>3, <2>1
      <3>2. rank[p[L].to] < rank[q[j].to]
        BY <1>1, <1>2, <2>3, <3>1
      <3>3. CASE i = L
        BY <1>2, <2>1, <3>2, <3>3
      <3>4. CASE i # L
        <4>1. i < L
          BY <1>2, <2>1, <3>4
        <4>2. rank[p[i].to] < rank[p[L].to]
          BY <1>3, <2>1, <3>1, <4>1
        <4>3. p[i].to \in Found /\ p[L].to \in Found /\ q[j].to \in Found
          BY <1>1, <1>2, <1>3, <2>1, <2>3, <3>1 DEF Found
        <4>4. rank[p[i].to] < rank[q[j].to]
          BY <1>1, <3>2, <4>2, <4>3
        <4> QED
          BY <1>2, <2>1, <4>4
      <3> QED
        BY <3>3, <3>4
    <2> QED
      BY <1>2, <1>4, <2>2, <2>3
  <1>9. Way(q, n, rank)
    BY <1>1, <1>2, <1>5, <1>6, <1>7, <1>8 DEF Way, Rise
  <1> QED
    BY <1>9 DEF q, step

(***************************************************************************)
(* The empty path leads to Source.                                         *)
(***************************************************************************)
LEMMA WayStart == ASSUME NEW rank PROVE Way(<<>>, Source, rank)
  BY DEF Way, Rise

(***************************************************************************)
(* The function in Path takes a node to a path that leads there.           *)
(***************************************************************************)
LEMMA PathLeads ==
  ASSUME Sound(TheSearch), Sink \in DOMAIN visited
  PROVE  \E rank : (\E m : Ranks(TheSearch, rank, m)) /\ Way(Path, Sink, rank)
  <1>1. PICK rank, m : Ranks(TheSearch, rank, m)
    BY DEF Sound
  <1> DEFINE from(n) == visited[n].from
             G(f, n) == IF n = Source THEN <<>> ELSE Append(f[visited[n].from], visited[n])
             Eq(f) == f = [n \in {Source} \cup DOMAIN visited |->
                             IF n = Source THEN <<>>
                             ELSE Append(f[visited[n].from], visited[n])]
             to == CHOOSE f : Eq(f)
             S == {k \in 0..m : \E f : /\ f = [n \in Found |-> f[n]]
                                       /\ \A n \in Found : rank[n] <= k => f[n] = G(f, n)}
  <1>2. /\ m \in Nat /\ \A n \in Found : rank[n] \in 0..m
        /\ \A n \in DOMAIN visited : from(n) \in Found /\ rank[from(n)] < rank[n]
        /\ \A n \in Found : n # Source => n \in DOMAIN visited
        /\ Source \in Found
    <2>1. TheSearch.visited = visited /\ FoundBy(TheSearch) = Found
      BY DEF TheSearch, FoundBy, Found
    <2>2. \A n \in DOMAIN visited : from(n) \in Found
      BY <2>1 DEF Sound
    <2> QED
      BY <1>1, <2>1, <2>2 DEF Ranks, Found
  <1>3. ASSUME NEW f, f = [n \in Found |-> f[n]], NEW k,
               k \in {-1} \cup 0..m,
               \A n \in Found : rank[n] <= k => f[n] = G(f, n)
        PROVE  \E g : /\ g = [n \in Found |-> g[n]]
                      /\ \A n \in Found : rank[n] <= k + 1 => g[n] = G(g, n)
    <2> DEFINE g == [n \in Found |-> G(f, n)]
    <2>1. g = [n \in Found |-> g[n]] /\ \A n \in Found : g[n] = G(f, n)
      OBVIOUS
    <2> HIDE DEF g
    <2>2. ASSUME NEW n \in Found, rank[n] <= k + 1 PROVE g[n] = G(g, n)
      <3>1. CASE n = Source
        BY <2>1, <3>1
      <3>2. CASE n # Source
        <4>1. from(n) \in Found /\ rank[from(n)] <= k
          BY <1>2, <1>3, <2>2, <3>2
        <4>2. g[from(n)] = f[from(n)]
          <5> DEFINE y == from(n)
          <5>1. y \in Found /\ rank[y] <= k
            BY <4>1
          <5> HIDE DEF G, y
          <5>2. f[y] = G(f, y) /\ g[y] = G(f, y)
            BY <1>3, <2>1, <5>1
          <5>3. g[y] = f[y]
            BY <5>2
          <5> QED
            BY <5>3 DEF y
        <4> QED
          BY <2>1, <3>2, <4>2
      <3> QED
        BY <3>1, <3>2
    <2> QED
      BY <2>1, <2>2
  <1>4. 0 \in S
    <2> DEFINE f == [n \in Found |-> <<>>]
    <2>1. f = [n \in Found |-> f[n]]
      OBVIOUS
    <2>2. \A n \in Found : ~(rank[n] <= -1)
      BY <1>2
    <2> HIDE DEF f, G
    <2>3. \E g : /\ g = [n \in Found |-> g[n]]
                 /\ \A n \in Found : rank[n] <= -1 + 1 => g[n] = G(g, n)
      BY <1>3, <2>1, <2>2
    <2> QED
      BY <1>2, <2>3
  <1>5. ASSUME NEW k \in 1..m, k - 1 \in S PROVE k \in S
    <2> HIDE DEF G
    <2>1. PICK f : /\ f = [n \in Found |-> f[n]]
                   /\ \A n \in Found : rank[n] <= k - 1 => f[n] = G(f, n)
      BY <1>5
    <2>2. k - 1 \in 0..m /\ (k - 1) + 1 = k /\ k \in 0..m
      BY <1>2
    <2>3. \E g : /\ g = [n \in Found |-> g[n]]
                 /\ \A n \in Found : rank[n] <= (k - 1) + 1 => g[n] = G(g, n)
      BY <1>3, <2>1, <2>2
    <2> QED
      BY <2>2, <2>3
  <1>6. m \in S
    <2> HIDE DEF S
    <2>1. \A k \in 0..m : k \in S
      BY <1>2, <1>4, <1>5, RoundInduction
    <2> QED
      BY <1>2, <2>1
  <1>7. Eq(to)
    <2>1. PICK f : /\ f = [n \in Found |-> f[n]]
                   /\ \A n \in Found : rank[n] <= m => f[n] = G(f, n)
      BY <1>6
    <2>2. \A n \in Found : f[n] = G(f, n)
      <3>1. \A n \in Found : rank[n] <= m
        BY <1>2
      <3> HIDE DEF G
      <3> QED
        BY <2>1, <3>1
    <2>3. Eq(f)
      BY <2>1, <2>2, Zenon DEF Found
    <2> QED
      BY <2>3
  <1>8. \A n \in Found : to[n] = G(to, n)
    <2> HIDE DEF to
    <2> QED
      BY <1>7, Zenon DEF Found
  <1>9. Path = to[Sink]
    BY Zenon DEF Path
  <1> DEFINE T == {k \in 0..m : \A n \in Found : rank[n] <= k => Way(to[n], n, rank)}
  <1> HIDE DEF to
  <1>10. \A n \in Found : n = Source => Way(to[n], n, rank)
    BY <1>8, WayStart
  <1>11. ASSUME NEW n \in Found, n # Source, Way(to[from(n)], from(n), rank)
         PROVE  Way(to[n], n, rank)
    <2>1. n \in DOMAIN visited /\ to[n] = Append(to[from(n)], visited[n])
      BY <1>2, <1>8, <1>11
    <2> QED
      BY <1>1, <1>11, <2>1, WayOn
  <1>12. 0 \in T
    <2>1. ASSUME NEW n \in Found, rank[n] <= 0, n # Source PROVE FALSE
      BY <1>2, <2>1
    <2> QED
      BY <1>2, <1>10, <2>1
  <1>13. ASSUME NEW k \in 1..m, k - 1 \in T PROVE k \in T
    <2>1. ASSUME NEW n \in Found, rank[n] <= k, n # Source PROVE Way(to[n], n, rank)
      <3>1. from(n) \in Found /\ rank[from(n)] <= k - 1
        BY <1>2, <2>1
      <3>2. Way(to[from(n)], from(n), rank)
        BY <1>13, <3>1
      <3> QED
        BY <1>11, <2>1, <3>2
    <2>2. \A n \in Found : rank[n] <= k => Way(to[n], n, rank)
      BY <1>10, <2>1
    <2> QED
      BY <1>2, <2>2
  <1>14. m \in T
    <2> HIDE DEF T
    <2>1. \A k \in 0..m : k \in T
      BY <1>2, <1>12, <1>13, RoundInduction
    <2> QED
      BY <1>2, <2>1
  <1>15. Way(to[Sink], Sink, rank)
    BY <1>2, <1>14 DEF Found
  <1> QED
    BY <1>1, <1>9, <1>15

-----------------------------------------------------------------------------
(***************************************************************************)
(* The augmentation.  Its path meets no node twice.                        *)
(***************************************************************************)
Augmenting(p) ==
  /\ Len(p) \in Nat /\ Len(p) > 0 /\ DOMAIN p = 1..Len(p)
  /\ \A i \in 1..Len(p) : Runs(p[i]) /\ p[i].to # Source
  /\ \A i \in 1..Len(p) - 1 : p[i].to = p[i + 1].from
  /\ p[1].from = Source /\ p[Len(p)].to = Sink
  /\ \A i, j \in 1..Len(p) : p[i].to = p[j].to => i = j

LeavesAt(p, n, i) == i \in 1..Len(p) /\ p[i].from = n
EntersAt(p, n, i) == i \in 1..Len(p) /\ p[i].to = n

Leaves(p, n) == \E i : LeavesAt(p, n, i)
Enters(p, n) == \E i : EntersAt(p, n, i)

(***************************************************************************)
(* The path that Augment takes is such a path.                             *)
(***************************************************************************)
LEMMA PathAugments ==
  ASSUME Sound(TheSearch), Sink \in DOMAIN visited
  PROVE  Augmenting(Path)
  <1> DEFINE p == Path
  <1>1. PICK rank : (\E m : Ranks(TheSearch, rank, m)) /\ Way(p, Sink, rank)
    BY PathLeads
  <1> HIDE DEF p
  <1>2. /\ TheSearch.visited = visited /\ FoundBy(TheSearch) = Found
        /\ TheSearch \in Searches
    BY DEF TheSearch, FoundBy, Found, Sound
  <1>3. DOMAIN visited \subseteq Node \ {Source}
    BY <1>2, SearchParts
  <1>4. \A n \in DOMAIN visited : Runs(visited[n]) /\ rank[n] \in Int
    BY <1>1, <1>2 DEF Sound, Ranks, Found
  <1>5. Sink # Source
    BY NetworkAssumption
  <1>6. /\ Len(p) \in Nat /\ DOMAIN p = 1..Len(p)
        /\ Len(p) > 0 /\ p[1].from = Source /\ p[Len(p)].to = Sink
        /\ \A i \in 1..Len(p) : p[i].to \in DOMAIN visited /\ p[i] = visited[p[i].to]
        /\ \A i \in 1..Len(p) - 1 : p[i].to = p[i + 1].from
        /\ Rise(p, rank)
    BY <1>1, <1>5 DEF Way
  <1>7. \A i \in 1..Len(p) : Runs(p[i]) /\ p[i].to # Source
    BY <1>3, <1>4, <1>6
  <1>8. ASSUME NEW i \in 1..Len(p), NEW j \in 1..Len(p), p[i].to = p[j].to PROVE i = j
    <2>1. rank[p[i].to] \in Int /\ rank[p[j].to] = rank[p[i].to]
      BY <1>4, <1>6, <1>8
    <2>2. ~(i < j) /\ ~(j < i)
      BY <1>6, <2>1 DEF Rise
    <2> QED
      BY <1>6, <2>2
  <1>9. Augmenting(p)
    BY <1>6, <1>7, <1>8 DEF Augmenting
  <1> QED
    BY <1>9 DEF p

(***************************************************************************)
(* It enters and leaves every node once, but that it starts at Source and  *)
(* ends at Sink.                                                           *)
(***************************************************************************)
LEMMA PathSimple ==
  ASSUME NEW p, Augmenting(p)
  PROVE  /\ \A n, i, j : LeavesAt(p, n, i) /\ LeavesAt(p, n, j) => i = j
         /\ \A n, i, j : EntersAt(p, n, i) /\ EntersAt(p, n, j) => i = j
         /\ Leaves(p, Source) /\ ~Enters(p, Source)
         /\ Enters(p, Sink) /\ ~Leaves(p, Sink)
         /\ \A n : n # Source /\ n # Sink => (Leaves(p, n) <=> Enters(p, n))
         /\ \A m, n, i, j : ~(LeavesAt(p, m, i) /\ EntersAt(p, n, i)
                              /\ LeavesAt(p, n, j) /\ EntersAt(p, m, j))
  <1> DEFINE L == Len(p)
  <1>1. /\ L \in Nat /\ L > 0
        /\ \A i \in 1..L : p[i].to # Source
        /\ \A i \in 1..L - 1 : p[i].to = p[i + 1].from
        /\ p[1].from = Source /\ p[L].to = Sink
        /\ \A i, j \in 1..L : p[i].to = p[j].to => i = j
    BY DEF Augmenting
  <1>0. \A n, i : /\ LeavesAt(p, n, i) <=> (i \in 1..L /\ p[i].from = n)
                  /\ EntersAt(p, n, i) <=> (i \in 1..L /\ p[i].to = n)
    BY DEF LeavesAt, EntersAt
  <1> HIDE DEF L
  <1>2. \A i \in 1..L : i = 1 \/ (i - 1 \in 1..L /\ p[i].from = p[i - 1].to)
    <2>1. ASSUME NEW i \in 1..L, i # 1 PROVE i - 1 \in 1..L /\ p[i].from = p[i - 1].to
      <3>1. i - 1 \in 1..L /\ i - 1 \in 1..L - 1 /\ (i - 1) + 1 = i
        BY <1>1, <2>1
      <3> QED
        BY <1>1, <3>1
    <2> QED
      BY <2>1
  <1>3. ASSUME NEW i \in 1..L, NEW j \in 1..L, p[i].from = p[j].to PROVE i = j + 1
    <2>1. i # 1
      BY <1>1, <1>3
    <2>2. i - 1 \in 1..L /\ p[i - 1].to = p[j].to
      BY <1>2, <1>3, <2>1
    <2>3. i - 1 = j
      BY <1>1, <2>2
    <2> QED
      BY <1>1, <2>3
  <1>4. ASSUME NEW i \in 1..L, NEW j \in 1..L, p[i].from = p[j].from PROVE i = j
    <2>1. CASE i = 1 \/ j = 1
      BY <1>1, <1>2, <1>4, <2>1
    <2>2. CASE i # 1 /\ j # 1
      <3>1. i - 1 \in 1..L /\ p[j].from = p[i - 1].to
        BY <1>2, <1>4, <2>2
      <3>2. j = (i - 1) + 1
        BY <1>3, <3>1
      <3> QED
        BY <1>1, <3>2
    <2> QED
      BY <2>1, <2>2
  <1>5. ASSUME NEW i \in 1..L PROVE p[i].from # Sink
    <2>1. L \in 1..L
      BY <1>1
    <2>2. ASSUME p[i].from = p[L].to PROVE FALSE
      <3>1. i = L + 1
        BY <1>3, <2>1, <2>2
      <3> QED
        BY <1>1, <3>1
    <2> QED
      BY <1>1, <2>2
  <1>6. 1 \in 1..L /\ L \in 1..L
    BY <1>1
  <1>7. Leaves(p, Source) /\ ~Enters(p, Source) /\ Enters(p, Sink) /\ ~Leaves(p, Sink)
    BY <1>0, <1>1, <1>5, <1>6 DEF Leaves, Enters
  <1>8. ASSUME NEW n, n # Source, n # Sink PROVE Leaves(p, n) <=> Enters(p, n)
    <2>1. ASSUME NEW i, LeavesAt(p, n, i) PROVE EntersAt(p, n, i - 1)
      BY <1>0, <1>1, <1>2, <1>8, <2>1
    <2>2. ASSUME NEW i, EntersAt(p, n, i) PROVE LeavesAt(p, n, i + 1)
      <3>1. i \in 1..L /\ p[i].to = n
        BY <1>0, <2>2
      <3>2. i # L
        BY <1>1, <1>8, <3>1
      <3>3. i \in 1..L - 1 /\ i + 1 \in 1..L
        BY <1>1, <3>1, <3>2
      <3> QED
        BY <1>0, <1>1, <3>1, <3>3
    <2> QED
      BY <2>1, <2>2 DEF Leaves, Enters
  <1>9. ASSUME NEW m, NEW n, NEW i, NEW j, LeavesAt(p, m, i), EntersAt(p, n, i),
               LeavesAt(p, n, j), EntersAt(p, m, j)
        PROVE  FALSE
    <2>1. i \in 1..L /\ j \in 1..L /\ p[i].from = p[j].to /\ p[j].from = p[i].to
      BY <1>0, <1>9
    <2>2. i = j + 1 /\ j = i + 1
      BY <1>3, <2>1
    <2> QED
      BY <1>1, <2>1, <2>2
  <1> QED
    BY <1>0, <1>1, <1>4, <1>7, <1>8, <1>9

(***************************************************************************)
(* What flows along it is not zero, and no step lets less through.         *)
(***************************************************************************)
LEMMA BottleneckBounds ==
  ASSUME GraphTyped, NEW p, Augmenting(p)
  PROVE  /\ Bottleneck(p) \in Nat /\ Bottleneck(p) > 0
         /\ \A i \in 1..Len(p) : Bottleneck(p) <= StepCapacity(p[i])
  <1> DEFINE S == {StepCapacity(p[i]) : i \in DOMAIN p}
  <1>1. ASSUME NEW i \in 1..Len(p) PROVE StepCapacity(p[i]) \in Nat /\ StepCapacity(p[i]) > 0
    <2>1. Runs(p[i])
      BY DEF Augmenting
    <2>2. CASE p[i].edge = 0
      <3>1. p[i].from \in Node /\ p[i].to \in Node /\ reverse[<<p[i].from, p[i].to>>] > 0
        BY <2>1, <2>2 DEF Runs, Steps
      <3> QED
        BY <2>2, <3>1 DEF StepCapacity, GraphTyped
    <2>3. CASE p[i].edge # 0
      BY <2>1, <2>3 DEF StepCapacity, GraphTyped, Runs
    <2> QED
      BY <2>2, <2>3
  <1>2. DOMAIN p = 1..Len(p) /\ 1 \in 1..Len(p)
    BY DEF Augmenting
  <1>3. S \subseteq Nat /\ S # {} /\ \A i \in 1..Len(p) : StepCapacity(p[i]) \in S
    BY <1>1, <1>2
  <1>4. \A x \in S : x > 0
    BY <1>1, <1>2
  <1> HIDE DEF S
  <1>5. \E m \in S : \A k \in S : m <= k
    BY <1>3, LeastNatural
  <1>6. Min(S) \in S /\ \A k \in S : Min(S) <= k
    BY <1>5 DEF Min
  <1>7. Bottleneck(p) = Min(S)
    BY DEF Bottleneck, S
  <1> QED
    BY <1>3, <1>4, <1>6, <1>7

(***************************************************************************)
(* A step against the flow gives back to an edge that is there.            *)
(***************************************************************************)
LEMMA FirstEdgeBetween ==
  ASSUME GraphTyped, NEW tail, NEW head,
         \E e \in EdgeIndices : network[e].tail = tail /\ network[e].head = head
  PROVE  /\ FirstEdge(tail, head) \in EdgeIndices
         /\ network[FirstEdge(tail, head)].tail = tail
         /\ network[FirstEdge(tail, head)].head = head
  <1> DEFINE S == {e \in EdgeIndices : network[e].tail = tail /\ network[e].head = head}
  <1>1. S \subseteq Nat /\ S # {}
    BY DEF GraphTyped
  <1>2. \A e : e \in S => e \in EdgeIndices /\ network[e].tail = tail /\ network[e].head = head
    OBVIOUS
  <1>3. FirstEdge(tail, head) = Min(S)
    BY DEF FirstEdge
  <1> HIDE DEF S
  <1>4. \E m \in S : \A k \in S : m <= k
    BY <1>1, LeastNatural
  <1>5. Min(S) \in S
    BY <1>4 DEF Min
  <1> QED
    BY <1>2, <1>3, <1>5

(***************************************************************************)
(* The edges that the path runs along, and those it gives flow back to.    *)
(***************************************************************************)
Used(p) == {e \in EdgeIndices : \E i \in DOMAIN p : p[i].edge = e}
GivenBack(p) == {e \in EdgeIndices : \E i \in DOMAIN p : Gains(p[i], e)}

(***************************************************************************)
(* Where such an edge lies.                                                *)
(***************************************************************************)
LEMMA UsedEnds ==
  ASSUME GraphTyped, NEW p, Augmenting(p)
  PROVE  /\ \A e : e \in Used(p) <=> \E i \in 1..Len(p) : p[i].edge = e /\ p[i].edge # 0
         /\ \A i \in 1..Len(p) : p[i].edge # 0 =>
              /\ p[i].edge \in EdgeIndices
              /\ network[p[i].edge].tail = p[i].from
              /\ network[p[i].edge].head = p[i].to
  <1>1. ASSUME NEW i \in 1..Len(p), p[i].edge # 0
        PROVE  /\ p[i].edge \in EdgeIndices
               /\ network[p[i].edge].tail = p[i].from
               /\ network[p[i].edge].head = p[i].to
    <2>1. p[i].edge \in EdgeIndices /\ p[i] = Forward(p[i].edge)
      BY <1>1 DEF Augmenting, Runs
    <2> DEFINE e == p[i].edge
    <2> HIDE DEF e
    <2>2. p[i].from = network[e].tail /\ p[i].to = network[e].head
      BY <2>1 DEF Forward, e
    <2> QED
      BY <2>1, <2>2 DEF e
  <1>2. DOMAIN p = 1..Len(p) /\ 0 \notin EdgeIndices
    BY DEF Augmenting, GraphTyped
  <1> QED
    BY <1>1, <1>2 DEF Used

(***************************************************************************)
(* And where one lies that it gives flow back to.                          *)
(***************************************************************************)
LEMMA GivenBackEnds ==
  ASSUME GraphTyped, NEW p, Augmenting(p)
  PROVE  /\ \A e : e \in GivenBack(p) <=>
                     \E i \in 1..Len(p) : p[i].edge = 0 /\ e = FirstEdge(p[i].to, p[i].from)
         /\ \A i \in 1..Len(p) : p[i].edge = 0 =>
              /\ FirstEdge(p[i].to, p[i].from) \in EdgeIndices
              /\ network[FirstEdge(p[i].to, p[i].from)].tail = p[i].to
              /\ network[FirstEdge(p[i].to, p[i].from)].head = p[i].from
  <1>1. ASSUME NEW i \in 1..Len(p), p[i].edge = 0
        PROVE  /\ FirstEdge(p[i].to, p[i].from) \in EdgeIndices
               /\ network[FirstEdge(p[i].to, p[i].from)].tail = p[i].to
               /\ network[FirstEdge(p[i].to, p[i].from)].head = p[i].from
    <2>1. \E e \in EdgeIndices : network[e].tail = p[i].to /\ network[e].head = p[i].from
      BY <1>1 DEF Augmenting, Runs
    <2> QED
      BY <2>1, FirstEdgeBetween
  <1>2. DOMAIN p = 1..Len(p)
    BY DEF Augmenting
  <1> QED
    BY <1>1, <1>2 DEF GivenBack, Gains

(***************************************************************************)
(* No edge is both.                                                        *)
(***************************************************************************)
LEMMA UsedNotGivenBack ==
  ASSUME GraphTyped, NEW p, Augmenting(p), NEW e \in Used(p)
  PROVE  e \notin GivenBack(p)
  <1>1. SUFFICES ASSUME e \in GivenBack(p) PROVE FALSE
    OBVIOUS
  <1>2. PICK i \in 1..Len(p) : p[i].edge = e /\ p[i].edge # 0
    BY UsedEnds
  <1>3. PICK j \in 1..Len(p) : p[j].edge = 0 /\ e = FirstEdge(p[j].to, p[j].from)
    BY <1>1, GivenBackEnds
  <1>4. network[e].tail = p[i].from /\ network[e].head = p[i].to
    BY <1>2, UsedEnds
  <1>5. network[e].tail = p[j].to /\ network[e].head = p[j].from
    BY <1>3, GivenBackEnds
  <1>6. /\ LeavesAt(p, p[i].from, i) /\ EntersAt(p, p[i].to, i)
        /\ LeavesAt(p, p[i].to, j) /\ EntersAt(p, p[i].from, j)
    BY <1>4, <1>5 DEF LeavesAt, EntersAt
  <1> QED
    BY <1>6, PathSimple

(***************************************************************************)
(* The residuals after the augmentation.                                   *)
(***************************************************************************)
LEMMA ResidualsPushed ==
  ASSUME GraphTyped, NEW p, Augmenting(p), NEW amount, amount = Bottleneck(p)
  PROVE  LET after == PushResidual(p, amount) IN
         /\ after \in [EdgeIndices -> Nat]
         /\ \A e \in EdgeIndices : after[e] = IF e \in Used(p) THEN residual[e] - amount
                                              ELSE IF e \in GivenBack(p) THEN residual[e] + amount
                                              ELSE residual[e]
  <1> DEFINE after == PushResidual(p, amount)
  <1>1. amount \in Nat /\ amount > 0 /\ \A i \in 1..Len(p) : amount <= StepCapacity(p[i])
    BY BottleneckBounds
  <1>2. ASSUME NEW e \in EdgeIndices
        PROVE  after[e] = IF e \in Used(p) THEN residual[e] - amount
                          ELSE IF e \in GivenBack(p) THEN residual[e] + amount
                          ELSE residual[e]
    <2> DEFINE A == \E i \in DOMAIN p : p[i].edge = e
               B == \E i \in DOMAIN p : Gains(p[i], e)
    <2>1. (e \in Used(p) <=> A) /\ (e \in GivenBack(p) <=> B)
      BY DEF Used, GivenBack
    <2>2. after[e] = CASE A -> residual[e] - amount
                       [] B -> residual[e] + amount
                       [] OTHER -> residual[e]
      BY Zenon DEF PushResidual
    <2>3. e \in Used(p) => ~B
      BY <2>1, UsedNotGivenBack
    <2> HIDE DEF after, A, B
    <2>4. CASE e \in Used(p)
      BY <2>1, <2>2, <2>3, <2>4
    <2>5. CASE e \notin Used(p) /\ e \in GivenBack(p)
      BY <2>1, <2>2, <2>5
    <2>6. CASE e \notin Used(p) /\ e \notin GivenBack(p)
      BY <2>1, <2>2, <2>6
    <2> QED
      BY <2>4, <2>5, <2>6
  <1>3. ASSUME NEW e \in EdgeIndices, e \in Used(p) PROVE residual[e] - amount \in Nat
    <2>1. PICK i \in 1..Len(p) : p[i].edge = e /\ p[i].edge # 0
      BY <1>3, UsedEnds
    <2>2. amount <= residual[e]
      BY <1>1, <2>1 DEF StepCapacity
    <2>3. residual[e] \in Nat
      BY DEF GraphTyped
    <2> QED
      BY <1>1, <2>2, <2>3
  <1>4. \A e \in EdgeIndices : residual[e] \in Nat
    BY DEF GraphTyped
  <1>5. after = [e \in EdgeIndices |-> after[e]]
    BY DEF PushResidual
  <1> HIDE DEF after
  <1>6. \A e \in EdgeIndices : after[e] \in Nat
    BY <1>1, <1>2, <1>3, <1>4
  <1>7. after \in [EdgeIndices -> Nat]
    BY <1>5, <1>6
  <1> QED
    BY <1>2, <1>7 DEF after

(***************************************************************************)
(* The path takes a step from u to v along an edge, or against the flow    *)
(* from v to u.                                                            *)
(***************************************************************************)
StepsAlong(p, u, v) == \E i \in 1..Len(p) : p[i].edge # 0 /\ p[i].from = u /\ p[i].to = v
StepsAgainst(p, u, v) == \E i \in 1..Len(p) : p[i].edge = 0 /\ p[i].from = v /\ p[i].to = u

(***************************************************************************)
(* The cancellable flow after the augmentation.                            *)
(***************************************************************************)
LEMMA ReversePushed ==
  ASSUME GraphTyped, NEW p, Augmenting(p), NEW amount, amount = Bottleneck(p)
  PROVE  LET after == PushReverse(p, amount) IN
         /\ after \in [Node \X Node -> Nat]
         /\ \A u, v \in Node : ~(StepsAlong(p, u, v) /\ StepsAgainst(p, u, v))
         /\ \A u, v \in Node :
              after[<<v, u>>] = IF StepsAlong(p, u, v) THEN reverse[<<v, u>>] + amount
                                ELSE IF StepsAgainst(p, u, v) THEN reverse[<<v, u>>] - amount
                                ELSE reverse[<<v, u>>]
  <1> DEFINE after == PushReverse(p, amount)
  <1>0. ASSUME NEW u \in Node, NEW v \in Node, StepsAlong(p, u, v), StepsAgainst(p, u, v)
        PROVE  FALSE
    <2>1. PICK i \in 1..Len(p) : p[i].from = u /\ p[i].to = v
      BY <1>0 DEF StepsAlong
    <2>2. PICK j \in 1..Len(p) : p[j].from = v /\ p[j].to = u
      BY <1>0 DEF StepsAgainst
    <2>3. LeavesAt(p, u, i) /\ EntersAt(p, v, i) /\ LeavesAt(p, v, j) /\ EntersAt(p, u, j)
      BY <2>1, <2>2 DEF LeavesAt, EntersAt
    <2> QED
      BY <2>3, PathSimple
  <1>1. amount \in Nat /\ amount > 0 /\ \A i \in 1..Len(p) : amount <= StepCapacity(p[i])
    BY BottleneckBounds
  <1>2. DOMAIN p = 1..Len(p)
    BY DEF Augmenting
  <1>3. ASSUME NEW u \in Node, NEW v \in Node
        PROVE  after[<<v, u>>] = IF StepsAlong(p, u, v) THEN reverse[<<v, u>>] + amount
                                 ELSE IF StepsAgainst(p, u, v) THEN reverse[<<v, u>>] - amount
                                 ELSE reverse[<<v, u>>]
    <2> DEFINE A == \E i \in DOMAIN p : p[i].edge # 0 /\ <<v, u>> = <<p[i].to, p[i].from>>
               B == \E i \in DOMAIN p : p[i].edge = 0 /\ <<v, u>> = <<p[i].from, p[i].to>>
    <2>1. A <=> StepsAlong(p, u, v)
      BY <1>2 DEF StepsAlong
    <2>2. B <=> StepsAgainst(p, u, v)
      BY <1>2 DEF StepsAgainst
    <2>3. <<v, u>> \in Node \X Node
      OBVIOUS
    <2>4. after[<<v, u>>] = CASE A -> reverse[<<v, u>>] + amount
                              [] B -> reverse[<<v, u>>] - amount
                              [] OTHER -> reverse[<<v, u>>]
      BY <2>3, Zenon DEF PushReverse
    <2>5. ~(A /\ B)
      BY <2>1, <2>2, <1>0
    <2> HIDE DEF after, A, B
    <2>6. CASE A
      BY <2>1, <2>4, <2>5, <2>6
    <2>7. CASE ~A /\ B
      BY <2>1, <2>2, <2>4, <2>7
    <2>8. CASE ~A /\ ~B
      BY <2>1, <2>2, <2>4, <2>8
    <2> QED
      BY <2>6, <2>7, <2>8
  <1>4. ASSUME NEW u \in Node, NEW v \in Node, StepsAgainst(p, u, v)
        PROVE  reverse[<<v, u>>] - amount \in Nat
    <2>1. PICK i \in 1..Len(p) : p[i].edge = 0 /\ p[i].from = v /\ p[i].to = u
      BY <1>4 DEF StepsAgainst
    <2>2. amount <= reverse[<<v, u>>]
      BY <1>1, <2>1 DEF StepCapacity
    <2>3. reverse[<<v, u>>] \in Nat
      BY DEF GraphTyped
    <2> QED
      BY <1>1, <2>2, <2>3
  <1>5. \A u, v \in Node : reverse[<<v, u>>] \in Nat
    BY DEF GraphTyped
  <1>6. after = [pair \in Node \X Node |-> after[pair]]
    BY DEF PushReverse
  <1> HIDE DEF after
  <1>7. ASSUME NEW u \in Node, NEW v \in Node PROVE after[<<v, u>>] \in Nat
    <2> DEFINE r == reverse[<<v, u>>]
    <2>1. r \in Nat
      BY <1>5
    <2>2. StepsAgainst(p, u, v) => r - amount \in Nat
      BY <1>4
    <2>3. after[<<v, u>>] = IF StepsAlong(p, u, v) THEN r + amount
                            ELSE IF StepsAgainst(p, u, v) THEN r - amount ELSE r
      BY <1>3
    <2> HIDE DEF r
    <2> QED
      BY <1>1, <2>1, <2>2, <2>3
  <1>8. after \in [Node \X Node -> Nat]
    <2>1. \A pair \in Node \X Node : after[pair] \in Nat
      BY <1>7
    <2> QED
      BY <1>6, <2>1
  <1> QED
    BY <1>0, <1>3, <1>8 DEF after

(***************************************************************************)
(* The sum of amount over the edges of A.                                  *)
(***************************************************************************)
Lift(A, amount) == SumOf(Len(network), A, [k \in 1..Len(network) |-> amount])

(***************************************************************************)
(* If A holds one edge, the sum is amount.                                 *)
(***************************************************************************)
LEMMA LiftOne ==
  ASSUME GraphTyped, NEW amount \in Int, NEW A, NEW x \in EdgeIndices,
         \A e \in EdgeIndices : e \in A <=> e = x
  PROVE  Lift(A, amount) = amount
  <1> DEFINE N == Len(network)
             a == [k \in 1..N |-> amount]
  <1>0. N \in Nat /\ EdgeIndices = 1..N
    BY DEF GraphTyped
  <1>1. \A k \in 1..N : a[k] \in Int
    OBVIOUS
  <1>2. x \in 1..N
    BY <1>0
  <1>3. SumOf(N, {x}, a) = amount
    BY <1>0, <1>2, SumOne
  <1> HIDE DEF a
  <1>4. \A k \in 1..N : Term(A, a, k) = Term({x}, a, k)
    BY <1>0 DEF Term
  <1> HIDE DEF N
  <1>5. SumOf(N, A, a) = SumOf(N, {x}, a)
    <2>1. N \in Nat
      BY <1>0
    <2> QED
      BY <2>1, <1>1, <1>4, SumSame
  <1> QED
    BY <1>3, <1>5 DEF Lift, a, N

(***************************************************************************)
(* If it holds none, the sum is zero.                                      *)
(***************************************************************************)
LEMMA LiftNone ==
  ASSUME GraphTyped, NEW amount \in Int, NEW A, \A e \in EdgeIndices : e \notin A
  PROVE  Lift(A, amount) = 0
  <1> DEFINE N == Len(network)
             a == [k \in 1..N |-> amount]
  <1>0. N \in Nat /\ EdgeIndices = 1..N
    BY DEF GraphTyped
  <1>1. \A k \in 1..N : a[k] \in Int
    OBVIOUS
  <1>2. \A k \in 1..N : Term(A, a, k) = 0
    BY <1>0 DEF Term
  <1> HIDE DEF N, a
  <1>3. SumOf(N, A, a) = 0
    <2>1. N \in Nat
      BY <1>0
    <2> QED
      BY <2>1, <1>1, <1>2, SumZero
  <1> QED
    BY <1>3 DEF Lift, a, N

(***************************************************************************)
(* Either way it is an integer.                                            *)
(***************************************************************************)
LEMMA LiftInt ==
  ASSUME GraphTyped, NEW amount \in Int, NEW A
  PROVE  Lift(A, amount) \in Int
  <1> DEFINE N == Len(network)
             a == [k \in 1..N |-> amount]
  <1>1. N \in Nat /\ \A k \in 1..N : a[k] \in Int
    BY DEF GraphTyped
  <1> HIDE DEF N, a
  <1> QED
    BY <1>1, SumInt DEF Lift, N, a

(***************************************************************************)
(* The flow over the edges of E when res is left of them.                  *)
(***************************************************************************)
FlowWith(E, res) ==
  SumOf(Len(network), E, [e \in 1..Len(network) |-> network[e].capacity - res[e]])

(***************************************************************************)
(* It is an integer and at most the capacity of these edges; if they are   *)
(* used up, it is their capacity.                                          *)
(***************************************************************************)
LEMMA FlowBounded ==
  ASSUME GraphTyped, NEW E, NEW res \in [EdgeIndices -> Nat]
  PROVE  /\ FlowWith(E, res) \in Int /\ CapacityOf(E) \in Int
         /\ FlowWith(E, res) <= CapacityOf(E)
         /\ (\A e \in EdgeIndices : e \in E => res[e] = 0) => FlowWith(E, res) = CapacityOf(E)
  <1> DEFINE N == Len(network)
             a == [e \in 1..N |-> network[e].capacity - res[e]]
             c == [e \in 1..N |-> network[e].capacity]
             r == [e \in 1..N |-> res[e]]
  <1>0. N \in Nat /\ EdgeIndices = 1..N
    BY DEF GraphTyped
  <1>1. \A k \in 1..N : network[k].capacity \in Nat /\ res[k] \in Nat
    BY <1>0 DEF GraphTyped
  <1>2. \A k \in 1..N : /\ a[k] = network[k].capacity - res[k] /\ c[k] = network[k].capacity
                        /\ r[k] = res[k]
    OBVIOUS
  <1>3. FlowWith(E, res) = SumOf(N, E, a) /\ CapacityOf(E) = SumOf(N, E, c)
    BY <1>0, Zenon DEF FlowWith, CapacityOf
  <1> HIDE DEF N, a, c, r
  <1>4. N \in Nat
    BY <1>0
  <1>5. \A k \in 1..N : a[k] \in Int /\ c[k] \in Int /\ r[k] \in Int /\ c[k] = a[k] + r[k] /\ r[k] >= 0
    BY <1>1, <1>2
  <1>6. /\ \A k \in 1..N : Term(E, c, k) = Term(E, a, k) + Term(E, r, k)
        /\ \A k \in 1..N : Term(E, r, k) >= 0
    BY <1>5 DEF Term
  <1>7. SumOf(N, E, c) = SumOf(N, E, a) + SumOf(N, E, r)
    BY <1>4, <1>5, <1>6, SumPlus
  <1>8. SumOf(N, E, r) >= 0
    BY <1>4, <1>5, <1>6, SumNatural
  <1>9. SumOf(N, E, c) \in Int /\ SumOf(N, E, a) \in Int /\ SumOf(N, E, r) \in Int
    BY <1>4, <1>5, SumInt
  <1>10. ASSUME \A e \in EdgeIndices : e \in E => res[e] = 0 PROVE SumOf(N, E, r) = 0
    <2>1. \A k \in 1..N : Term(E, r, k) = 0
      BY <1>0, <1>2, <1>10 DEF Term
    <2> QED
      BY <1>4, <1>5, <2>1, SumZero
  <1> QED
    BY <1>3, <1>7, <1>8, <1>9, <1>10

(***************************************************************************)
(* What the augmentation adds to the flow over the edges of E, and what it *)
(* takes from it.                                                          *)
(***************************************************************************)
LEMMA FlowShifts ==
  ASSUME GraphTyped, NEW p, Augmenting(p), NEW amount, amount = Bottleneck(p), NEW E
  PROVE  FlowWith(E, PushResidual(p, amount)) + Lift(GivenBack(p) \cap E, amount)
           = FlowWith(E, residual) + Lift(Used(p) \cap E, amount)
  <1> DEFINE N == Len(network)
             after == PushResidual(p, amount)
             a == [e \in 1..N |-> network[e].capacity - residual[e]]
             b == [e \in 1..N |-> network[e].capacity - after[e]]
             d == [e \in 1..N |-> amount]
             B == GivenBack(p) \cap E
             U == Used(p) \cap E
             c == [e \in 1..N |-> Term(E, a, e) + Term(U, d, e)]
             G == 1..N
  <1>0. N \in Nat /\ EdgeIndices = 1..N
    BY DEF GraphTyped
  <1>1. amount \in Nat
    BY BottleneckBounds
  <1>2. /\ \A e \in EdgeIndices : after[e] \in Nat
        /\ \A e \in EdgeIndices : after[e] = IF e \in Used(p) THEN residual[e] - amount
                                             ELSE IF e \in GivenBack(p) THEN residual[e] + amount
                                             ELSE residual[e]
    BY ResidualsPushed
  <1>3. \A k \in 1..N : network[k].capacity \in Nat /\ residual[k] \in Nat
    BY <1>0 DEF GraphTyped
  <1>4. \A k \in 1..N : /\ a[k] = network[k].capacity - residual[k]
                        /\ b[k] = network[k].capacity - after[k]
                        /\ d[k] = amount
                        /\ c[k] = Term(E, a, k) + Term(U, d, k)
                        /\ k \in G
    OBVIOUS
  <1>5. /\ \A e : e \in B <=> e \in GivenBack(p) /\ e \in E
        /\ \A e : e \in U <=> e \in Used(p) /\ e \in E
    OBVIOUS
  <1>6. \A e : e \in Used(p) => e \notin GivenBack(p)
    BY UsedNotGivenBack
  <1>7. /\ FlowWith(E, after) = SumOf(N, E, b) /\ FlowWith(E, residual) = SumOf(N, E, a)
        /\ Lift(B, amount) = SumOf(N, B, d) /\ Lift(U, amount) = SumOf(N, U, d)
    BY Zenon DEF FlowWith, Lift
  <1> HIDE DEF N, after, a, b, c, d, B, U, G
  <1>8. N \in Nat
    BY <1>0
  <1>9. ASSUME NEW k \in 1..N PROVE a[k] \in Int /\ b[k] \in Int /\ d[k] \in Int
    <2>1. after[k] \in Nat
      BY <1>0, <1>2
    <2>2. network[k].capacity \in Nat /\ residual[k] \in Nat
      BY <1>3
    <2> QED
      BY <1>1, <1>4, <2>1, <2>2
  <1>10. \A k \in 1..N : c[k] \in Int
    BY <1>4, <1>9 DEF Term
  <1>11. ASSUME NEW k \in 1..N
         PROVE  /\ Term(G, c, k) = Term(E, a, k) + Term(U, d, k)
                /\ Term(G, c, k) = Term(E, b, k) + Term(B, d, k)
    <2>1. Term(G, c, k) = Term(E, a, k) + Term(U, d, k)
      BY <1>4 DEF Term
    <2>2. Term(E, a, k) + Term(U, d, k) = Term(E, b, k) + Term(B, d, k)
      <3>1. /\ a[k] = network[k].capacity - residual[k] /\ b[k] = network[k].capacity - after[k]
            /\ d[k] = amount /\ amount \in Nat
            /\ network[k].capacity \in Nat /\ residual[k] \in Nat /\ after[k] \in Nat
            /\ after[k] = IF k \in Used(p) THEN residual[k] - amount
                          ELSE IF k \in GivenBack(p) THEN residual[k] + amount
                          ELSE residual[k]
        BY <1>0, <1>1, <1>2, <1>3, <1>4
      <3>2. CASE k \notin E
        BY <1>5, <3>2 DEF Term
      <3>3. CASE k \in E /\ k \in Used(p)
        BY <1>5, <1>6, <3>1, <3>3 DEF Term
      <3>4. CASE k \in E /\ k \notin Used(p) /\ k \in GivenBack(p)
        BY <1>5, <3>1, <3>4 DEF Term
      <3>5. CASE k \in E /\ k \notin Used(p) /\ k \notin GivenBack(p)
        BY <1>5, <3>1, <3>5 DEF Term
      <3> QED
        BY <3>2, <3>3, <3>4, <3>5
    <2> QED
      BY <2>1, <2>2
  <1>12. SumOf(N, G, c) = SumOf(N, E, a) + SumOf(N, U, d)
    <2>1. \A k \in 1..N : Term(G, c, k) = Term(E, a, k) + Term(U, d, k)
      BY <1>11
    <2> QED
      BY <1>8, <1>9, <1>10, <2>1, SumPlus
  <1>13. SumOf(N, G, c) = SumOf(N, E, b) + SumOf(N, B, d)
    <2>1. \A k \in 1..N : Term(G, c, k) = Term(E, b, k) + Term(B, d, k)
      BY <1>11
    <2> QED
      BY <1>8, <1>9, <1>10, <2>1, SumPlus
  <1> QED
    BY <1>7, <1>12, <1>13 DEF after, B, U

(***************************************************************************)
(* Between two nodes the path uses one edge if it steps along, and gives   *)
(* back to one if it steps against.                                        *)
(***************************************************************************)
PairShifts(p, u, v, amount) ==
  /\ StepsAlong(p, u, v) => Lift(Used(p) \cap Between({u}, {v}), amount) = amount
  /\ ~StepsAlong(p, u, v) => Lift(Used(p) \cap Between({u}, {v}), amount) = 0
  /\ StepsAgainst(p, u, v) => Lift(GivenBack(p) \cap Between({u}, {v}), amount) = amount
  /\ ~StepsAgainst(p, u, v) => Lift(GivenBack(p) \cap Between({u}, {v}), amount) = 0

(***************************************************************************)
(* It does: it takes no two steps between them.                            *)
(***************************************************************************)
LEMMA PairLifts ==
  ASSUME GraphTyped, NEW p, Augmenting(p), NEW amount \in Int,
         NEW u \in Node, NEW v \in Node, u # v
  PROVE  PairShifts(p, u, v, amount)
  <1> DEFINE E == Between({u}, {v})
             U == Used(p) \cap E
             B == GivenBack(p) \cap E
  <1>1. \A e : e \in E <=> e \in EdgeIndices /\ network[e].tail = u /\ network[e].head = v
    BY DEF Between
  <1>2. \A e : (e \in U <=> e \in Used(p) /\ e \in E) /\ (e \in B <=> e \in GivenBack(p) /\ e \in E)
    OBVIOUS
  <1> HIDE DEF E, U, B
  <1>3. Lift(U, amount) = IF StepsAlong(p, u, v) THEN amount ELSE 0
    <2>1. CASE StepsAlong(p, u, v)
      <3>1. PICK i \in 1..Len(p) : p[i].edge # 0 /\ p[i].from = u /\ p[i].to = v
        BY <2>1 DEF StepsAlong
      <3>2. p[i].edge \in U /\ p[i].edge \in EdgeIndices
        BY <1>1, <1>2, <3>1, UsedEnds
      <3>3. ASSUME NEW e \in U PROVE e = p[i].edge
        <4>1. e \in Used(p) /\ network[e].tail = u
          BY <1>1, <1>2
        <4>2. PICK j \in 1..Len(p) : p[j].edge = e /\ p[j].edge # 0
          BY <4>1, UsedEnds
        <4>3. p[j].from = u
          BY <4>1, <4>2, UsedEnds
        <4>4. LeavesAt(p, u, i) /\ LeavesAt(p, u, j)
          BY <3>1, <4>3 DEF LeavesAt
        <4>5. i = j
          BY <4>4, PathSimple
        <4> QED
          BY <4>2, <4>5
      <3>4. Lift(U, amount) = amount
        BY <3>2, <3>3, LiftOne
      <3> QED
        BY <2>1, <3>4
    <2>2. CASE ~StepsAlong(p, u, v)
      <3>1. ASSUME NEW e \in U PROVE FALSE
        <4>1. e \in Used(p) /\ network[e].tail = u /\ network[e].head = v
          BY <1>1, <1>2
        <4>2. PICK j \in 1..Len(p) : p[j].edge = e /\ p[j].edge # 0
          BY <4>1, UsedEnds
        <4>3. p[j].from = u /\ p[j].to = v
          BY <4>1, <4>2, UsedEnds
        <4> QED
          BY <2>2, <4>2, <4>3 DEF StepsAlong
      <3>2. Lift(U, amount) = 0
        BY <3>1, LiftNone
      <3> QED
        BY <2>2, <3>2
    <2> QED
      BY <2>1, <2>2
  <1>4. Lift(B, amount) = IF StepsAgainst(p, u, v) THEN amount ELSE 0
    <2>1. CASE StepsAgainst(p, u, v)
      <3>1. PICK i \in 1..Len(p) : p[i].edge = 0 /\ p[i].from = v /\ p[i].to = u
        BY <2>1 DEF StepsAgainst
      <3> DEFINE x == FirstEdge(p[i].to, p[i].from)
      <3>2. x \in B /\ x \in EdgeIndices
        BY <1>1, <1>2, <3>1, GivenBackEnds
      <3>3. ASSUME NEW e \in B PROVE e = x
        <4>1. e \in GivenBack(p) /\ network[e].tail = u
          BY <1>1, <1>2
        <4>2. PICK j \in 1..Len(p) : p[j].edge = 0 /\ e = FirstEdge(p[j].to, p[j].from)
          BY <4>1, GivenBackEnds
        <4>3. p[j].to = u
          BY <4>1, <4>2, GivenBackEnds
        <4>4. EntersAt(p, u, i) /\ EntersAt(p, u, j)
          BY <3>1, <4>3 DEF EntersAt
        <4>5. i = j
          BY <4>4, PathSimple
        <4> QED
          BY <4>2, <4>5
      <3> HIDE DEF x
      <3>4. Lift(B, amount) = amount
        BY <3>2, <3>3, LiftOne
      <3> QED
        BY <2>1, <3>4
    <2>2. CASE ~StepsAgainst(p, u, v)
      <3>1. ASSUME NEW e \in B PROVE FALSE
        <4>1. e \in GivenBack(p) /\ network[e].tail = u /\ network[e].head = v
          BY <1>1, <1>2
        <4>2. PICK j \in 1..Len(p) : p[j].edge = 0 /\ e = FirstEdge(p[j].to, p[j].from)
          BY <4>1, GivenBackEnds
        <4>3. p[j].to = u /\ p[j].from = v
          BY <4>1, <4>2, GivenBackEnds
        <4> QED
          BY <2>2, <4>2, <4>3 DEF StepsAgainst
      <3>2. Lift(B, amount) = 0
        BY <3>1, LiftNone
      <3> QED
        BY <2>2, <3>2
    <2> QED
      BY <2>1, <2>2
  <1> QED
    BY <1>3, <1>4 DEF U, B, E, PairShifts

(***************************************************************************)
(* At a node where the path leaves, it uses an edge out of the node or     *)
(* gives back to one into it.                                              *)
(***************************************************************************)
LEMMA LeavingLifts ==
  ASSUME GraphTyped, NEW p, Augmenting(p), NEW amount \in Int, NEW n \in Node
  PROVE  Lift(Used(p) \cap Between({n}, Node), amount)
           + Lift(GivenBack(p) \cap Between(Node, {n}), amount)
         = IF Leaves(p, n) THEN amount ELSE 0
  <1> DEFINE U == Used(p) \cap Between({n}, Node)
             B == GivenBack(p) \cap Between(Node, {n})
  <1>1. \A e \in EdgeIndices : network[e].tail \in Node /\ network[e].head \in Node
    BY DEF GraphTyped
  <1>2. \A e : /\ e \in U <=> e \in EdgeIndices /\ e \in Used(p) /\ network[e].tail = n
               /\ e \in B <=> e \in EdgeIndices /\ e \in GivenBack(p) /\ network[e].head = n
    BY <1>1 DEF Between
  <1> HIDE DEF U, B
  <1>3. ASSUME NEW e \in U
        PROVE  \E j \in 1..Len(p) : LeavesAt(p, n, j) /\ p[j].edge = e /\ p[j].edge # 0
    <2>1. e \in Used(p) /\ network[e].tail = n
      BY <1>2
    <2>2. PICK j \in 1..Len(p) : p[j].edge = e /\ p[j].edge # 0
      BY <2>1, UsedEnds
    <2>3. p[j].from = n
      BY <2>1, <2>2, UsedEnds
    <2> QED
      BY <2>2, <2>3 DEF LeavesAt
  <1>4. ASSUME NEW e \in B
        PROVE  \E j \in 1..Len(p) : /\ LeavesAt(p, n, j) /\ p[j].edge = 0
                                    /\ e = FirstEdge(p[j].to, p[j].from)
    <2>1. e \in GivenBack(p) /\ network[e].head = n
      BY <1>2
    <2>2. PICK j \in 1..Len(p) : p[j].edge = 0 /\ e = FirstEdge(p[j].to, p[j].from)
      BY <2>1, GivenBackEnds
    <2>3. p[j].from = n
      BY <2>1, <2>2, GivenBackEnds
    <2> QED
      BY <2>2, <2>3 DEF LeavesAt
  <1>5. CASE ~Leaves(p, n)
    <2>1. Lift(U, amount) = 0
      BY <1>3, <1>5, LiftNone DEF Leaves
    <2>2. Lift(B, amount) = 0
      BY <1>4, <1>5, LiftNone DEF Leaves
    <2> QED
      BY <1>5, <2>1, <2>2 DEF U, B
  <1>6. CASE Leaves(p, n)
    <2>1. PICK i : LeavesAt(p, n, i)
      BY <1>6 DEF Leaves
    <2>2. i \in 1..Len(p) /\ p[i].from = n /\ \A j : LeavesAt(p, n, j) => j = i
      BY <2>1, PathSimple DEF LeavesAt
    <2>3. CASE p[i].edge # 0
      <3>1. p[i].edge \in EdgeIndices /\ p[i].edge \in U
        BY <1>2, <2>2, <2>3, UsedEnds
      <3>2. \A e \in EdgeIndices : e \in U <=> e = p[i].edge
        BY <1>3, <2>2, <3>1
      <3>3. Lift(U, amount) = amount
        BY <3>1, <3>2, LiftOne
      <3>4. Lift(B, amount) = 0
        BY <1>4, <2>2, <2>3, LiftNone
      <3> QED
        BY <1>6, <3>3, <3>4 DEF U, B
    <2>4. CASE p[i].edge = 0
      <3> DEFINE x == FirstEdge(p[i].to, p[i].from)
      <3>1. x \in EdgeIndices /\ x \in B
        BY <1>2, <2>2, <2>4, GivenBackEnds
      <3>2. \A e \in EdgeIndices : e \in B <=> e = x
        BY <1>4, <2>2, <3>1
      <3> HIDE DEF x
      <3>3. Lift(B, amount) = amount
        BY <3>1, <3>2, LiftOne
      <3>4. Lift(U, amount) = 0
        BY <1>3, <2>2, <2>4, LiftNone
      <3> QED
        BY <1>6, <3>3, <3>4 DEF U, B
    <2> QED
      BY <2>3, <2>4
  <1> QED
    BY <1>5, <1>6

(***************************************************************************)
(* And the same where it enters one.                                       *)
(***************************************************************************)
LEMMA EnteringLifts ==
  ASSUME GraphTyped, NEW p, Augmenting(p), NEW amount \in Int, NEW n \in Node
  PROVE  Lift(Used(p) \cap Between(Node, {n}), amount)
           + Lift(GivenBack(p) \cap Between({n}, Node), amount)
         = IF Enters(p, n) THEN amount ELSE 0
  <1> DEFINE U == Used(p) \cap Between(Node, {n})
             B == GivenBack(p) \cap Between({n}, Node)
  <1>1. \A e \in EdgeIndices : network[e].tail \in Node /\ network[e].head \in Node
    BY DEF GraphTyped
  <1>2. \A e : /\ e \in U <=> e \in EdgeIndices /\ e \in Used(p) /\ network[e].head = n
               /\ e \in B <=> e \in EdgeIndices /\ e \in GivenBack(p) /\ network[e].tail = n
    BY <1>1 DEF Between
  <1> HIDE DEF U, B
  <1>3. ASSUME NEW e \in U
        PROVE  \E j \in 1..Len(p) : EntersAt(p, n, j) /\ p[j].edge = e /\ p[j].edge # 0
    <2>1. e \in Used(p) /\ network[e].head = n
      BY <1>2
    <2>2. PICK j \in 1..Len(p) : p[j].edge = e /\ p[j].edge # 0
      BY <2>1, UsedEnds
    <2>3. p[j].to = n
      BY <2>1, <2>2, UsedEnds
    <2> QED
      BY <2>2, <2>3 DEF EntersAt
  <1>4. ASSUME NEW e \in B
        PROVE  \E j \in 1..Len(p) : /\ EntersAt(p, n, j) /\ p[j].edge = 0
                                    /\ e = FirstEdge(p[j].to, p[j].from)
    <2>1. e \in GivenBack(p) /\ network[e].tail = n
      BY <1>2
    <2>2. PICK j \in 1..Len(p) : p[j].edge = 0 /\ e = FirstEdge(p[j].to, p[j].from)
      BY <2>1, GivenBackEnds
    <2>3. p[j].to = n
      BY <2>1, <2>2, GivenBackEnds
    <2> QED
      BY <2>2, <2>3 DEF EntersAt
  <1>5. CASE ~Enters(p, n)
    <2>1. Lift(U, amount) = 0
      BY <1>3, <1>5, LiftNone DEF Enters
    <2>2. Lift(B, amount) = 0
      BY <1>4, <1>5, LiftNone DEF Enters
    <2> QED
      BY <1>5, <2>1, <2>2 DEF U, B
  <1>6. CASE Enters(p, n)
    <2>1. PICK i : EntersAt(p, n, i)
      BY <1>6 DEF Enters
    <2>2. i \in 1..Len(p) /\ p[i].to = n /\ \A j : EntersAt(p, n, j) => j = i
      BY <2>1, PathSimple DEF EntersAt
    <2>3. CASE p[i].edge # 0
      <3>1. p[i].edge \in EdgeIndices /\ p[i].edge \in U
        BY <1>2, <2>2, <2>3, UsedEnds
      <3>2. \A e \in EdgeIndices : e \in U <=> e = p[i].edge
        BY <1>3, <2>2, <3>1
      <3>3. Lift(U, amount) = amount
        BY <3>1, <3>2, LiftOne
      <3>4. Lift(B, amount) = 0
        BY <1>4, <2>2, <2>3, LiftNone
      <3> QED
        BY <1>6, <3>3, <3>4 DEF U, B
    <2>4. CASE p[i].edge = 0
      <3> DEFINE x == FirstEdge(p[i].to, p[i].from)
      <3>1. x \in EdgeIndices /\ x \in B
        BY <1>2, <2>2, <2>4, GivenBackEnds
      <3>2. \A e \in EdgeIndices : e \in B <=> e = x
        BY <1>4, <2>2, <3>1
      <3> HIDE DEF x
      <3>3. Lift(B, amount) = amount
        BY <3>1, <3>2, LiftOne
      <3>4. Lift(U, amount) = 0
        BY <1>3, <2>2, <2>4, LiftNone
      <3> QED
        BY <1>6, <3>3, <3>4 DEF U, B
    <2> QED
      BY <2>3, <2>4
  <1> QED
    BY <1>5, <1>6

(***************************************************************************)
(* FlowOf is the flow with the residuals there are.                        *)
(***************************************************************************)
LEMMA FlowIsWith ==
  ASSUME GraphTyped, NEW E
  PROVE  FlowOf(E) = FlowWith(E, residual)
  <1>1. EdgeIndices = 1..Len(network)
    BY DEF GraphTyped
  <1>2. [e \in EdgeIndices |-> EdgeFlow(e)]
          = [e \in 1..Len(network) |-> network[e].capacity - residual[e]]
    BY <1>1 DEF EdgeFlow
  <1> QED
    BY <1>2 DEF FlowOf, FlowWith

(***************************************************************************)
(* The augmentation keeps the cancellable flow of a pair and the flow of   *)
(* its edges equal.                                                        *)
(***************************************************************************)
LEMMA PairsKept ==
  ASSUME GraphTyped, CancellableIsPairFlow, NEW p, Augmenting(p),
         NEW amount, amount = Bottleneck(p), NEW u \in Node, NEW v \in Node, u # v
  PROVE  PushReverse(p, amount)[<<v, u>>]
           = FlowWith(Between({u}, {v}), PushResidual(p, amount))
  <1> DEFINE E == Between({u}, {v})
             r == reverse[<<v, u>>]
             f == FlowWith(E, residual)
             g == FlowWith(E, PushResidual(p, amount))
             U == Lift(Used(p) \cap E, amount)
             B == Lift(GivenBack(p) \cap E, amount)
             s == PushReverse(p, amount)[<<v, u>>]
  <1>1. amount \in Nat
    BY BottleneckBounds
  <1>2. r = f
    BY FlowIsWith DEF CancellableIsPairFlow
  <1>3. g + B = f + U
    BY FlowShifts
  <1>4. /\ U = IF StepsAlong(p, u, v) THEN amount ELSE 0
        /\ B = IF StepsAgainst(p, u, v) THEN amount ELSE 0
    <2>1. amount \in Int
      BY <1>1
    <2>2. PairShifts(p, u, v, amount)
      BY <2>1, PairLifts
    <2> QED
      BY <2>2 DEF PairShifts
  <1>5. /\ ~(StepsAlong(p, u, v) /\ StepsAgainst(p, u, v))
        /\ s = IF StepsAlong(p, u, v) THEN r + amount
               ELSE IF StepsAgainst(p, u, v) THEN r - amount ELSE r
    BY ReversePushed
  <1>6. f \in Int /\ g \in Int
    <2>1. residual \in [EdgeIndices -> Nat] /\ PushResidual(p, amount) \in [EdgeIndices -> Nat]
      BY ResidualsPushed DEF GraphTyped
    <2> QED
      BY <2>1, FlowBounded
  <1>7. s = g
    <2> HIDE DEF E, r, f, g, U, B, s
    <2> QED
      BY <1>1, <1>2, <1>3, <1>4, <1>5, <1>6
  <1> QED
    BY <1>7

(***************************************************************************)
(* What leaves a node less what enters it, when res is left.               *)
(***************************************************************************)
NetWith(n, res) == FlowWith(Between({n}, Node), res) - FlowWith(Between(Node, {n}), res)

(***************************************************************************)
(* The augmentation raises it at Source, lowers it at Sink and keeps it    *)
(* elsewhere.                                                              *)
(***************************************************************************)
LEMMA BalanceKept ==
  ASSUME GraphTyped, Conserved, total \in Int, NEW p, Augmenting(p),
         NEW amount, amount = Bottleneck(p), NEW n \in Node
  PROVE  NetWith(n, PushResidual(p, amount))
           = CASE n = Source -> total + amount
               [] n = Sink   -> -(total + amount)
               [] OTHER      -> 0
  <1> DEFINE O == Between({n}, Node)
             I == Between(Node, {n})
             fo == FlowWith(O, residual)
             fi == FlowWith(I, residual)
             go == FlowWith(O, PushResidual(p, amount))
             gi == FlowWith(I, PushResidual(p, amount))
             UO == Lift(Used(p) \cap O, amount)
             UI == Lift(Used(p) \cap I, amount)
             BO == Lift(GivenBack(p) \cap O, amount)
             BI == Lift(GivenBack(p) \cap I, amount)
  <1>1. amount \in Nat
    BY BottleneckBounds
  <1>2. fo - fi = CASE n = Source -> total [] n = Sink -> -total [] OTHER -> 0
    BY FlowIsWith DEF Conserved
  <1>3. go + BO = fo + UO /\ gi + BI = fi + UI
    BY FlowShifts
  <1>4. UO + BI = (IF Leaves(p, n) THEN amount ELSE 0)
    BY <1>1, LeavingLifts
  <1>5. UI + BO = (IF Enters(p, n) THEN amount ELSE 0)
    BY <1>1, EnteringLifts
  <1>6. UO \in Int /\ UI \in Int /\ BO \in Int /\ BI \in Int
    BY <1>1, LiftInt
  <1>7. fo \in Int /\ fi \in Int /\ go \in Int /\ gi \in Int
    <2>1. residual \in [EdgeIndices -> Nat] /\ PushResidual(p, amount) \in [EdgeIndices -> Nat]
      BY ResidualsPushed DEF GraphTyped
    <2> QED
      BY <2>1, FlowBounded
  <1>8. NetWith(n, PushResidual(p, amount)) = go - gi
    BY DEF NetWith
  <1>9. /\ n = Source => Leaves(p, n) /\ ~Enters(p, n)
        /\ n = Sink => ~Leaves(p, n) /\ Enters(p, n)
        /\ n # Source /\ n # Sink => (Leaves(p, n) <=> Enters(p, n))
        /\ Source # Sink
    BY PathSimple, NetworkAssumption
  <1> HIDE DEF O, I, fo, fi, go, gi, UO, UI, BO, BI
  <1>10. go - gi = (fo - fi) + (UO + BI) - (UI + BO)
    BY <1>3, <1>6, <1>7
  <1>11. CASE n = Source
    BY <1>1, <1>2, <1>4, <1>5, <1>7, <1>8, <1>9, <1>10, <1>11
  <1>12. CASE n = Sink
    BY <1>1, <1>2, <1>4, <1>5, <1>7, <1>8, <1>9, <1>10, <1>12
  <1>13. CASE n # Source /\ n # Sink
    <2>1. fo - fi = 0
      BY <1>2, <1>13
    <2>2. UO + BI = UI + BO
      BY <1>4, <1>5, <1>9, <1>13
    <2>3. go - gi = 0
      BY <1>6, <1>10, <2>1, <2>2
    <2> QED
      BY <1>8, <1>13, <2>3
  <1> QED
    BY <1>11, <1>12, <1>13

-----------------------------------------------------------------------------
(***************************************************************************)
(* Flows across cuts.  The flow over disjoint sets of edges adds up.       *)
(***************************************************************************)
LEMMA FlowSplits ==
  ASSUME GraphTyped, NEW E, NEW F, NEW G,
         \A e \in EdgeIndices : /\ e \in G <=> e \in E \/ e \in F
                                /\ ~(e \in E /\ e \in F)
  PROVE  FlowOf(G) = FlowOf(E) + FlowOf(F)
  <1> DEFINE N == Len(network)
             a == [e \in EdgeIndices |-> EdgeFlow(e)]
  <1>1. N \in Nat /\ EdgeIndices = 1..N
    BY DEF GraphTyped
  <1>2. \A k \in 1..N : a[k] \in Int
    BY <1>1 DEF GraphTyped, EdgeFlow
  <1>3. FlowOf(E) = SumOf(N, E, a) /\ FlowOf(F) = SumOf(N, F, a) /\ FlowOf(G) = SumOf(N, G, a)
    BY DEF FlowOf
  <1> HIDE DEF a
  <1>4. \A k \in 1..N : Term(G, a, k) = Term(E, a, k) + Term(F, a, k)
    BY <1>1, <1>2 DEF Term
  <1> HIDE DEF N
  <1>5. N \in Nat
    BY <1>1
  <1> QED
    BY <1>2, <1>3, <1>4, <1>5, SumPlus

(***************************************************************************)
(* Nothing flows over no edge.                                             *)
(***************************************************************************)
LEMMA FlowNone ==
  ASSUME GraphTyped, NEW E, \A e \in EdgeIndices : e \notin E
  PROVE  FlowOf(E) = 0
  <1> DEFINE N == Len(network)
             a == [e \in EdgeIndices |-> EdgeFlow(e)]
  <1>1. N \in Nat /\ EdgeIndices = 1..N
    BY DEF GraphTyped
  <1>2. \A k \in 1..N : a[k] \in Int
    BY <1>1 DEF GraphTyped, EdgeFlow
  <1>3. FlowOf(E) = SumOf(N, E, a)
    BY DEF FlowOf
  <1> HIDE DEF a
  <1>4. \A k \in 1..N : Term(E, a, k) = 0
    BY <1>1 DEF Term
  <1> HIDE DEF N
  <1>5. N \in Nat
    BY <1>1
  <1> QED
    BY <1>2, <1>3, <1>4, <1>5, SumZero

(***************************************************************************)
(* A flow is an integer and depends on the edges of its set only.          *)
(***************************************************************************)
LEMMA FlowInt ==
  ASSUME GraphTyped, NEW E PROVE FlowOf(E) \in Int
  BY FlowIsWith, FlowBounded DEF GraphTyped

(***************************************************************************)
(* The same edges carry the same flow.                                     *)
(***************************************************************************)
LEMMA FlowSame ==
  ASSUME GraphTyped, NEW E, NEW F, \A e \in EdgeIndices : e \in E <=> e \in F
  PROVE  FlowOf(E) = FlowOf(F)
  <1>1. FlowOf(E) = FlowOf(F) + FlowOf({})
    BY FlowSplits
  <1>2. FlowOf({}) = 0
    BY FlowNone
  <1> QED
    BY <1>1, <1>2, FlowInt

(***************************************************************************)
(* Which edges are between two sets of nodes.                              *)
(***************************************************************************)
LEMMA BetweenEdges ==
  ASSUME NEW U, NEW V, NEW e
  PROVE  e \in Between(U, V) <=> e \in EdgeIndices /\ network[e].tail \in U /\ network[e].head \in V
  BY DEF Between

(***************************************************************************)
(* What leaves the nodes of S less what enters them.                       *)
(***************************************************************************)
Net(S) == FlowOf(Between(S, Node)) - FlowOf(Between(Node, S))

(***************************************************************************)
(* A node more adds what leaves and enters that node.                      *)
(***************************************************************************)
LEMMA NetGrows ==
  ASSUME GraphTyped, NEW S, NEW x, x \notin S
  PROVE  Net(S \cup {x}) = Net(S) + Net({x})
  <1> DEFINE S2 == S \cup {x}
  <1>1. \A y : y \in S2 <=> y \in S \/ y \in {x}
    OBVIOUS
  <1>2. \A y : ~(y \in S /\ y \in {x})
    OBVIOUS
  <1> HIDE DEF S2
  <1>3. FlowOf(Between(S2, Node)) = FlowOf(Between(S, Node)) + FlowOf(Between({x}, Node))
    <2>1. \A e \in EdgeIndices :
            /\ e \in Between(S2, Node) <=> e \in Between(S, Node) \/ e \in Between({x}, Node)
            /\ ~(e \in Between(S, Node) /\ e \in Between({x}, Node))
      BY <1>1, <1>2, BetweenEdges
    <2> QED
      BY <2>1, FlowSplits
  <1>4. FlowOf(Between(Node, S2)) = FlowOf(Between(Node, S)) + FlowOf(Between(Node, {x}))
    <2>1. \A e \in EdgeIndices :
            /\ e \in Between(Node, S2) <=> e \in Between(Node, S) \/ e \in Between(Node, {x})
            /\ ~(e \in Between(Node, S) /\ e \in Between(Node, {x}))
      BY <1>1, <1>2, BetweenEdges
    <2> QED
      BY <2>1, FlowSplits
  <1>5. /\ FlowOf(Between(S, Node)) \in Int /\ FlowOf(Between({x}, Node)) \in Int
        /\ FlowOf(Between(Node, S)) \in Int /\ FlowOf(Between(Node, {x})) \in Int
    BY FlowInt
  <1>6. Net(S2) = Net(S) + Net({x})
    BY <1>3, <1>4, <1>5 DEF Net
  <1> QED
    BY <1>6 DEF S2

(***************************************************************************)
(* What leaves S less what enters it is what crosses from S to the other   *)
(* nodes less what crosses back.                                           *)
(***************************************************************************)
LEMMA NetCrosses ==
  ASSUME GraphTyped, NEW S, S \subseteq Node
  PROVE  Net(S) = FlowOf(Between(S, Node \ S)) - FlowOf(Between(Node \ S, S))
  <1> DEFINE T == Node \ S
  <1>1. \A y : y \in T <=> y \in Node /\ y \notin S
    OBVIOUS
  <1>2. \A y : y \in S => y \in Node
    OBVIOUS
  <1> HIDE DEF T
  <1>3. FlowOf(Between(S, Node)) = FlowOf(Between(S, S)) + FlowOf(Between(S, T))
    <2>1. \A e \in EdgeIndices :
            /\ e \in Between(S, Node) <=> e \in Between(S, S) \/ e \in Between(S, T)
            /\ ~(e \in Between(S, S) /\ e \in Between(S, T))
      BY <1>1, <1>2, BetweenEdges
    <2> QED
      BY <2>1, FlowSplits
  <1>4. FlowOf(Between(Node, S)) = FlowOf(Between(S, S)) + FlowOf(Between(T, S))
    <2>1. \A e \in EdgeIndices :
            /\ e \in Between(Node, S) <=> e \in Between(S, S) \/ e \in Between(T, S)
            /\ ~(e \in Between(S, S) /\ e \in Between(T, S))
      BY <1>1, <1>2, BetweenEdges
    <2> QED
      BY <2>1, FlowSplits
  <1>5. /\ FlowOf(Between(S, S)) \in Int /\ FlowOf(Between(S, T)) \in Int
        /\ FlowOf(Between(T, S)) \in Int
    BY FlowInt
  <1>6. Net(S) = FlowOf(Between(S, T)) - FlowOf(Between(T, S))
    BY <1>3, <1>4, <1>5 DEF Net
  <1> QED
    BY <1>6 DEF T

(***************************************************************************)
(* The edges 1..k meet these nodes of S.                                   *)
(***************************************************************************)
Met(S, k) ==
  {n \in S : n = Source \/ \E e \in 1..k : n = network[e].tail \/ n = network[e].head}

(***************************************************************************)
(* What leaves a set of nodes that holds Source and not Sink, less what    *)
(* enters it, is the total: node by node, over the nodes that edges meet.  *)
(***************************************************************************)
LEMMA NetIsTotal ==
  ASSUME GraphTyped, Conserved, total \in Int, NEW S, S \subseteq Node, Source \in S, Sink \notin S
  PROVE  Net(S) = total
  <1> DEFINE N == Len(network)
  <1>0. N \in Nat /\ EdgeIndices = 1..N
    BY DEF GraphTyped
  <1>1. \A n \in S : Net({n}) = IF n = Source THEN total ELSE 0
    BY DEF Conserved, Net
  <1>2. ASSUME NEW U, NEW V, \A x : x \in U <=> x \in V PROVE Net(U) = Net(V)
    <2>1. U = V
      BY <1>2
    <2> QED
      BY <2>1
  <1>3. ASSUME NEW U, Net(U) = total, Source \in U, NEW x \in S
        PROVE  Net(U \cup {x}) = total
    <2>1. CASE x \in U
      BY <1>2, <1>3, <2>1
    <2>2. CASE x \notin U
      <3>1. Net({x}) = 0
        BY <1>1, <1>3, <2>2
      <3> QED
        BY <1>3, <2>2, <3>1, NetGrows
    <2> QED
      BY <2>1, <2>2
  <1>4. \A k, n : n \in Met(S, k) <=>
                    n \in S /\ (n = Source \/ \E e \in 1..k : n = network[e].tail \/ n = network[e].head)
    BY DEF Met
  <1> DEFINE P == {k \in 0..N : Net(Met(S, k)) = total}
  <1>5. 0 \in P
    <2>1. \A x : x \in Met(S, 0) <=> x \in {Source}
      BY <1>4
    <2>2. Net(Met(S, 0)) = Net({Source})
      BY <1>2, <2>1
    <2> QED
      BY <1>0, <1>1, <2>2
  <1>6. ASSUME NEW k \in 1..N, k - 1 \in P PROVE k \in P
    <2> DEFINE U == Met(S, k - 1)
               t == network[k].tail
               h == network[k].head
               V == IF t \in S THEN U \cup {t} ELSE U
               W == IF h \in S THEN V \cup {h} ELSE V
    <2>0. Net(U) = total /\ k - 1 \in Int /\ k \in 0..N
      BY <1>6
    <2>1. Source \in U /\ \A x : x \in U <=>
            x \in S /\ (x = Source \/ \E e \in 1..(k - 1) : x = network[e].tail \/ x = network[e].head)
      BY <1>4
    <2>2. /\ \A x : x \in V <=> x \in U \/ (t \in S /\ x = t)
          /\ \A x : x \in W <=> x \in V \/ (h \in S /\ x = h)
      OBVIOUS
    <2>3. \A x : x \in Met(S, k) <=> x \in W
      <3>1. \A e : e \in 1..k <=> e \in 1..(k - 1) \/ e = k
        OBVIOUS
      <3> HIDE DEF U, V, W
      <3> QED
        BY <1>4, <2>1, <2>2, <3>1 DEF t, h
    <2> HIDE DEF U, t, h
    <2>4. Net(V) = total /\ Source \in V
      BY <1>3, <2>0, <2>1
    <2> HIDE DEF V
    <2>5. Net(W) = total
      BY <1>3, <2>4
    <2> HIDE DEF W
    <2> QED
      BY <1>2, <2>0, <2>3, <2>5
  <1>7. \A k \in 0..N : k \in P
    <2> HIDE DEF P, N
    <2> QED
      BY <1>0, <1>5, <1>6, RoundInduction
  <1>8. Net(Met(S, N)) = total
    BY <1>0, <1>7
  <1>9. /\ \A n \in S : n \notin Met(S, N) => \A e \in EdgeIndices : network[e].tail # n /\ network[e].head # n
        /\ \A n \in Met(S, N) : n \in S
    BY <1>0, <1>4
  <1>10. Net(Met(S, N)) = Net(S)
    <2> DEFINE M == Met(S, N)
    <2> HIDE DEF M
    <2>1. FlowOf(Between(M, Node)) = FlowOf(Between(S, Node))
      <3>1. \A e \in EdgeIndices : e \in Between(M, Node) <=> e \in Between(S, Node)
        BY <1>9, BetweenEdges DEF M
      <3> QED
        BY <3>1, FlowSame
    <2>2. FlowOf(Between(Node, M)) = FlowOf(Between(Node, S))
      <3>1. \A e \in EdgeIndices : e \in Between(Node, M) <=> e \in Between(Node, S)
        BY <1>9, BetweenEdges DEF M
      <3> QED
        BY <3>1, FlowSame
    <2> QED
      BY <2>1, <2>2 DEF Net, M
  <1> QED
    BY <1>8, <1>10

(***************************************************************************)
(* The edges between two sets of nodes whose ends are those of one of the  *)
(* edges 1..k.                                                             *)
(***************************************************************************)
Matched(U, V, k) ==
  {e \in Between(U, V) : \E d \in 1..k : /\ network[d].tail = network[e].tail
                                         /\ network[d].head = network[e].head}

(***************************************************************************)
(* The flow between two disjoint sets of nodes is not negative if none     *)
(* between two nodes is, and zero if each of these is: pair by pair, over  *)
(* the pairs that edges join.  (Of single edges neither holds.)            *)
(***************************************************************************)
LEMMA FlowByPairs ==
  ASSUME GraphTyped, NEW U, NEW V, U \subseteq Node, V \subseteq Node,
         \A u \in U, v \in V : FlowOf(Between({u}, {v})) >= 0
  PROVE  /\ FlowOf(Between(U, V)) >= 0
         /\ (\A u \in U, v \in V : FlowOf(Between({u}, {v})) = 0) => FlowOf(Between(U, V)) = 0
  <1> DEFINE N == Len(network)
             Z == \A u \in U, v \in V : FlowOf(Between({u}, {v})) = 0
             M(k) == Matched(U, V, k)
  <1>0. N \in Nat /\ EdgeIndices = 1..N
    BY DEF GraphTyped
  <1>1. \A k, e : e \in M(k) <=> /\ e \in Between(U, V)
                                 /\ \E d \in 1..k : /\ network[d].tail = network[e].tail
                                                    /\ network[d].head = network[e].head
    BY DEF Matched
  <1>2. \A u \in U, v \in V : /\ FlowOf(Between({u}, {v})) >= 0
                              /\ Z => FlowOf(Between({u}, {v})) = 0
    OBVIOUS
  <1>3. \A k : FlowOf(M(k)) \in Int
    BY FlowInt
  <1> HIDE DEF Z, M
  <1> DEFINE P == {k \in 0..N : FlowOf(M(k)) >= 0 /\ (Z => FlowOf(M(k)) = 0)}
  <1>4. 0 \in P
    <2>1. \A e \in EdgeIndices : e \notin M(0)
      BY <1>1
    <2>2. FlowOf(M(0)) = 0
      BY <2>1, FlowNone
    <2> QED
      BY <1>0, <2>2
  <1>5. ASSUME NEW k \in 1..N, k - 1 \in P PROVE k \in P
    <2> DEFINE A == M(k - 1)
               B == M(k)
               t == network[k].tail
               h == network[k].head
               C == Between({t}, {h})
    <2>0. FlowOf(A) >= 0 /\ (Z => FlowOf(A) = 0) /\ FlowOf(A) \in Int /\ k \in 0..N
      BY <1>3, <1>5
    <2>1. \A d : d \in 1..k <=> d \in 1..(k - 1) \/ d = k
      OBVIOUS
    <2>2. \A e : e \in B <=> e \in A \/ (e \in Between(U, V) /\ e \in C)
      <3>1. \A e : e \in Between(U, V) => (e \in C <=> network[e].tail = t /\ network[e].head = h)
        BY BetweenEdges
      <3> HIDE DEF C
      <3> QED
        BY <1>1, <2>1, <3>1 DEF A, B, t, h
    <2>3. k \in EdgeIndices /\ k \in C
      BY <1>0, BetweenEdges
    <2>4. CASE t \notin U \/ h \notin V
      <3>1. \A e \in EdgeIndices : e \in B <=> e \in A
        BY <2>2, <2>4, BetweenEdges
      <3>2. FlowOf(B) = FlowOf(A)
        BY <3>1, FlowSame
      <3> QED
        BY <2>0, <3>2
    <2>5. CASE t \in U /\ h \in V /\ \E d \in 1..(k - 1) : network[d].tail = t /\ network[d].head = h
      <3>1. \A e : e \in C => e \in Between(U, V) /\ network[e].tail = t /\ network[e].head = h
        BY <2>5, BetweenEdges
      <3>2. \A e : e \in C => e \in A
        BY <1>1, <2>5, <3>1
      <3>3. FlowOf(B) = FlowOf(A)
        BY <2>2, <3>2, FlowSame
      <3> QED
        BY <2>0, <3>3
    <2>6. CASE t \in U /\ h \in V /\ ~\E d \in 1..(k - 1) : network[d].tail = t /\ network[d].head = h
      <3>1. \A e : e \in C => e \in Between(U, V) /\ network[e].tail = t /\ network[e].head = h
        BY <2>6, BetweenEdges
      <3>2. \A e : e \in C => e \notin A
        BY <1>1, <2>6, <3>1
      <3>3. FlowOf(B) = FlowOf(A) + FlowOf(C)
        <4>1. \A e \in EdgeIndices : /\ e \in B <=> e \in A \/ e \in C
                                     /\ ~(e \in A /\ e \in C)
          BY <2>2, <3>1, <3>2
        <4> HIDE DEF A, B, C
        <4> QED
          BY <4>1, FlowSplits
      <3>4. FlowOf(C) >= 0 /\ (Z => FlowOf(C) = 0) /\ FlowOf(C) \in Int
        BY <1>2, <2>6, FlowInt
      <3> HIDE DEF A, B, C
      <3>5. FlowOf(B) >= 0 /\ (Z => FlowOf(B) = 0)
        BY <2>0, <3>3, <3>4
      <3> QED
        BY <2>0, <3>5 DEF B
    <2> QED
      BY <2>4, <2>5, <2>6
  <1>6. \A k \in 0..N : k \in P
    <2> HIDE DEF P, N
    <2> QED
      BY <1>0, <1>4, <1>5, RoundInduction
  <1>7. FlowOf(M(N)) >= 0 /\ (Z => FlowOf(M(N)) = 0)
    BY <1>0, <1>6
  <1>8. FlowOf(M(N)) = FlowOf(Between(U, V))
    <2>1. \A e \in EdgeIndices : e \in M(N) <=> e \in Between(U, V)
      BY <1>0, <1>1
    <2> QED
      BY <2>1, FlowSame
  <1> QED
    BY <1>7, <1>8 DEF Z

(***************************************************************************)
(* Every cut has at least the total as its capacity, and the total exactly *)
(* if what crosses it is used up and nothing flows back.                   *)
(***************************************************************************)
LEMMA CutsBound ==
  ASSUME GraphTyped, CancellableIsPairFlow, Conserved, total \in Int,
         NEW S, S \subseteq Node, Source \in S, Sink \notin S
  PROVE  LET T == Node \ S IN
         /\ CapacityOf(Between(S, T)) \in Int
         /\ total <= CapacityOf(Between(S, T))
         /\ (\A e \in EdgeIndices : e \in Between(S, T) => residual[e] = 0)
              /\ (\A u \in T, v \in S : reverse[<<v, u>>] = 0)
            => total = CapacityOf(Between(S, T))
  <1> DEFINE T == Node \ S
             over == FlowOf(Between(S, T))
             back == FlowOf(Between(T, S))
             cap == CapacityOf(Between(S, T))
  <1>1. \A y : y \in T <=> y \in Node /\ y \notin S
    OBVIOUS
  <1>2. total = over - back
    BY NetIsTotal, NetCrosses
  <1>3. \A u \in T, v \in S : FlowOf(Between({u}, {v})) = reverse[<<v, u>>] /\ reverse[<<v, u>>] \in Nat
    BY <1>1 DEF CancellableIsPairFlow, GraphTyped
  <1> HIDE DEF T
  <1>4. /\ back >= 0
        /\ (\A u \in T, v \in S : reverse[<<v, u>>] = 0) => back = 0
    <2>1. ASSUME NEW u \in T, NEW v \in S PROVE FlowOf(Between({u}, {v})) >= 0
      <3> DEFINE f == FlowOf(Between({u}, {v}))
      <3>1. f \in Nat
        BY <1>3
      <3> HIDE DEF f
      <3>2. f >= 0
        BY <3>1
      <3> QED
        BY <3>2 DEF f
    <2>2. T \subseteq Node
      BY <1>1
    <2>3. /\ back >= 0
          /\ (\A u \in T, v \in S : FlowOf(Between({u}, {v})) = 0) => back = 0
      BY <2>1, <2>2, FlowByPairs
    <2> QED
      BY <1>3, <2>3
  <1>5. /\ over \in Int /\ cap \in Int /\ over <= cap
        /\ (\A e \in EdgeIndices : e \in Between(S, T) => residual[e] = 0) => over = cap
    <2>1. residual \in [EdgeIndices -> Nat] /\ over = FlowWith(Between(S, T), residual)
      BY FlowIsWith DEF GraphTyped
    <2> QED
      BY <2>1, FlowBounded
  <1>6. back \in Int
    BY FlowInt
  <1>7. /\ cap \in Int /\ total <= cap
        /\ (\A e \in EdgeIndices : e \in Between(S, T) => residual[e] = 0)
             /\ (\A u \in T, v \in S : reverse[<<v, u>>] = 0)
           => total = cap
    <2> HIDE DEF over, back, cap
    <2> QED
      BY <1>2, <1>4, <1>5, <1>6
  <1> QED
    BY <1>7 DEF T

-----------------------------------------------------------------------------
(***************************************************************************)
(* The inductive invariant.  A node that was found is still queued, or it  *)
(* is not the sink and the search has taken every step that it offers.     *)
(***************************************************************************)
Covered ==
  \A n \in Found : Queued(queue, n) \/ (n # Sink /\ Exhaustive(n, Found))

Flowing ==
  /\ TypeOK
  /\ network \in Networks
  /\ Sound(TheSearch)
  /\ Covered
  /\ CancellableIsPairFlow
  /\ Conserved
  /\ done => queue = <<>>

(***************************************************************************)
(* The typing facts that the lemmas use: those of the network.             *)
(***************************************************************************)
LEMMA NetworkTyped ==
  ASSUME network \in Networks
  PROVE  /\ Len(network) \in Nat /\ EdgeIndices = 1..Len(network)
         /\ \A e \in EdgeIndices : /\ network[e].tail \in Node
                                   /\ network[e].head \in Node
                                   /\ network[e].capacity \in Nat
  <1> DEFINE S == [tail : Node, head : Node, capacity : Nat]
  <1>1. network \in Seq(S)
    BY NetworkAssumption
  <1>2. \A x \in S : x.tail \in Node /\ x.head \in Node /\ x.capacity \in Nat
    OBVIOUS
  <1> HIDE DEF S
  <1>3. Len(network) \in Nat /\ DOMAIN network = 1..Len(network)
    BY <1>1
  <1>4. \A e \in DOMAIN network : network[e] \in S
    BY <1>1, <1>3
  <1> QED
    BY <1>2, <1>3, <1>4 DEF EdgeIndices

(***************************************************************************)
(* And with them those of the residuals.                                   *)
(***************************************************************************)
LEMMA FlowingTyped ==
  ASSUME TypeOK, network \in Networks PROVE GraphTyped /\ total \in Int
  BY NetworkTyped DEF TypeOK, GraphTyped

(***************************************************************************)
(* A search that has only been started is sound, whatever the residuals.   *)
(***************************************************************************)
LEMMA StartSound ==
  ASSUME NEW s, s = [queue |-> <<Source>>, visited |-> <<>>]
  PROVE  Sound(s) /\ Sound(s)'
  <1>1. s.queue = <<Source>> /\ s.visited = <<>> /\ DOMAIN s.visited = {} /\ FoundBy(s) = {Source}
    BY DEF FoundBy
  <1>2. s \in Searches
    <2>1. s.queue \in Seq(Node)
      BY <1>1, NetworkAssumption
    <2>2. s.visited = [n \in DOMAIN s.visited |-> s.visited[n]]
      BY <1>1
    <2>3. s = [queue |-> s.queue, visited |-> s.visited]
      OBVIOUS
    <2>4. /\ DOMAIN s.visited \subseteq Node \ {Source}
          /\ \A n \in DOMAIN s.visited : s.visited[n] \in Steps
      BY <1>1
    <2> QED
      BY <2>1, <2>2, <2>3, <2>4, SearchParts
  <1>3. \E rank, m : Ranks(s, rank, m)
    <2>1. Ranks(s, [n \in {Source} |-> 0], 0)
      BY <1>1 DEF Ranks
    <2> QED
      BY <2>1
  <1>4. \A k \in DOMAIN s.queue : s.queue[k] \in FoundBy(s)
    BY <1>1
  <1> QED
    BY <1>1, <1>2, <1>3, <1>4 DEF Sound

(***************************************************************************)
(* A search stays sound while the residuals and the cancellable flow stay. *)
(***************************************************************************)
LEMMA SoundKept ==
  ASSUME NEW s, Sound(s), UNCHANGED <<network, residual, reverse>>
  PROVE  Sound(s)'
  <1>1. ASSUME NEW x, Runs(x) PROVE Runs(x)'
    BY <1>1 DEF Runs, EdgeIndices, Forward
  <1>2. /\ s \in Searches
        /\ \A n \in DOMAIN s.visited : /\ Runs(s.visited[n])
                                       /\ s.visited[n].to = n
                                       /\ s.visited[n].from \in FoundBy(s)
        /\ \A k \in DOMAIN s.queue : s.queue[k] \in FoundBy(s)
        /\ \E rank, m : Ranks(s, rank, m)
    BY DEF Sound
  <1>3. \A n \in DOMAIN s.visited : Runs(s.visited[n])'
    BY <1>1, <1>2
  <1> QED
    BY <1>2, <1>3 DEF Sound

(***************************************************************************)
(* Flow, too, depends on nothing else.                                     *)
(***************************************************************************)
LEMMA FlowKept ==
  ASSUME CancellableIsPairFlow, Conserved, UNCHANGED <<network, residual, reverse, total>>
  PROVE  CancellableIsPairFlow' /\ Conserved'
  <1>1. \A E : FlowOf(E)' = FlowOf(E) /\ CapacityOf(E)' = CapacityOf(E)
    BY DEF FlowOf, CapacityOf, EdgeFlow, EdgeIndices
  <1>2. \A U, V : Between(U, V)' = Between(U, V)
    BY DEF Between, EdgeIndices
  <1>3. CancellableIsPairFlow'
    BY <1>1, <1>2 DEF CancellableIsPairFlow
  <1>4. Conserved'
    BY <1>1, <1>2 DEF Conserved
  <1> QED
    BY <1>3, <1>4

(***************************************************************************)
(* Init.                                                                   *)
(***************************************************************************)
LEMMA InitFlowing == Init => Flowing
  <1> SUFFICES ASSUME Init PROVE Flowing
    OBVIOUS
  <1>2. \A e \in EdgeIndices : network[e].capacity \in Nat
    BY NetworkTyped DEF Init
  <1>3. TypeOK
    <2>1. residual \in [EdgeIndices -> Nat]
      BY <1>2 DEF Init
    <2>2. reverse \in [Node \X Node -> Nat]
      BY DEF Init
    <2>3. queue \in Seq(Node) /\ visited = <<>> /\ DOMAIN visited = {}
      BY NetworkAssumption DEF Init
    <2>4. total \in Nat /\ shortest \in Nat /\ done \in BOOLEAN
      BY DEF Init
    <2> QED
      BY <2>1, <2>2, <2>3, <2>4 DEF TypeOK
  <1>4. network \in Networks
    BY DEF Init
  <1>5. Sound(TheSearch)
    <2>1. TheSearch = [queue |-> <<Source>>, visited |-> <<>>]
      BY DEF TheSearch, Init
    <2> QED
      BY <2>1, StartSound
  <1>6. Covered
    <2>1. Found = {Source} /\ queue = <<Source>>
      BY DEF Init, Found
    <2>2. Queued(queue, Source)
      BY <2>1 DEF Queued
    <2> QED
      BY <2>1, <2>2 DEF Covered
  <1>7. GraphTyped
    BY <1>3, <1>4, FlowingTyped
  <1>8. \A E : FlowOf(E) = 0
    <2> TAKE E
    <2> DEFINE N == Len(network)
               a == [e \in EdgeIndices |-> EdgeFlow(e)]
    <2>1. N \in Nat /\ EdgeIndices = 1..N
      BY <1>7 DEF GraphTyped
    <2>2. \A k \in 1..N : a[k] = 0
      BY <2>1, <1>2 DEF Init, EdgeFlow
    <2>3. FlowOf(E) = SumOf(N, E, a)
      BY DEF FlowOf
    <2> HIDE DEF a, N
    <2>4. \A k \in 1..N : a[k] \in Int /\ Term(E, a, k) = 0
      BY <2>2 DEF Term
    <2>5. N \in Nat
      BY <2>1
    <2> QED
      BY <2>3, <2>4, <2>5, SumZero
  <1>9. CancellableIsPairFlow
    <2>1. \A u, v \in Node : reverse[<<v, u>>] = 0
      BY DEF Init
    <2>2. \A E : 0 <= CapacityOf(E)
      <3>1. residual \in [EdgeIndices -> Nat]
        BY <1>7 DEF GraphTyped
      <3> QED
        BY <1>7, <1>8, <3>1, FlowBounded, FlowIsWith
    <2> QED
      BY <1>8, <2>1, <2>2 DEF CancellableIsPairFlow
  <1>10. Conserved
    <2>1. total = 0
      BY DEF Init
    <2> QED
      BY <1>8, <2>1 DEF Conserved
  <1>11. done = FALSE
    BY DEF Init
  <1> QED
    BY <1>3, <1>4, <1>5, <1>6, <1>9, <1>10, <1>11 DEF Flowing

(***************************************************************************)
(* Visit: the search goes on from the node taken from the queue.           *)
(***************************************************************************)
LEMMA VisitFlowing ==
  ASSUME Flowing, Visit PROVE Flowing'
  <1> DEFINE n == Head(queue)
             s == [queue |-> Tail(queue), visited |-> visited]
  <1>0. GraphTyped /\ total \in Int
    BY FlowingTyped DEF Flowing
  <1>1. /\ queue # <<>> /\ n # Sink /\ done = FALSE
        /\ UNCHANGED <<network, residual, reverse, total, done, shortest>>
    BY DEF Visit, Flowing, TypeOK
  <1>2. queue \in Seq(Node) /\ Len(queue) \in Nat /\ Len(queue) > 0 /\ DOMAIN queue = 1..Len(queue)
    BY <1>1 DEF Flowing, TypeOK
  <1>3. /\ Tail(queue) \in Seq(Node)
        /\ \A k \in DOMAIN Tail(queue) : k + 1 \in DOMAIN queue /\ Tail(queue)[k] = queue[k + 1]
        /\ \A k \in DOMAIN queue : k = 1 \/ (k - 1 \in DOMAIN Tail(queue) /\ Tail(queue)[k - 1] = queue[k])
        /\ n = queue[1]
    BY <1>2
  <1>4. /\ TheSearch.queue = queue /\ TheSearch.visited = visited
        /\ s.queue = Tail(queue) /\ s.visited = visited
        /\ FoundBy(TheSearch) = Found /\ FoundBy(s) = Found
    BY DEF TheSearch, FoundBy, Found
  <1>5. Sound(TheSearch)
    BY DEF Flowing
  <1>6. Sound(s)
    <2>1. s \in Searches
      <3>1. /\ DOMAIN visited \subseteq Node \ {Source}
            /\ visited = [m \in DOMAIN visited |-> visited[m]]
            /\ \A m \in DOMAIN visited : visited[m] \in Steps
        <4>1. TheSearch \in Searches
          BY <1>5 DEF Sound
        <4>2. /\ DOMAIN TheSearch.visited \subseteq Node \ {Source}
              /\ TheSearch.visited = [m \in DOMAIN TheSearch.visited |-> TheSearch.visited[m]]
              /\ \A m \in DOMAIN TheSearch.visited : TheSearch.visited[m] \in Steps
          BY <4>1, SearchParts
        <4> QED
          BY <1>4, <4>2, Zenon
      <3>2. s = [queue |-> s.queue, visited |-> s.visited]
        BY <1>4
      <3> QED
        BY <1>3, <1>4, <3>1, <3>2, SearchParts
    <2>2. \A m \in DOMAIN visited : /\ Runs(visited[m])
                                    /\ visited[m].to = m
                                    /\ visited[m].from \in Found
      BY <1>4, <1>5 DEF Sound
    <2>3. \A k \in DOMAIN queue : queue[k] \in Found
      BY <1>4, <1>5 DEF Sound
    <2>4. PICK rank, m : Ranks(TheSearch, rank, m)
      BY <1>5 DEF Sound
    <2>5. Ranks(s, rank, m)
      BY <1>4, <2>4 DEF Ranks
    <2> HIDE DEF s
    <2>6. \A k \in DOMAIN s.queue : s.queue[k] \in Found
      BY <1>3, <1>4, <2>3
    <2> QED
      BY <1>4, <2>1, <2>2, <2>5, <2>6 DEF Sound
  <1>7. n \in FoundBy(s)
    <2>1. 1 \in DOMAIN queue
      BY <1>2
    <2> QED
      BY <1>3, <1>4, <1>5, <2>1 DEF Sound
  <1>8. PICK t : t = Expand(s, n)
    OBVIOUS
  <1>9. queue' = t.queue /\ visited' = t.visited
    BY <1>8 DEF Visit
  <1> HIDE DEF s, n
  <1>10. Sound(t) /\ Further(s, t) /\ Exhaustive(n, FoundBy(t))
    BY <1>0, <1>6, <1>7, <1>8, ExpandFinds
  <1>11. /\ t = [queue |-> t.queue, visited |-> t.visited]
         /\ t.queue \in Seq(Node) /\ DOMAIN t.visited \subseteq Node \ {Source}
         /\ \A m \in DOMAIN t.visited : t.visited[m].to = m
    BY <1>10, SearchParts DEF Sound
  <1>12. TheSearch' = t /\ Found' = FoundBy(t)
    BY <1>9, <1>11 DEF TheSearch, Found, FoundBy
  <1>13. Sound(TheSearch)'
    <2>1. Sound(t)'
      BY <1>1, <1>10, SoundKept
    <2> QED
      BY <1>12, <2>1
  <1>14. TypeOK'
    BY <1>1, <1>9, <1>11 DEF TypeOK, Flowing, EdgeIndices
  <1>15. \A m : Exhaustive(m, FoundBy(t)) => Exhaustive(m, Found)'
    BY <1>1, <1>12 DEF Exhaustive, AlongTo, AgainstTo, EdgeIndices
  <1>16. ASSUME NEW m \in FoundBy(t)
         PROVE  Queued(t.queue, m) \/ (m # Sink /\ Exhaustive(m, FoundBy(t)))
    <2>1. CASE Queued(t.queue, m)
      BY <2>1
    <2>2. CASE m \in Found /\ ~Queued(queue, m)
      <3>1. m # Sink /\ Exhaustive(m, Found)
        BY <2>2 DEF Flowing, Covered
      <3>2. Found \subseteq FoundBy(t)
        BY <1>4, <1>10 DEF Further
      <3>3. Exhaustive(m, FoundBy(t))
        BY <3>1, <3>2 DEF Exhaustive, AlongTo, AgainstTo
      <3> QED
        BY <3>1, <3>3
    <2>3. CASE Queued(queue, m) /\ m = n
      BY <1>1, <1>10, <2>3
    <2>4. CASE Queued(queue, m) /\ m # n
      <3>1. Queued(Tail(queue), m)
        BY <1>3, <2>4 DEF Queued
      <3>2. Queued(t.queue, m)
        BY <1>4, <1>10, <3>1 DEF Further
      <3> QED
        BY <3>2
    <2> QED
      BY <1>4, <1>10, <2>1, <2>2, <2>3, <2>4 DEF Further
  <1>17. Covered'
    <2>1. \A m : Queued(queue, m)' <=> Queued(t.queue, m)
      BY <1>9 DEF Queued
    <2> QED
      BY <1>12, <1>15, <1>16, <2>1 DEF Covered
  <1>18. CancellableIsPairFlow' /\ Conserved'
    BY <1>1, FlowKept DEF Flowing
  <1> QED
    BY <1>1, <1>13, <1>14, <1>17, <1>18 DEF Flowing

(***************************************************************************)
(* Augment: the path can take the bottleneck, and another search starts.   *)
(***************************************************************************)
LEMMA AugmentFlowing ==
  ASSUME Flowing, Augment PROVE Flowing'
  <1>0. GraphTyped /\ total \in Nat /\ total \in Int
    BY FlowingTyped DEF Flowing, TypeOK
  <1>1. queue \in Seq(Node) /\ queue # <<>> /\ Head(queue) = Sink
    BY DEF Augment, Flowing, TypeOK
  <1>2. Sink \in DOMAIN visited
    <2>1. 1 \in DOMAIN queue /\ queue[1] = Sink
      BY <1>1
    <2>2. Sink \in FoundBy(TheSearch)
      BY <2>1 DEF Flowing, Sound, TheSearch
    <2> QED
      BY <2>2, NetworkAssumption DEF FoundBy, TheSearch
  <1>3. Augmenting(Path)
    BY <1>2, PathAugments DEF Flowing
  <1>4. PICK p : p = Path
    OBVIOUS
  <1>5. PICK amount : amount = Bottleneck(p)
    OBVIOUS
  <1>6. Augmenting(p) /\ amount \in Nat /\ amount > 0
    BY <1>0, <1>3, <1>4, <1>5, BottleneckBounds
  <1>7. /\ residual' = PushResidual(p, amount) /\ reverse' = PushReverse(p, amount)
        /\ total' = total + amount /\ done' = FALSE /\ shortest' = Len(p)
        /\ queue' = <<Source>> /\ visited' = <<>> /\ network' = network
    <2>1. /\ residual' = PushResidual(p, amount) /\ reverse' = PushReverse(p, amount)
          /\ total' = total + amount /\ done' = (amount = 0) /\ shortest' = Len(p)
          /\ queue' = <<Source>> /\ visited' = <<>> /\ network' = network
      BY <1>4, <1>5, Zenon DEF Augment
    <2>2. ~(amount = 0)
      BY <1>6
    <2>3. done' = FALSE
      BY <2>1, <2>2
    <2> QED
      BY <2>1, <2>3
  <1>8. residual' \in [EdgeIndices -> Nat] /\ reverse' \in [Node \X Node -> Nat]
    BY <1>0, <1>5, <1>6, <1>7, ResidualsPushed, ReversePushed
  <1>9. TypeOK'
    <2>1. Len(p) \in Nat
      BY <1>6 DEF Augmenting
    <2>2. queue' \in Seq(Node) /\ DOMAIN visited' = {}
      BY <1>7, NetworkAssumption
    <2>3. EdgeIndices' = EdgeIndices
      BY <1>7 DEF EdgeIndices
    <2>4. total' \in Nat /\ done' \in BOOLEAN
      <3>1. total' = total + amount /\ total \in Nat /\ amount \in Nat
        BY <1>0, <1>6, <1>7
      <3>2. total' \in Nat
        BY <3>1
      <3>3. done' = FALSE
        BY <1>7
      <3>4. done' \in BOOLEAN
        BY <3>3, Zenon
      <3> QED
        BY <3>2, <3>4
    <2> QED
      BY <1>7, <1>8, <2>1, <2>2, <2>3, <2>4 DEF TypeOK
  <1>10. Sound(TheSearch)'
    <2>1. TheSearch' = [queue |-> <<Source>>, visited |-> <<>>]
      BY <1>7 DEF TheSearch
    <2> QED
      BY <2>1, StartSound
  <1>11. Covered'
    <2>1. Found' = {Source} /\ queue' = <<Source>>
      BY <1>7 DEF Found
    <2>2. Queued(queue, Source)'
      BY <2>1 DEF Queued
    <2> QED
      BY <2>1, <2>2 DEF Covered
  <1>12. /\ \A E : FlowOf(E)' = FlowWith(E, residual')
         /\ \A E : CapacityOf(E)' = CapacityOf(E)
         /\ \A U, V : Between(U, V)' = Between(U, V)
    <2>1. network' = network /\ EdgeIndices' = EdgeIndices /\ EdgeIndices = 1..Len(network)
      BY <1>0, <1>7 DEF EdgeIndices, GraphTyped
    <2>2. [e \in EdgeIndices |-> EdgeFlow(e)]'
            = [e \in 1..Len(network) |-> network[e].capacity - residual'[e]]
      BY <2>1 DEF EdgeFlow
    <2>3. \A E : FlowOf(E)' = FlowWith(E, residual')
      BY <2>1, <2>2 DEF FlowOf, FlowWith
    <2>4. \A E : CapacityOf(E)' = CapacityOf(E)
      BY <2>1 DEF CapacityOf
    <2>5. \A U, V : Between(U, V)' = Between(U, V)
      BY <2>1 DEF Between
    <2> QED
      BY <2>3, <2>4, <2>5
  <1>13. CancellableIsPairFlow'
    <2>1. ASSUME NEW u \in Node, NEW v \in Node, u # v
          PROVE  /\ reverse'[<<v, u>>] = FlowWith(Between({u}, {v}), residual')
                 /\ reverse'[<<v, u>>] <= CapacityOf(Between({u}, {v}))
      <3>1. reverse'[<<v, u>>] = FlowWith(Between({u}, {v}), residual')
        BY <1>0, <1>5, <1>6, <1>7, <2>1, PairsKept DEF Flowing
      <3>2. FlowWith(Between({u}, {v}), residual') <= CapacityOf(Between({u}, {v}))
        BY <1>0, <1>8, FlowBounded
      <3> QED
        BY <3>1, <3>2
    <2> QED
      BY <1>12, <2>1 DEF CancellableIsPairFlow
  <1>14. Conserved'
    <2>1. ASSUME NEW n \in Node
          PROVE  FlowWith(Between({n}, Node), residual') - FlowWith(Between(Node, {n}), residual')
                   = CASE n = Source -> total'
                       [] n = Sink   -> -total'
                       [] OTHER      -> 0
      <3>1. NetWith(n, residual') = CASE n = Source -> total + amount
                                      [] n = Sink   -> -(total + amount)
                                      [] OTHER      -> 0
        BY <1>0, <1>5, <1>6, <1>7, BalanceKept DEF Flowing
      <3> QED
        BY <1>7, <3>1 DEF NetWith
    <2> QED
      BY <1>12, <2>1 DEF Conserved
  <1> QED
    BY <1>7, <1>9, <1>10, <1>11, <1>13, <1>14 DEF Flowing

(***************************************************************************)
(* The steps that change nothing but done, or nothing at all.              *)
(***************************************************************************)
LEMMA IdleFlowing ==
  ASSUME Flowing,
         UNCHANGED <<network, residual, reverse, total, queue, visited, shortest>>,
         done' \in BOOLEAN, done' => queue = <<>>
  PROVE  Flowing'
  <1>1. TypeOK'
    BY DEF Flowing, TypeOK, EdgeIndices
  <1>2. Sound(TheSearch)'
    <2>1. PICK s : s = TheSearch
      OBVIOUS
    <2>2. TheSearch' = s
      BY <2>1 DEF TheSearch
    <2>3. Sound(s)'
      BY <2>1, SoundKept DEF Flowing
    <2> QED
      BY <2>2, <2>3
  <1>3. Covered'
    BY DEF Flowing, Covered, Found, Queued, Exhaustive, AlongTo, AgainstTo, EdgeIndices
  <1>4. CancellableIsPairFlow' /\ Conserved'
    BY FlowKept DEF Flowing
  <1> QED
    BY <1>1, <1>2, <1>3, <1>4 DEF Flowing

(***************************************************************************)
(* Every reachable state is Flowing.                                       *)
(***************************************************************************)
LEMMA NextFlowing ==
  ASSUME Flowing, [Next]_vars PROVE Flowing'
  <1>1. CASE Visit
    BY <1>1, VisitFlowing
  <1>2. CASE Augment
    BY <1>2, AugmentFlowing
  <1>3. CASE NoPath
    BY <1>3, IdleFlowing DEF NoPath
  <1>4. CASE Exhausted \/ UNCHANGED vars
    <2>1. UNCHANGED vars
      BY <1>4 DEF Exhausted
    <2>2. /\ UNCHANGED <<network, residual, reverse, total, queue, visited, shortest>>
          /\ done' = done
      BY <2>1 DEF vars
    <2>3. done' \in BOOLEAN /\ (done' => queue = <<>>)
      BY <2>2 DEF Flowing, TypeOK
    <2> QED
      BY <2>2, <2>3, IdleFlowing
  <1> QED
    BY <1>1, <1>2, <1>3, <1>4 DEF Next

(***************************************************************************)
(* When the iterator is done, no cut has a smaller capacity than the       *)
(* total, and the nodes that the last search found form a cut of just      *)
(* that capacity.                                                          *)
(***************************************************************************)
LEMMA FlowingMaximum ==
  ASSUME Flowing PROVE Maximum
  <1> SUFFICES ASSUME done
               PROVE  LET cuts == {S \in SUBSET Node : Source \in S /\ Sink \notin S}
                      IN total = Min({CapacityOf(Between(S, Node \ S)) : S \in cuts})
    BY DEF Maximum
  <1>0. GraphTyped /\ total \in Int /\ CancellableIsPairFlow /\ Conserved
    BY FlowingTyped DEF Flowing
  <1>1. \A n \in Found : n # Sink /\ Exhaustive(n, Found)
    BY DEF Flowing, Covered, Queued
  <1>2. Found \subseteq Node /\ Source \in Found /\ Sink \notin Found
    <2>1. DOMAIN visited \subseteq Node
      BY DEF Flowing, TypeOK
    <2> QED
      BY <1>1, <2>1, NetworkAssumption DEF Found
  <1> DEFINE cuts == {S \in SUBSET Node : Source \in S /\ Sink \notin S}
             cap(S) == CapacityOf(Between(S, Node \ S))
             caps == {cap(S) : S \in cuts}
  <1>3. \A S \in cuts : cap(S) \in Int /\ total <= cap(S)
    BY <1>0, CutsBound
  <1>4. total = cap(Found)
    <2>1. \A e \in EdgeIndices : e \in Between(Found, Node \ Found) => residual[e] = 0
      <3> SUFFICES ASSUME NEW e \in EdgeIndices, e \in Between(Found, Node \ Found)
                   PROVE  residual[e] = 0
        OBVIOUS
      <3>1. network[e].tail \in Found /\ network[e].head \notin Found
        BY DEF Between
      <3>2. AlongTo(e, network[e].tail, Found)
        BY <1>1, <3>1 DEF Exhaustive
      <3>3. ~(residual[e] > 0) /\ residual[e] \in Nat
        BY <1>0, <3>1, <3>2 DEF AlongTo, GraphTyped
      <3> QED
        BY <3>3
    <2>2. \A u \in Node \ Found, v \in Found : reverse[<<v, u>>] = 0
      <3> SUFFICES ASSUME NEW u \in Node \ Found, NEW v \in Found
                   PROVE  reverse[<<v, u>>] = 0
        OBVIOUS
      <3>1. v \in Node /\ u \in Node /\ u # v /\ u \notin Found
        BY <1>2
      <3>2. reverse[<<v, u>>] = FlowOf(Between({u}, {v})) /\ reverse[<<v, u>>] \in Nat
        BY <1>0, <3>1 DEF CancellableIsPairFlow, GraphTyped
      <3>3. CASE \E e \in EdgeIndices : network[e].tail = u /\ network[e].head = v
        <4>1. PICK e \in EdgeIndices : network[e].tail = u /\ network[e].head = v
          BY <3>3
        <4>2. AgainstTo(e, v, Found)
          BY <1>1 DEF Exhaustive
        <4>3. ~(reverse[<<v, u>>] > 0)
          BY <3>1, <4>1, <4>2 DEF AgainstTo
        <4> QED
          BY <3>2, <4>3
      <3>4. CASE ~\E e \in EdgeIndices : network[e].tail = u /\ network[e].head = v
        <4>1. \A e \in EdgeIndices : e \notin Between({u}, {v})
          BY <3>4, BetweenEdges
        <4>2. FlowOf(Between({u}, {v})) = 0
          BY <1>0, <4>1, FlowNone
        <4> QED
          BY <3>2, <4>2
      <3> QED
        BY <3>3, <3>4
    <2> QED
      BY <1>0, <1>2, <2>1, <2>2, CutsBound
  <1>5. Found \in cuts
    BY <1>2
  <1> HIDE DEF cuts, cap
  <1>6. total \in caps /\ \A y \in caps : total <= y /\ y \in Int
    BY <1>3, <1>4, <1>5
  <1> HIDE DEF caps
  <1>7. total = Min(caps)
    <2> DEFINE m == Min(caps)
    <2>1. m \in caps /\ \A y \in caps : m <= y
      BY <1>6, Zenon DEF Min
    <2> HIDE DEF m
    <2>2. m <= total /\ total <= m /\ m \in Int
      BY <1>6, <2>1
    <2>3. m = total
      BY <1>0, <2>2
    <2> QED
      BY <2>3 DEF m
  <1> QED
    BY <1>7 DEF cuts, cap, caps

(***************************************************************************)
(* The invariant holds throughout: edmonds_karp_with_flows_unchecked       *)
(* establishes it and EdmondsKarpFlows::next keeps it.                     *)
(***************************************************************************)
LEMMA AlwaysFlowing == Spec => []Flowing
  <1>1. Init => Flowing
    BY InitFlowing
  <1>2. Flowing /\ [Next]_vars => Flowing'
    BY NextFlowing
  <1> QED
    BY <1>1, <1>2, PTL DEF Spec

(***************************************************************************)
(* Residual capacities and cancellable amounts never fall below zero (the  *)
(* code subtracts the bottleneck from them), the queue holds nodes only    *)
(* and every step in visited leads to the node it is kept for.             *)
(***************************************************************************)
THEOREM ResidualsStayNatural == Spec => []TypeOK
  <1>1. Flowing => TypeOK
    BY DEF Flowing
  <1> QED
    BY <1>1, AlwaysFlowing, PTL

(***************************************************************************)
(* What flow_map has for a pair of nodes is the flow of its edges: the     *)
(* books per pair and per edge agree after every augmentation.             *)
(***************************************************************************)
THEOREM BooksAgree == Spec => []CancellableIsPairFlow
  <1>1. Flowing => CancellableIsPairFlow
    BY DEF Flowing
  <1> QED
    BY <1>1, AlwaysFlowing, PTL

(***************************************************************************)
(* Every node but the ends passes on what it receives, and total_flow is   *)
(* what leaves Source and reaches Sink.                                    *)
(***************************************************************************)
THEOREM FlowConserved == Spec => []Conserved
  <1>1. Flowing => Conserved
    BY DEF Flowing
  <1> QED
    BY <1>1, AlwaysFlowing, PTL

(***************************************************************************)
(* When next returns None, total_flow is the capacity of a minimum cut,    *)
(* for every network and every order in which it lists its edges.          *)
(***************************************************************************)
THEOREM MaxFlowMinCut == Spec => []Maximum
  <1>1. Flowing => Maximum
    BY FlowingMaximum
  <1> QED
    BY <1>1, AlwaysFlowing, PTL
=============================================================================
