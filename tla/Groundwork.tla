----------------------------- MODULE Groundwork -----------------------------
(***************************************************************************)
(* Lemmas that the proofs about several components rest on: induction and  *)
(* iteration, and what an insertion and a removal leave of a collection.   *)
(*                                                                         *)
(* A loop of the code is modelled as a function from the number of its     *)
(* rounds to the value it has then,                                        *)
(*                                                                         *)
(*    f[k \in 0..n] == IF k = 0 THEN b ELSE Step(f[k - 1], k)              *)
(*                                                                         *)
(* which stands for CHOOSE f : f = [k \in 0..n |-> ...]: a fact about f    *)
(* needs first that there is such a function.  The induction principles    *)
(* here take a set where a textbook has a predicate, and rest on           *)
(* well-foundedness of the naturals.                                       *)
(***************************************************************************)
EXTENDS Collections, Sequences, FiniteSetsExt, FiniteSetTheorems, WellFoundedInduction,
        TLAPS

-----------------------------------------------------------------------------
(***************************************************************************)
(* A set of naturals that is not empty has a least element.                *)
(***************************************************************************)
LEMMA LeastNatural ==
  ASSUME NEW S, S \subseteq Nat, S # {}
  PROVE  \E m \in S : \A k \in S : m <= k
  <1>1. IsWellFoundedOn(OpToRel(<, Nat), Nat)
    BY NatLessThanWellFounded
  <1>2. PICK m \in S : \A k \in S : ~ (<<k, m>> \in OpToRel(<, Nat))
    BY <1>1, WFMin
  <1>3. \A k \in S : ~(k < m)
    BY <1>2 DEF OpToRel
  <1> QED
    BY <1>3

(***************************************************************************)
(* Induction on the rounds of a loop.                                      *)
(***************************************************************************)
LEMMA RoundInduction ==
  ASSUME NEW n \in Nat, NEW S, 0 \in S,
         \A k \in 1..n : k - 1 \in S => k \in S
  PROVE  \A k \in 0..n : k \in S
  <1> DEFINE T == {k \in 0..n : k \notin S}
  <1>1. ASSUME T # {} PROVE FALSE
    <2>0. T \subseteq Nat
      OBVIOUS
    <2>1. PICK m \in T : \A k \in T : m <= k
      <3> HIDE DEF T
      <3> QED
        BY <1>1, <2>0, LeastNatural
    <2>2. m \in 1..n /\ m - 1 \in 0..n /\ ~(m <= m - 1)
      BY <2>1
    <2>3. m - 1 \in S
      BY <2>1, <2>2
    <2> QED
      BY <2>1, <2>2, <2>3
  <1> QED
    BY <1>1

(***************************************************************************)
(* Induction over the naturals.                                            *)
(***************************************************************************)
LEMMA SetInduction ==
  ASSUME NEW S, 0 \in S, \A k \in Nat : k \in S => k + 1 \in S
  PROVE  \A k \in Nat : k \in S
  <1>1. SUFFICES ASSUME NEW n \in Nat PROVE n \in S
    OBVIOUS
  <1>2. \A k \in 1..n : k - 1 \in S => k \in S
    <2>1. SUFFICES ASSUME NEW k \in 1..n, k - 1 \in S PROVE k \in S
      OBVIOUS
    <2>2. k - 1 \in Nat /\ k = (k - 1) + 1
      OBVIOUS
    <2> QED
      BY <2>1, <2>2
  <1> QED
    BY <1>2, RoundInduction

-----------------------------------------------------------------------------
(***************************************************************************)
(* f is the loop of n rounds that starts from b and goes from In[k - 1] to *)
(* In[k] by step[k].                                                       *)
(***************************************************************************)
Iterates(f, n, In, b, step) ==
  /\ f = [k \in 0..n |-> f[k]]
  /\ f[0] = b
  /\ \A k \in 1..n : f[k] = step[k][f[k - 1]]
  /\ \A k \in 0..n : f[k] \in In[k]

(***************************************************************************)
(* There is such a loop.                                                   *)
(***************************************************************************)
LEMMA IterationExists ==
  ASSUME NEW n \in Nat, NEW In, NEW b \in In[0], NEW step,
         \A k \in 1..n : \A x \in In[k - 1] : step[k][x] \in In[k]
  PROVE  \E f : Iterates(f, n, In, b, step)
  <1> DEFINE U == UNION {In[k] : k \in 0..n}
             Is(f, m) == /\ f[0] = b
                         /\ \A k \in 1..m : f[k] = step[k][f[k - 1]]
                         /\ \A k \in 0..m : f[k] \in In[k]
             S == {m \in 0..n : \E f \in [0..n -> U] : Is(f, m)}
  <1>1. 0 \in S
    <2> DEFINE f == [k \in 0..n |-> b]
    <2>1. f \in [0..n -> U]
      OBVIOUS
    <2>2. f[0] = b
      OBVIOUS
    <2> HIDE DEF f
    <2>3. Is(f, 0)
      <3>1. \A k \in 0..0 : f[k] \in In[k]
        BY <2>2
      <3> QED
        BY <2>2, <3>1
    <2>4. 0 \in 0..n
      OBVIOUS
    <2> HIDE DEF Is, U
    <2> QED
      BY <2>1, <2>3, <2>4
  <1>2. \A m \in 1..n : m - 1 \in S => m \in S
    <2>1. SUFFICES ASSUME NEW m \in 1..n, m - 1 \in S PROVE m \in S
      OBVIOUS
    <2>2. PICK f \in [0..n -> U] : Is(f, m - 1)
      BY <2>1
    <2>0. \A k \in 0..(m - 1) : k \in 0..n /\ k # m
      <3> HIDE DEF U, Is, S
      <3> QED
        BY <2>1
    <2> DEFINE x == step[m][f[m - 1]]
               g == [k \in 0..n |-> IF k = m THEN x ELSE f[k]]
    <2>3. f[m - 1] \in In[m - 1]
      BY <2>2
    <2>4. x \in In[m]
      BY <2>3
    <2>5. g \in [0..n -> U]
      BY <2>4
    <2>6. \A k \in 0..(m - 1) : g[k] = f[k]
      <3>1. SUFFICES ASSUME NEW k \in 0..(m - 1) PROVE g[k] = f[k]
        OBVIOUS
      <3>2. k \in 0..n /\ k # m
        BY <2>0, <3>1
      <3> QED
        BY <3>2
    <2>7. g[m] = x
      OBVIOUS
    <2>8. g[0] = b
      BY <2>6, <2>2
    <2>9. ASSUME NEW k \in 1..m PROVE g[k] = step[k][g[k - 1]]
      <3>1. CASE k = m
        <4>0. m - 1 \in 0..(m - 1)
          BY <2>1
        <4> HIDE DEF g
        <4>1. g[k - 1] = f[m - 1]
          BY <3>1, <2>6, <4>0
        <4> QED
          BY <3>1, <4>1, <2>7
      <3>2. CASE k # m
        <4>1. k \in 1..(m - 1) /\ k - 1 \in 0..(m - 1) /\ k \in 0..(m - 1)
          BY <2>1, <2>9, <3>2
        <4>2. g[k] = f[k] /\ g[k - 1] = f[k - 1]
          BY <4>1, <2>6
        <4>3. f[k] = step[k][f[k - 1]]
          BY <4>1, <2>2
        <4> HIDE DEF g
        <4> QED
          BY <4>2, <4>3
      <3> QED
        BY <3>1, <3>2
    <2>10. ASSUME NEW k \in 0..m PROVE g[k] \in In[k]
      <3>1. CASE k = m
        BY <3>1, <2>7, <2>4
      <3>2. CASE k # m
        <4>1. k \in 0..(m - 1)
          BY <3>2
        <4> HIDE DEF g
        <4> QED
          BY <4>1, <2>6, <2>2
      <3> QED
        BY <3>1, <3>2
    <2> HIDE DEF g
    <2>11. Is(g, m)
      BY <2>8, <2>9, <2>10
    <2> HIDE DEF Is, U, g, x
    <2>12. m \in 0..n
      BY <2>1
    <2> QED
      BY <2>5, <2>11, <2>12
  <1>3. n \in S
    <2> HIDE DEF S
    <2> QED
      BY <1>1, <1>2, RoundInduction
  <1>4. PICK f \in [0..n -> U] : Is(f, n)
    BY <1>3
  <1>5. f = [k \in 0..n |-> f[k]]
    BY <1>4
  <1>6. Iterates(f, n, In, b, step)
    BY <1>4, <1>5 DEF Iterates
  <1> QED
    BY <1>6

(***************************************************************************)
(* What holds at the beginning and is kept by every round holds all along. *)
(***************************************************************************)
LEMMA IterationStays ==
  ASSUME NEW n \in Nat, NEW f, NEW In, f[0] \in In[0],
         \A k \in 1..n : f[k - 1] \in In[k - 1] => f[k] \in In[k]
  PROVE  \A k \in 0..n : f[k] \in In[k]
  <1> DEFINE S == {k \in 0..n : f[k] \in In[k]}
  <1>1. 0 \in S
    OBVIOUS
  <1>2. \A k \in 1..n : k - 1 \in S => k \in S
    OBVIOUS
  <1>3. \A k \in 0..n : k \in S
    <2> HIDE DEF S
    <2> QED
      BY <1>1, <1>2, RoundInduction
  <1> QED
    BY <1>3

-----------------------------------------------------------------------------
(***************************************************************************)
(* Induction over a finite set: a family with the empty set that can take  *)
(* in any further element has the whole set.                               *)
(***************************************************************************)
LEMMA FiniteInduction ==
  ASSUME NEW S, IsFiniteSet(S), NEW F, {} \in F,
         \A T \in SUBSET S : \A x \in S \ T : T \in F => T \cup {x} \in F
  PROVE  S \in F
  <1> DEFINE N == {k \in Nat : \A T \in SUBSET S : Cardinality(T) = k => T \in F}
  <1>1. 0 \in N
    <2>1. ASSUME NEW T \in SUBSET S, Cardinality(T) = 0 PROVE T = {}
      BY <2>1, FS_Subset, FS_EmptySet
    <2> QED
      BY <2>1
  <1>2. ASSUME NEW k \in Nat, k \in N PROVE k + 1 \in N
    <2>1. SUFFICES ASSUME NEW T \in SUBSET S, Cardinality(T) = k + 1 PROVE T \in F
      BY <1>2
    <2>2. IsFiniteSet(T)
      BY FS_Subset
    <2>3. T # {}
      BY <2>1, <2>2, FS_EmptySet
    <2>4. PICK x \in T : TRUE
      BY <2>3
    <2>5. Cardinality(T \ {x}) = k
      <3>1. Cardinality(T \ {x}) = Cardinality(T) - 1
        BY <2>2, <2>4, FS_RemoveElement
      <3> QED
        BY <2>1, <3>1
    <2>6. T \ {x} \in F
      BY <2>5, <1>2
    <2>7. T = (T \ {x}) \cup {x} /\ T \ {x} \in SUBSET S /\ x \in S \ (T \ {x})
      OBVIOUS
    <2> QED
      BY <2>6, <2>7
  <1>3. Cardinality(S) \in N
    <2>1. Cardinality(S) \in Nat
      BY FS_CardinalityType
    <2> HIDE DEF N
    <2> QED
      BY <1>1, <1>2, <2>1, SetInduction
  <1> QED
    BY <1>3

(***************************************************************************)
(* A finite set of integers that is not empty has a greatest element.      *)
(***************************************************************************)
LEMMA HasMaximum ==
  ASSUME NEW S \in SUBSET Int, IsFiniteSet(S), S # {}
  PROVE  \E m \in S : \A k \in S : k <= m
  <1> DEFINE F == {T \in SUBSET S : T # {} => \E m \in T : \A k \in T : k <= m}
  <1>1. {} \in F
    OBVIOUS
  <1>2. ASSUME NEW T \in SUBSET S, NEW x \in S \ T, T \in F PROVE T \cup {x} \in F
    <2>1. CASE T = {}
      <3>1. \A k \in T \cup {x} : k <= x
        BY <2>1
      <3> QED
        BY <3>1
    <2>2. CASE T # {}
      <3>1. PICK m \in T : \A k \in T : k <= m
        BY <1>2, <2>2
      <3>2. m \in Int /\ x \in Int /\ T \subseteq Int
        OBVIOUS
      <3>3. CASE x <= m
        <4>1. \A k \in T \cup {x} : k <= m
          BY <3>1, <3>3
        <4> QED
          BY <4>1
      <3>4. CASE ~(x <= m)
        <4>1. \A k \in T \cup {x} : k <= x
          BY <3>1, <3>2, <3>4
        <4> QED
          BY <4>1
      <3> QED
        BY <3>3, <3>4
    <2> QED
      BY <2>1, <2>2
  <1>3. S \in F
    <2> HIDE DEF F
    <2> QED
      BY <1>1, <1>2, FiniteInduction
  <1> QED
    BY <1>3

-----------------------------------------------------------------------------
(***************************************************************************)
(* s lists elements of S in ascending order.                               *)
(***************************************************************************)
Rising(s, n, S) == /\ s \in [1..n -> S]
                   /\ \A i, j \in 1..n : i < j => s[i] < s[j]

(***************************************************************************)
(* The elements of a finite set of integers can be listed in ascending     *)
(* order.                                                                  *)
(***************************************************************************)
LEMMA RisingExists ==
  ASSUME NEW S \in SUBSET Int, IsFiniteSet(S)
  PROVE  \E s : Rising(s, Cardinality(S), S)
  <1> DEFINE N == {k \in Nat : \A T \in SUBSET S : Cardinality(T) = k => \E s : Rising(s, k, T)}
  <1>1. 0 \in N
    <2>1. ASSUME NEW T \in SUBSET S PROVE Rising(<<>>, 0, T)
      BY DEF Rising
    <2> QED
      BY <2>1
  <1>2. ASSUME NEW k \in Nat, k \in N PROVE k + 1 \in N
    <2>1. SUFFICES ASSUME NEW T \in SUBSET S, Cardinality(T) = k + 1
                   PROVE  \E s : Rising(s, k + 1, T)
      BY <1>2
    <2>2. IsFiniteSet(T) /\ T # {}
      <3>1. IsFiniteSet(T)
        BY FS_Subset
      <3> QED
        BY <2>1, <3>1, FS_EmptySet
    <2>3. PICK m \in T : \A x \in T : x <= m
      <3>1. T \in SUBSET Int
        OBVIOUS
      <3> QED
        BY <2>2, <3>1, HasMaximum
    <2>4. Cardinality(T \ {m}) = k
      <3>1. Cardinality(T \ {m}) = Cardinality(T) - 1
        BY <2>2, FS_RemoveElement
      <3> QED
        BY <2>1, <3>1
    <2>5. PICK r : Rising(r, k, T \ {m})
      BY <1>2, <2>4
    <2> DEFINE s == [i \in 1..(k + 1) |-> IF i = k + 1 THEN m ELSE r[i]]
    <2>6. \A i \in 1..k : s[i] = r[i] /\ r[i] \in T /\ r[i] # m
      BY <2>5 DEF Rising
    <2>7. s[k + 1] = m
      OBVIOUS
    <2>8. \A i \in 1..(k + 1) : i = k + 1 \/ i \in 1..k
      BY <1>2
    <2>9. s \in [1..(k + 1) -> T]
      BY <2>6, <2>7, <2>8
    <2> HIDE DEF s
    <2>10. ASSUME NEW i \in 1..(k + 1), NEW j \in 1..(k + 1), i < j
           PROVE  s[i] < s[j]
      <3>1. i \in 1..k
        BY <2>10
      <3>2. s[i] \in Int /\ m \in Int
        BY <2>6, <3>1
      <3>3. CASE j \in 1..k
        <4>1. r[i] < r[j]
          BY <2>5, <2>10, <3>1, <3>3 DEF Rising
        <4> QED
          BY <2>6, <3>1, <3>3, <4>1
      <3>4. CASE j = k + 1
        <4>1. s[i] <= m /\ s[i] # m
          BY <2>3, <2>6, <3>1
        <4> QED
          BY <2>7, <3>2, <3>4, <4>1
      <3> QED
        BY <2>8, <3>3, <3>4
    <2> QED
      BY <2>9, <2>10 DEF Rising
  <1>3. Cardinality(S) \in N
    <2>1. Cardinality(S) \in Nat
      BY FS_CardinalityType
    <2> HIDE DEF N
    <2> QED
      BY <1>1, <1>2, <2>1, SetInduction
  <1> QED
    BY <1>3

(***************************************************************************)
(* Such a list has every element, once.                                    *)
(***************************************************************************)
LEMMA RisingListsAll ==
  ASSUME NEW S \in SUBSET Int, IsFiniteSet(S), NEW s, Rising(s, Cardinality(S), S)
  PROVE  /\ Cardinality(S) \in Nat
         /\ \A i, j \in 1..Cardinality(S) : s[i] = s[j] => i = j
         /\ \A x \in S : \E i \in 1..Cardinality(S) : s[i] = x
  <1> DEFINE n == Cardinality(S)
  <1>1. n \in Nat
    BY FS_CardinalityType
  <1>2. IsFiniteSet(1..n) /\ Cardinality(1..n) = n
    BY <1>1, FS_Interval
  <1> HIDE DEF n
  <1>3. s \in [1..n -> S] /\ \A i, j \in 1..n : i < j => s[i] < s[j]
    BY DEF Rising, n
  <1>4. ASSUME NEW i \in 1..n, NEW j \in 1..n, s[i] = s[j] PROVE i = j
    <2>1. s[i] \in Int
      BY <1>3
    <2>2. ~(i < j) /\ ~(j < i)
      BY <1>3, <1>4, <2>1
    <2> QED
      BY <1>1, <2>2
  <1>5. s \in Injection(1..n, S)
    BY <1>3, <1>4 DEF Injection, IsInjective
  <1>6. s \in Surjection(1..n, S)
    BY <1>2, <1>5, FS_Injection DEF n
  <1>7. \A x \in S : \E i \in 1..n : s[i] = x
    BY <1>6 DEF Surjection
  <1> QED
    BY <1>1, <1>4, <1>7 DEF n

(***************************************************************************)
(* q lists the elements of B from the one that r ranks highest downwards.  *)
(***************************************************************************)
Falling(q, m, B, r) == /\ q = [k \in 0..m |-> q[k]]
                       /\ \A k \in 0..m : q[k] \in B
                       /\ \A i, j \in 0..m : i < j => r[q[j]] < r[q[i]]
                       /\ \A x \in B : \E k \in 0..m : q[k] = x

(***************************************************************************)
(* A finite set that is not empty can be so listed.                        *)
(***************************************************************************)
LEMMA FallingExists ==
  ASSUME NEW B, IsFiniteSet(B), B # {}, NEW r, \A x \in B : r[x] \in Int,
         \A x, y \in B : r[x] = r[y] => x = y
  PROVE  \E m \in Nat : m + 1 <= Cardinality(B) /\ \E q : Falling(q, m, B, r)
  <1> DEFINE R == {r[x] : x \in B}
             c == Cardinality(R)
  <1>1. IsFiniteSet(R) /\ c <= Cardinality(B)
    <2> DEFINE f == [x \in B |-> r[x]]
    <2>1. f \in Surjection(B, R)
      BY DEF Surjection
    <2> HIDE DEF f, R
    <2> QED
      BY <2>1, FS_Surjection
  <1>2. R \in SUBSET Int /\ R # {}
    OBVIOUS
  <1>3. PICK s : Rising(s, c, R)
    BY <1>1, <1>2, RisingExists
  <1>4. /\ c \in Nat
        /\ \A i, j \in 1..c : s[i] = s[j] => i = j
        /\ \A y \in R : \E i \in 1..c : s[i] = y
    <2> HIDE DEF R
    <2> QED
      BY <1>1, <1>2, <1>3, RisingListsAll
  <1>5. c # 0
    BY <1>1, <1>2, FS_EmptySet
  <1>6. /\ \A i \in 1..c : \E x \in B : r[x] = s[i]
        /\ \A x \in B : \E i \in 1..c : s[i] = r[x]
        /\ \A i, j \in 1..c : i < j => s[i] < s[j]
    <2>1. \A y : y \in R <=> \E x \in B : r[x] = y
      OBVIOUS
    <2> HIDE DEF R, c
    <2> QED
      BY <1>3, <1>4, <2>1 DEF Rising
  <1> HIDE DEF R, c
  <1> DEFINE m == c - 1
             q == [k \in 0..m |-> CHOOSE x \in B : r[x] = s[c - k]]
  <1>7. m \in Nat /\ m + 1 = c /\ \A k \in 0..m : c - k \in 1..c
    BY <1>4, <1>5
  <1>8. \A k \in 0..m : q[k] = CHOOSE x \in B : r[x] = s[c - k]
    OBVIOUS
  <1>9. q = [k \in 0..m |-> q[k]]
    OBVIOUS
  <1> HIDE DEF q, m
  <1>10. \A k \in 0..m : q[k] \in B /\ r[q[k]] = s[c - k]
    BY <1>6, <1>7, <1>8
  <1>11. ASSUME NEW i \in 0..m, NEW j \in 0..m, i < j PROVE r[q[j]] < r[q[i]]
    <2>1. c - j < c - i
      BY <1>4, <1>7, <1>11
    <2>2. c - i \in 1..c /\ c - j \in 1..c
      BY <1>7
    <2>3. s[c - j] < s[c - i]
      BY <1>6, <2>1, <2>2
    <2> QED
      BY <1>10, <2>3
  <1>12. ASSUME NEW x \in B PROVE \E k \in 0..m : q[k] = x
    <2>1. PICK i \in 1..c : s[i] = r[x]
      BY <1>6
    <2>2. c - i \in 0..m /\ c - (c - i) = i
      BY <1>4, <1>7
    <2>3. r[q[c - i]] = r[x] /\ q[c - i] \in B
      BY <1>10, <2>1, <2>2
    <2> QED
      BY <2>2, <2>3
  <1>13. Falling(q, m, B, r)
    BY <1>9, <1>10, <1>11, <1>12 DEF Falling
  <1> QED
    BY <1>1, <1>7, <1>13 DEF c

-----------------------------------------------------------------------------
(***************************************************************************)
(* iter[s] is the outcome of the rounds of s, in ascending order.          *)
(***************************************************************************)
Rounds(iter, n, U, b, step) ==
  /\ iter \in [SUBSET (1..n) -> U]
  /\ \A s \in SUBSET (1..n) :
       iter[s] = IF s = {} THEN b ELSE step[Max(s)][iter[s \ {Max(s)}]]

(***************************************************************************)
(* FoldLeft(Turn, b, q) stands for CHOOSE iter : iter = [s \in SUBSET D |-> *)
(* ...], where iter[s] takes the turns of s, a set of positions of q, in   *)
(* ascending order.  Such an iter exists if the turns stay in a set U.     *)
(***************************************************************************)
LEMMA FoldExists ==
  ASSUME NEW n \in Nat, NEW U, NEW b \in U, NEW step,
         \A k \in 1..n : \A x \in U : step[k][x] \in U
  PROVE  \E iter : Rounds(iter, n, U, b, step)
  <1> DEFINE D == SUBSET (1..n)
             G(f, s) == IF s = {} THEN b ELSE step[Max(s)][f[s \ {Max(s)}]]
             N == {k \in 0..n : \E f \in [D -> U] :
                                  \A s \in D : Cardinality(s) <= k => f[s] = G(f, s)}
  <1>1. ASSUME NEW s \in D
        PROVE  /\ Cardinality(s) \in Nat /\ Cardinality(s) <= n
               /\ Cardinality(s) = 0 <=> s = {}
               /\ s # {} => /\ Max(s) \in 1..n /\ Max(s) \in s
                            /\ s \ {Max(s)} \in D
                            /\ Cardinality(s \ {Max(s)}) = Cardinality(s) - 1
    <2>1. IsFiniteSet(1..n) /\ Cardinality(1..n) = n
      BY FS_Interval
    <2>2. IsFiniteSet(s) /\ Cardinality(s) <= n
      BY <2>1, FS_Subset
    <2>3. Cardinality(s) \in Nat /\ (Cardinality(s) = 0 <=> s = {})
      BY <2>2, FS_CardinalityType, FS_EmptySet
    <2>4. ASSUME s # {} PROVE Max(s) \in s
      <3>1. s \in SUBSET Int
        OBVIOUS
      <3>2. \E m \in s : \A k \in s : k <= m
        BY <2>2, <2>4, <3>1, HasMaximum
      <3>3. \E m \in s : \A k \in s : m >= k
        BY <3>1, <3>2
      <3> QED
        BY <3>3 DEF Max
    <2>5. ASSUME s # {} PROVE Cardinality(s \ {Max(s)}) = Cardinality(s) - 1
      BY <2>2, <2>4, <2>5, FS_RemoveElement
    <2> QED
      BY <2>2, <2>3, <2>4, <2>5
  <1>2. 0 \in N
    <2> DEFINE f == [s \in D |-> b]
    <2>1. f \in [D -> U]
      OBVIOUS
    <2>2. ASSUME NEW s \in D, Cardinality(s) <= 0 PROVE f[s] = G(f, s)
      <3>1. Cardinality(s) \in Nat /\ (Cardinality(s) = 0 <=> s = {})
        BY <1>1
      <3>2. s = {}
        BY <2>2, <3>1
      <3> QED
        BY <3>2
    <2> HIDE DEF f, G, D
    <2> QED
      BY <2>1, <2>2
  <1>3. \A k \in 1..n : k - 1 \in N => k \in N
    <2>1. SUFFICES ASSUME NEW k \in 1..n, k - 1 \in N PROVE k \in N
      OBVIOUS
    <2>2. PICK f \in [D -> U] : \A s \in D : Cardinality(s) <= k - 1 => f[s] = G(f, s)
      BY <2>1
    <2> DEFINE g == [s \in D |-> G(f, s)]
    <2>3. \A s \in D : G(f, s) \in U
      BY <1>1
    <2>4. g \in [D -> U]
      BY <2>3
    <2>5. ASSUME NEW s \in D, Cardinality(s) <= k PROVE g[s] = G(g, s)
      <3>1. g[s] = G(f, s)
        OBVIOUS
      <3>2. CASE s = {}
        BY <3>1, <3>2
      <3>3. CASE s # {}
        <4>1. s \ {Max(s)} \in D /\ Cardinality(s \ {Max(s)}) <= k - 1
          BY <1>1, <2>5, <3>3
        <4>2. g[s \ {Max(s)}] = f[s \ {Max(s)}]
          BY <2>2, <4>1
        <4> QED
          BY <3>1, <3>3, <4>2
      <3> QED
        BY <3>2, <3>3
    <2> HIDE DEF G, g, D
    <2>6. k \in 0..n
      BY <2>1
    <2> QED
      BY <2>4, <2>5, <2>6
  <1>4. n \in N
    <2>1. n \in 0..n
      OBVIOUS
    <2> HIDE DEF N, G, D
    <2> QED
      BY <1>2, <1>3, <2>1, RoundInduction
  <1>5. PICK f \in [D -> U] : \A s \in D : Cardinality(s) <= n => f[s] = G(f, s)
    BY <1>4
  <1>6. Rounds(f, n, U, b, step)
    BY <1>1, <1>5 DEF Rounds
  <1> QED
    BY <1>6

(***************************************************************************)
(* The positions up to k without the last are those up to k - 1.           *)
(***************************************************************************)
LEMMA RoundsSoFar ==
  ASSUME NEW n \in Nat, NEW k \in 1..n
  PROVE  /\ 1..k \in SUBSET (1..n) /\ 1..k # {}
         /\ Max(1..k) = k
         /\ (1..k) \ {k} = 1..(k - 1)
  <1>1. k \in 1..k /\ \A y \in 1..k : k >= y
    OBVIOUS
  <1>2. ASSUME NEW x \in 1..k, \A y \in 1..k : x >= y PROVE x = k
    BY <1>1, <1>2
  <1>3. Max(1..k) = k
    <2> DEFINE S == 1..k
    <2>1. k \in S /\ (\A y \in S : k >= y)
      BY <1>1
    <2>2. \A x \in S : (\A y \in S : x >= y) => x = k
      BY <1>2
    <2> HIDE DEF S
    <2>3. Max(S) = k
      BY <2>1, <2>2 DEF Max
    <2> QED
      BY <2>3 DEF S
  <1>4. 1..k \in SUBSET (1..n) /\ 1..k # {}
    BY <1>1
  <1>5. (1..k) \ {k} = 1..(k - 1)
    OBVIOUS
  <1> QED
    BY <1>3, <1>4, <1>5

(***************************************************************************)
(* The greatest of some of the numbers 1..n.                               *)
(***************************************************************************)
LEMMA LastRound ==
  ASSUME NEW n \in Nat, NEW s \in SUBSET (1..n), s # {}
  PROVE  Max(s) \in s
  <1>1. IsFiniteSet(1..n)
    BY FS_Interval
  <1>2. IsFiniteSet(s)
    BY <1>1, FS_Subset
  <1>. s \in SUBSET Int
    OBVIOUS
  <1>3. \E m \in s : \A k \in s : k <= m
    BY <1>2, HasMaximum
  <1>4. \E m \in s : \A k \in s : m >= k
    BY <1>2, <1>3
  <1> QED
    BY <1>4 DEF Max

-----------------------------------------------------------------------------
(***************************************************************************)
(* R orders S: of two elements one is before the other, and nothing is     *)
(* before itself.                                                          *)
(***************************************************************************)
Orders(R, S) ==
  /\ \A x, y \in S : x = y \/ <<x, y>> \in R \/ <<y, x>> \in R
  /\ \A x, y, z \in S : <<x, y>> \in R /\ <<y, z>> \in R => <<x, z>> \in R
  /\ \A x \in S : <<x, x>> \notin R

(***************************************************************************)
(* A finite set that is not empty has a last element.                      *)
(***************************************************************************)
LEMMA HasLast ==
  ASSUME NEW S, IsFiniteSet(S), S # {}, NEW R, Orders(R, S)
  PROVE  \E m \in S : \A k \in S : k = m \/ <<k, m>> \in R
  <1> DEFINE F == {T \in SUBSET S : T # {} => \E m \in T : \A k \in T : k = m \/ <<k, m>> \in R}
  <1>1. {} \in F
    OBVIOUS
  <1>2. ASSUME NEW T \in SUBSET S, NEW x \in S \ T, T \in F PROVE T \cup {x} \in F
    <2>1. CASE T = {}
      <3>1. \A k \in T \cup {x} : k = x
        BY <2>1
      <3> QED
        BY <3>1
    <2>2. CASE T # {}
      <3>1. PICK m \in T : \A k \in T : k = m \/ <<k, m>> \in R
        BY <1>2, <2>2
      <3>2. CASE <<x, m>> \in R
        <4>1. \A k \in T \cup {x} : k = m \/ <<k, m>> \in R
          BY <3>1, <3>2
        <4> QED
          BY <4>1
      <3>3. CASE <<x, m>> \notin R
        <4>1. <<m, x>> \in R
          BY <3>3, Zenon DEF Orders
        <4>2. ASSUME NEW k \in T PROVE <<k, x>> \in R
          BY <3>1, <4>1, Zenon DEF Orders
        <4>3. \A k \in T \cup {x} : k = x \/ <<k, x>> \in R
          BY <4>2
        <4> QED
          BY <4>3
      <3> QED
        BY <3>2, <3>3
    <2> QED
      BY <2>1, <2>2
  <1>3. S \in F
    <2> HIDE DEF F
    <2> QED
      BY <1>1, <1>2, FiniteInduction
  <1> QED
    BY <1>3

(***************************************************************************)
(* s lists n elements of S in the order R.                                 *)
(***************************************************************************)
InOrder(s, n, S, R) == /\ s \in [1..n -> S]
                       /\ \A i, j \in 1..n : i < j => <<s[i], s[j]>> \in R

(***************************************************************************)
(* The elements of a finite set can be listed in order.                    *)
(***************************************************************************)
LEMMA ListingExists ==
  ASSUME NEW S, IsFiniteSet(S), NEW R, Orders(R, S)
  PROVE  \E s : InOrder(s, Cardinality(S), S, R)
  <1> DEFINE N == {k \in Nat : \A T \in SUBSET S : Cardinality(T) = k => \E s : InOrder(s, k, T, R)}
  <1>1. 0 \in N
    <2>1. ASSUME NEW T \in SUBSET S PROVE InOrder(<<>>, 0, T, R)
      BY DEF InOrder
    <2> QED
      BY <2>1
  <1>2. ASSUME NEW k \in Nat, k \in N PROVE k + 1 \in N
    <2>1. SUFFICES ASSUME NEW T \in SUBSET S, Cardinality(T) = k + 1
                   PROVE  \E s : InOrder(s, k + 1, T, R)
      BY <1>2
    <2>2. IsFiniteSet(T) /\ T # {}
      <3>1. IsFiniteSet(T)
        BY FS_Subset
      <3> QED
        BY <2>1, <3>1, FS_EmptySet
    <2>3. Orders(R, T)
      BY Zenon DEF Orders
    <2>4. PICK m \in T : \A x \in T : x = m \/ <<x, m>> \in R
      BY <2>2, <2>3, HasLast
    <2>5. Cardinality(T \ {m}) = k
      <3>1. Cardinality(T \ {m}) = Cardinality(T) - 1
        BY <2>2, FS_RemoveElement
      <3> QED
        BY <2>1, <3>1
    <2>6. PICK r : InOrder(r, k, T \ {m}, R)
      BY <1>2, <2>5
    <2> DEFINE s == [i \in 1..(k + 1) |-> IF i = k + 1 THEN m ELSE r[i]]
    <2>7. \A i \in 1..k : s[i] = r[i] /\ r[i] \in T /\ r[i] # m
      BY <2>6 DEF InOrder
    <2>8. s[k + 1] = m
      OBVIOUS
    <2>9. \A i \in 1..(k + 1) : i = k + 1 \/ i \in 1..k
      BY <1>2
    <2>10. s \in [1..(k + 1) -> T]
      BY <2>7, <2>8, <2>9
    <2> HIDE DEF s
    <2>11. ASSUME NEW i \in 1..(k + 1), NEW j \in 1..(k + 1), i < j
           PROVE  <<s[i], s[j]>> \in R
      <3>1. i \in 1..k
        BY <2>11
      <3>2. CASE j \in 1..k
        <4>1. <<r[i], r[j]>> \in R
          BY <2>6, <2>11, <3>1, <3>2 DEF InOrder
        <4> QED
          BY <2>7, <3>1, <3>2, <4>1
      <3>3. CASE j = k + 1
        BY <2>4, <2>7, <2>8, <3>1, <3>3
      <3> QED
        BY <2>9, <3>2, <3>3
    <2> QED
      BY <2>10, <2>11 DEF InOrder
  <1>3. Cardinality(S) \in N
    <2>1. Cardinality(S) \in Nat
      BY FS_CardinalityType
    <2> HIDE DEF N
    <2> QED
      BY <1>1, <1>2, <2>1, SetInduction
  <1> QED
    BY <1>3

(***************************************************************************)
(* A listing without repetition has every element.                         *)
(***************************************************************************)
LEMMA ListingComplete ==
  ASSUME NEW S, IsFiniteSet(S), NEW s \in [1..Cardinality(S) -> S],
         \A i, j \in 1..Cardinality(S) : i # j => s[i] # s[j]
  PROVE  /\ Cardinality(S) \in Nat
         /\ \A x \in S : \E i \in 1..Cardinality(S) : s[i] = x
  <1> DEFINE n == Cardinality(S)
  <1>1. n \in Nat
    BY FS_CardinalityType
  <1>2. IsFiniteSet(1..n) /\ Cardinality(1..n) = n
    BY <1>1, FS_Interval
  <1> HIDE DEF n
  <1>3. s \in [1..n -> S] /\ \A i, j \in 1..n : i # j => s[i] # s[j]
    BY DEF n
  <1>4. s \in Injection(1..n, S)
    BY <1>3 DEF Injection, IsInjective
  <1>5. s \in Surjection(1..n, S)
    BY <1>2, <1>4, FS_Injection DEF n
  <1> QED
    BY <1>1, <1>5 DEF Surjection, n

-----------------------------------------------------------------------------
(***************************************************************************)
(* The dense collections with entries from S, as a Vec has them: the       *)
(* indices are 0, 1, ..., len - 1.                                         *)
(***************************************************************************)
Vecs(S) == UNION {[0..(k - 1) -> S] : k \in Nat}

(***************************************************************************)
(* A Vec of k entries has size k.                                          *)
(***************************************************************************)
LEMMA VecIntro ==
  ASSUME NEW S, NEW k \in Nat, NEW c \in [0..(k - 1) -> S]
  PROVE  c \in Vecs(S) /\ Size(c) = k
  <1>1. Cardinality(0..(k - 1)) = k
    BY FS_Interval
  <1> QED
    BY <1>1 DEF Vecs, Size

(***************************************************************************)
(* A Vec is a function on 0, ..., len - 1.                                 *)
(***************************************************************************)
LEMMA VecElim ==
  ASSUME NEW S, NEW c \in Vecs(S)
  PROVE  /\ Size(c) \in Nat
         /\ DOMAIN c = 0..(Size(c) - 1)
         /\ c \in [0..(Size(c) - 1) -> S]
         /\ \A i \in DOMAIN c : c[i] \in S
         /\ IsFiniteSet(DOMAIN c)
         /\ DOMAIN c \subseteq Nat
         /\ LastIndex(c) = Size(c) - 1
         /\ DOMAIN c # {} => LastIndex(c) \in DOMAIN c
  <1>1. PICK k \in Nat : c \in [0..(k - 1) -> S]
    BY DEF Vecs
  <1>2. Size(c) = k
    BY <1>1, VecIntro
  <1>3. IsFiniteSet(DOMAIN c)
    BY <1>1, FS_Interval
  <1>4. LastIndex(c) = k - 1
    BY <1>2 DEF LastIndex
  <1> QED
    BY <1>1, <1>2, <1>3, <1>4

(***************************************************************************)
(* Insertion into a Vec appends.                                           *)
(***************************************************************************)
LEMMA VecInsert ==
  ASSUME NEW S, NEW c \in Vecs(S), NEW entry \in S
  PROVE  LET d == Insert(TRUE, c, entry) IN
         /\ d \in Vecs(S)
         /\ \A i : i \in DOMAIN d <=> i \in DOMAIN c \/ i = Size(c)
         /\ Size(c) \notin DOMAIN c
         /\ Size(d) = Size(c) + 1
         /\ d[Size(c)] = entry
         /\ \A i \in DOMAIN c : d[i] = c[i]
  <1> DEFINE d == Insert(TRUE, c, entry)
             n == Size(c)
  <1>1. n \in Nat /\ DOMAIN c = 0..(n - 1) /\ \A i \in DOMAIN c : c[i] \in S
    BY VecElim
  <1>2. d = [i \in DOMAIN c \cup {n} |-> IF i = n THEN entry ELSE c[i]]
    BY DEF Insert, IndexOfNew
  <1>3. DOMAIN c \cup {n} = 0..((n + 1) - 1) /\ n + 1 \in Nat
    BY <1>1
  <1>4. d \in [0..((n + 1) - 1) -> S]
    BY <1>1, <1>2, <1>3
  <1>5. d \in Vecs(S) /\ Size(d) = n + 1
    BY <1>3, <1>4, VecIntro
  <1>6. n \notin DOMAIN c
    BY <1>1
  <1> QED
    BY <1>2, <1>5, <1>6

(***************************************************************************)
(* swap_remove: a Vec loses its last index, and the entry there fills the  *)
(* freed position.                                                         *)
(***************************************************************************)
LEMMA VecTake ==
  ASSUME NEW S, NEW c \in Vecs(S), NEW ix \in DOMAIN c
  PROVE  LET d == Take(TRUE, c, ix) IN
         /\ d \in Vecs(S)
         /\ \A i : i \in DOMAIN d <=> i \in DOMAIN c /\ i # LastIndex(c)
         /\ Size(d) = Size(c) - 1
         /\ LastIndex(c) \in DOMAIN c
         /\ ix # LastIndex(c) => d[ix] = c[LastIndex(c)]
         /\ \A i \in DOMAIN d : i # ix => d[i] = c[i]
  <1> DEFINE d == Take(TRUE, c, ix)
             n == Size(c)
             last == LastIndex(c)
  <1>1. /\ n \in Nat /\ DOMAIN c = 0..(n - 1) /\ \A i \in DOMAIN c : c[i] \in S
        /\ last = n - 1
    BY VecElim
  <1>2. last \in DOMAIN c /\ n - 1 \in Nat
    BY <1>1
  <1>3. DOMAIN c \ {last} = 0..((n - 1) - 1)
    BY <1>1, <1>2
  <1>4. d = [i \in DOMAIN c \ {last} |-> IF i = ix THEN c[last] ELSE c[i]]
    <2>1. CASE ix = last
      <3>1. d = [i \in DOMAIN c \ {last} |-> c[i]]
        BY <2>1 DEF Take, Relocates
      <3> QED
        BY <2>1, <3>1
    <2>2. CASE ix # last
      BY <2>2 DEF Take, Relocates
    <2> QED
      BY <2>1, <2>2
  <1>5. d \in [0..((n - 1) - 1) -> S]
    <2>1. ASSUME NEW i \in DOMAIN c \ {last}
          PROVE  (IF i = ix THEN c[last] ELSE c[i]) \in S
      BY <1>1, <1>2
    <2> QED
      BY <1>3, <1>4, <2>1
  <1>6. d \in Vecs(S) /\ Size(d) = n - 1
    BY <1>2, <1>5, VecIntro
  <1>7. ix # last => d[ix] = c[last]
    BY <1>4
  <1>8. \A i \in DOMAIN d : i # ix => d[i] = c[i]
    BY <1>4
  <1>9. \A i : i \in DOMAIN d <=> i \in DOMAIN c /\ i # last
    BY <1>4
  <1> HIDE DEF d, last
  <1> QED
    BY <1>2, <1>6, <1>7, <1>8, <1>9 DEF d, last

(***************************************************************************)
(* A sequence of payloads grows by a payload.                              *)
(***************************************************************************)
LEMMA AppendType ==
  ASSUME NEW S
  PROVE  \A s \in Seq(S) : \A v \in S : Append(s, v) \in Seq(S)
  OBVIOUS

(***************************************************************************)
(* A collection begins as a Vec of no entries.                             *)
(***************************************************************************)
LEMMA VecEmpty ==
  ASSUME NEW S
  PROVE  <<>> \in Vecs(S) /\ DOMAIN <<>> = {}
  <1>1. DOMAIN <<>> = {} /\ 0..(0 - 1) = {}
    OBVIOUS
  <1>2. <<>> \in [0..(0 - 1) -> S]
    BY <1>1
  <1> QED
    BY <1>1, <1>2, VecIntro

-----------------------------------------------------------------------------
(***************************************************************************)
(* The collections of either family with indices from X and entries from   *)
(* S.                                                                      *)
(***************************************************************************)
Colls(dense, X, S) ==
  {c \in UNION {[D -> S] : D \in SUBSET X} :
     IsFiniteSet(DOMAIN c) /\ (dense => DOMAIN c = 0..(Size(c) - 1))}

(***************************************************************************)
(* How to show that something is such a collection.                        *)
(***************************************************************************)
LEMMA CollIntro ==
  ASSUME NEW dense, NEW X, NEW S, NEW c, NEW D, c = [i \in D |-> c[i]],
         D \subseteq X, \A i \in D : c[i] \in S,
         IsFiniteSet(D), dense => D = 0..(Size(c) - 1)
  PROVE  c \in Colls(dense, X, S)
  <1>1. DOMAIN c = D /\ D \in SUBSET X /\ c \in [D -> S]
    BY SMT
  <1> QED
    BY <1>1 DEF Colls

(***************************************************************************)
(* A collection is a function on finitely many indices.                    *)
(***************************************************************************)
LEMMA CollElim ==
  ASSUME NEW dense, NEW X, NEW S, NEW c \in Colls(dense, X, S)
  PROVE  /\ c = [i \in DOMAIN c |-> c[i]]
         /\ \A i \in DOMAIN c : i \in X /\ c[i] \in S
         /\ IsFiniteSet(DOMAIN c)
         /\ Size(c) \in Nat
         /\ dense => DOMAIN c = 0..(Size(c) - 1)
  <1>1. PICK D \in SUBSET X : c \in [D -> S]
    BY DEF Colls
  <1>2. IsFiniteSet(DOMAIN c) /\ (dense => DOMAIN c = 0..(Size(c) - 1))
    BY DEF Colls
  <1>3. Size(c) \in Nat
    BY <1>2, FS_CardinalityType DEF Size
  <1> QED
    BY <1>1, <1>2, <1>3

(***************************************************************************)
(* A collection begins empty.                                              *)
(***************************************************************************)
LEMMA CollEmpty ==
  ASSUME NEW dense, NEW X, NEW S
  PROVE  <<>> \in Colls(dense, X, S) /\ DOMAIN <<>> = {}
  <1>1. DOMAIN <<>> = {} /\ 0..(0 - 1) = {} /\ <<>> = [i \in {} |-> <<>>[i]]
    OBVIOUS
  <1>2. IsFiniteSet({}) /\ Size(<<>>) = 0
    BY <1>1, FS_EmptySet DEF Size
  <1> QED
    BY <1>1, <1>2, CollIntro

(***************************************************************************)
(* A collection keeps its indices when its entries are replaced.           *)
(***************************************************************************)
LEMMA CollUpdate ==
  ASSUME NEW dense, NEW X, NEW S, NEW c \in Colls(dense, X, S),
         NEW d, d = [i \in DOMAIN c |-> d[i]], \A i \in DOMAIN c : d[i] \in S
  PROVE  d \in Colls(dense, X, S) /\ DOMAIN d = DOMAIN c /\ Size(d) = Size(c)
  <1>1. DOMAIN d = DOMAIN c
    BY SMT
  <1>2. Size(d) = Size(c)
    BY <1>1 DEF Size
  <1>3. /\ IsFiniteSet(DOMAIN c) /\ (dense => DOMAIN c = 0..(Size(c) - 1))
        /\ DOMAIN c \subseteq X
    BY CollElim
  <1> QED
    BY <1>1, <1>2, <1>3, CollIntro

(***************************************************************************)
(* Insertion adds an entry at an index that was free.                      *)
(***************************************************************************)
LEMMA CollInsert ==
  ASSUME NEW dense \in BOOLEAN, NEW X, NEW S, NEW c \in Colls(dense, X, S),
         NEW entry \in S, CanInsert(dense, c, entry.val),
         NEW ix, ix = IndexOfNew(dense, c, entry.val), ix \in X,
         NEW d, d = Insert(dense, c, entry)
  PROVE  /\ d \in Colls(dense, X, S)
         /\ ix \notin DOMAIN c
         /\ \A i : i \in DOMAIN d <=> i \in DOMAIN c \/ i = ix
         /\ d[ix] = entry
         /\ \A i \in DOMAIN c : d[i] = c[i]
         /\ Size(d) = Size(c) + 1
  <1>1. /\ \A i \in DOMAIN c : i \in X /\ c[i] \in S
        /\ IsFiniteSet(DOMAIN c) /\ Size(c) \in Nat
        /\ dense => DOMAIN c = 0..(Size(c) - 1)
    BY CollElim
  <1>2. d = [i \in DOMAIN c \cup {ix} |-> IF i = ix THEN entry ELSE c[i]]
    BY DEF Insert
  <1>3. ix \notin DOMAIN c
    BY <1>1 DEF CanInsert, IndexOfNew
  <1>4. IsFiniteSet(DOMAIN c \cup {ix}) /\ Cardinality(DOMAIN c \cup {ix}) = Size(c) + 1
    BY <1>1, <1>3, FS_AddElement DEF Size
  <1>5. DOMAIN d = DOMAIN c \cup {ix}
    BY <1>2
  <1>6. Size(d) = Size(c) + 1
    BY <1>4, <1>5 DEF Size
  <1>7. dense => DOMAIN c \cup {ix} = 0..(Size(d) - 1)
    <2>1. SUFFICES ASSUME dense PROVE DOMAIN c \cup {ix} = 0..(Size(d) - 1)
      OBVIOUS
    <2>2. ix = Size(c)
      BY <2>1 DEF IndexOfNew
    <2>3. DOMAIN c = 0..(Size(c) - 1)
      BY <1>1, <2>1, Zenon
    <2> QED
      BY <1>1, <1>6, <2>2, <2>3
  <1>8. \A i \in DOMAIN c \cup {ix} : i \in X /\ d[i] \in S
    BY <1>1, <1>2
  <1>9. d[ix] = entry /\ \A i \in DOMAIN c : d[i] = c[i]
    BY <1>2, <1>3
  <1>10. d = [i \in DOMAIN c \cup {ix} |-> d[i]]
    BY <1>2
  <1>11. d \in Colls(dense, X, S)
    BY <1>4, <1>7, <1>8, <1>10, CollIntro
  <1> QED
    BY <1>3, <1>5, <1>6, <1>9, <1>11

(***************************************************************************)
(* The index that a removal takes away: that of the entry that moves, if   *)
(* one does.                                                               *)
(***************************************************************************)
Gone(dense, c, ix) == IF Relocates(dense, c, ix) THEN LastIndex(c) ELSE ix

(***************************************************************************)
(* Removal takes away an index; at the freed position is what was there.   *)
(***************************************************************************)
LEMMA CollTake ==
  ASSUME NEW dense \in BOOLEAN, NEW X, NEW S, NEW c \in Colls(dense, X, S),
         NEW ix \in DOMAIN c, NEW gone, gone = Gone(dense, c, ix),
         NEW d, d = Take(dense, c, ix)
  PROVE  /\ d \in Colls(dense, X, S)
         /\ gone \in DOMAIN c
         /\ \A i : i \in DOMAIN d <=> i \in DOMAIN c /\ i # gone
         /\ \A i \in DOMAIN d : d[i] = IF i = ix THEN c[gone] ELSE c[i]
         /\ Size(d) = Size(c) - 1
         /\ Relocates(dense, c, ix) => gone = LastIndex(c) /\ gone # ix
         /\ ~Relocates(dense, c, ix) => gone = ix
  <1>1. /\ \A i \in DOMAIN c : i \in X /\ c[i] \in S
        /\ IsFiniteSet(DOMAIN c) /\ Size(c) \in Nat
        /\ dense => DOMAIN c = 0..(Size(c) - 1)
    BY CollElim
  <1>2. LastIndex(c) = Size(c) - 1
    BY DEF LastIndex
  <1>3. /\ Relocates(dense, c, ix) => gone = LastIndex(c) /\ gone # ix
        /\ ~Relocates(dense, c, ix) => gone = ix
    BY DEF Gone, Relocates
  <1>4. gone \in DOMAIN c
    <2>1. CASE Relocates(dense, c, ix)
      <3>1. gone = Size(c) - 1
        BY <1>2, <1>3, <2>1
      <3>2. DOMAIN c = 0..(Size(c) - 1)
        BY <1>1, <2>1, Zenon DEF Relocates
      <3>3. Size(c) \in Nat /\ ix \in 0..(Size(c) - 1)
        BY <1>1, <3>2, Zenon
      <3>4. \A n \in Nat : \A i \in 0..(n - 1) : n - 1 \in 0..(n - 1)
        OBVIOUS
      <3>5. gone \in 0..(Size(c) - 1)
        BY <3>1, <3>3, <3>4, Zenon
      <3> QED
        BY <3>2, <3>5
    <2>2. CASE ~Relocates(dense, c, ix)
      BY <1>3, <2>2
    <2> QED
      BY <2>1, <2>2
  <1>5. d = [i \in DOMAIN c \ {gone} |-> IF i = ix THEN c[gone] ELSE c[i]]
    <2>1. CASE Relocates(dense, c, ix)
      BY <1>3, <2>1 DEF Take
    <2>2. CASE ~Relocates(dense, c, ix)
      <3>1. d = [i \in DOMAIN c \ {ix} |-> c[i]] /\ gone = ix
        BY <1>3, <2>2 DEF Take
      <3> QED
        BY <3>1
    <2> QED
      BY <2>1, <2>2
  <1>6. /\ IsFiniteSet(DOMAIN c \ {gone})
        /\ Cardinality(DOMAIN c \ {gone}) = Size(c) - 1
    BY <1>1, <1>4, FS_RemoveElement DEF Size
  <1>7. DOMAIN d = DOMAIN c \ {gone}
    BY <1>5
  <1>8. Size(d) = Size(c) - 1
    BY <1>6, <1>7 DEF Size
  <1>9. dense => DOMAIN c \ {gone} = 0..(Size(d) - 1)
    <2>1. SUFFICES ASSUME dense PROVE DOMAIN c \ {gone} = 0..(Size(d) - 1)
      OBVIOUS
    <2>2. gone = Size(c) - 1
      BY <1>2, <1>3, <2>1 DEF Relocates
    <2>3. DOMAIN c = 0..(Size(c) - 1)
      BY <1>1, <2>1, Zenon
    <2> QED
      BY <1>1, <1>8, <2>2, <2>3
  <1>10. \A i \in DOMAIN c \ {gone} : i \in X /\ d[i] \in S
    BY <1>1, <1>4, <1>5
  <1>11. \A i \in DOMAIN d : d[i] = IF i = ix THEN c[gone] ELSE c[i]
    BY <1>5
  <1>12. d = [i \in DOMAIN c \ {gone} |-> d[i]]
    BY <1>5
  <1>13. d \in Colls(dense, X, S)
    BY <1>6, <1>9, <1>10, <1>12, CollIntro
  <1> QED
    BY <1>3, <1>4, <1>7, <1>8, <1>11, <1>13
=============================================================================
