------------------------------- MODULE Views --------------------------------
(***************************************************************************)
(* Two more ways to hold a graph.  CsMatGraph (raw_graph/matrix.rs) is a   *)
(* compressed sparse matrix whose entry at row t and column h the code     *)
(* takes for the edge from t to h, although its documentation calls rows   *)
(* heads and columns tails; row t is at positions indptr[t] + 1 ..         *)
(* indptr[t + 1] of indices and data, rows counted from 0 in indptr.       *)
(* Undirected (graph/undirected.rs) lists the edges at a node where a      *)
(* directed graph lists those from it, and its reverse does nothing; the   *)
(* other calls are those of the graph beneath.                             *)
(***************************************************************************)
EXTENDS Digraphs, SequencesExt

\* CSR storage of triples <<row, column, value>> sorted by row and column.
Csr(n, triples) ==
  [size    |-> n,
   indptr  |-> [r \in 0..n |-> Cardinality({k \in DOMAIN triples : triples[k][1] <= r})],
   indices |-> [k \in DOMAIN triples |-> triples[k][2]],
   data    |-> [k \in DOMAIN triples |-> triples[k][3]]]

RowMajor(a, b) == a[1] < b[1] \/ (a[1] = b[1] /\ a[2] < b[2])

\* A triplet that repeats a cell makes from_triplets panic: no matrix.
NoMatrix == [size |-> 0, indptr |-> [r \in {0} |-> 0], indices |-> <<>>, data |-> <<>>]

FromTriplets(n, triples) ==
  IF \E i, j \in DOMAIN triples : i < j /\ triples[i][1] = triples[j][1]
                                        /\ triples[i][2] = triples[j][2]
    THEN NoMatrix
    ELSE Csr(n, SortSeq(triples, RowMajor))

Row(m, r) == (m.indptr[r - 1] + 1)..m.indptr[r]

\* The coordinates of the entries in the order of storage.
Entries(m) ==
  [k \in DOMAIN m.indices |->
     <<CHOOSE r \in 1..m.size : k \in Row(m, r), m.indices[k]>>]

RowEdges(m, r) == SelectSeq(Entries(m), LAMBDA c : c[1] = r)
ColEdges(m, h) == SelectSeq(Entries(m), LAMBDA c : c[2] = h)

\* The row, then the column without what was in the row: a self-loop is
\* listed once.
IncidentEdges(m, n) ==
  RowEdges(m, n) \o SelectSeq(ColEdges(m, n), LAMBDA c : c[1] # n)

\* What an edge index says of its edge: the row is the tail.
EdgeTail(c) == c[1]
EdgeHead(c) == c[2]

ValueAt(m, c) == m.data[CHOOSE k \in DOMAIN m.data : Entries(m)[k] = c]

\* Mutant: the values are not sorted along with their new coordinates.
ReverseMatrixUnsorted(m) ==
  LET at == Entries(m)
  IN Csr(m.size, [k \in DOMAIN at |-> <<at[k][2], at[k][1], m.data[k]>>])

\* reverse: every value moves with its exchanged coordinates, which are
\* sorted and counted anew.
ReverseMatrix(m) ==
  LET at == Entries(m)
  IN Csr(m.size, SortSeq([k \in DOMAIN at |-> <<at[k][2], at[k][1], m.data[k]>>], RowMajor))
-----------------------------------------------------------------------------
\* The undirected view of g: the edges from a node, and the walks over them.
UndirectedFrom(g, n)  == EdgeIndicesOf(g, n)
UndirectedWalks(g, n) == NeighborsOf(g, n)
-----------------------------------------------------------------------------
\* The edges of g as the code reads triplets, and as it documents them.
Triplets(g) == [e \in EdgeIxs(g) |-> <<Tail_(g, e), Head_(g, e), e>>]
DocumentedTriplets(g) == [e \in EdgeIxs(g) |-> <<Head_(g, e), Tail_(g, e), e>>]

Lists(s, S) == IsInjective(s) /\ ToSet(s) = S

\* m holds one edge per triple, and every listing of it shows exactly those
\* that belong there, once.
Holds(m, triples) ==
  LET cells == {<<x[1], x[2]>> : x \in triples}
  IN /\ Lists(Entries(m), cells)
     /\ \A x \in triples : ValueAt(m, <<x[1], x[2]>>) = x[3]
     /\ \A n \in 1..m.size :
          /\ Lists(RowEdges(m, n), {c \in cells : EdgeTail(c) = n})
          /\ Lists(ColEdges(m, n), {c \in cells : EdgeHead(c) = n})
          /\ Lists(IncidentEdges(m, n), {c \in cells : n \in {EdgeTail(c), EdgeHead(c)}})

Occurrences(s, x) == Cardinality({i \in DOMAIN s : s[i] = x})

(***************************************************************************)
(* A matrix whose rows are tails holds a graph without parallel edges      *)
(* exactly; its transpose holds the reversed one, every value at its own   *)
(* edge, and undoes itself; parallel edges are refused.  "triplets (head,  *)
(* tail, edge_data)" (matrix.rs:89) give the reversed graph at once, since *)
(* the ends of an edge and the listings take its row for its tail.  In the *)
(* undirected view an edge is listed at both of its ends, and walks lead   *)
(* from n to m as often as from m to n.                                    *)
(***************************************************************************)
ViewsExact(g) ==
  LET t == Triplets(g)
      m == FromTriplets(g.size, t)
  IN /\ IF Cardinality(Arcs(g)) < Len(g.edges) THEN m = NoMatrix
        ELSE /\ Holds(m, ToSet(t))
             /\ Holds(ReverseMatrix(m), {<<x[2], x[1], x[3]>> : x \in ToSet(t)})
             /\ ReverseMatrix(ReverseMatrix(m)) = m
             /\ FromTriplets(g.size, DocumentedTriplets(g)) = ReverseMatrix(m)
     /\ \A n \in Nodes(g) :
          /\ Lists(UndirectedFrom(g, n), {e \in EdgeIxs(g) : n \in {Tail_(g, e), Head_(g, e)}})
          /\ \A k \in Nodes(g) : Occurrences(UndirectedWalks(g, n), k)
                                   = Occurrences(UndirectedWalks(g, k), n)
=============================================================================
