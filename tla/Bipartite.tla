----------------------------- MODULE Bipartite ------------------------------
(***************************************************************************)
(* Two-colouring (algo/bipartite.rs): a breadth-first search per component *)
(* that gives a new neighbour the other colour and gives up at an edge     *)
(* between equal colours, or at a self-loop.                               *)
(***************************************************************************)
EXTENDS Digraphs, SequencesExt

IncidentLinks(g, n) == EdgeIndicesOf(g, n)

\* n and its links are done; a link that closes an odd cycle fails the run.
RECURSIVE ColorLinks(_, _, _, _)
ColorLinks(g, run, n, links) ==
  IF links = <<>> \/ ~run.ok THEN run
  ELSE LET m == OtherEnd(g, Head(links), n)
       IN ColorLinks(g,
            CASE m \notin DOMAIN run.color ->
                   [run EXCEPT !.color = @ @@ (m :> ~run.color[n]), !.queue = Append(@, m)]
              [] m \in DOMAIN run.color -> [run EXCEPT !.ok = run.color[m] # run.color[n]],
            n, Tail(links))

RECURSIVE ColorAll(_, _)
ColorAll(g, run) ==
  LET fresh == Nodes(g) \ DOMAIN run.color
  IN IF ~run.ok THEN run
     ELSE IF run.queue # <<>> THEN
       ColorAll(g, ColorLinks(g, [run EXCEPT !.queue = Tail(@)], Head(run.queue),
                              IncidentLinks(g, Head(run.queue))))
     ELSE IF fresh # {} THEN
       LET start == CHOOSE n \in fresh : \A m \in fresh : n <= m
       IN ColorAll(g, [run EXCEPT !.color = @ @@ (start :> FALSE), !.queue = <<start>>])
     ELSE run

BipartiteColoring(g) == ColorAll(g, [color |-> <<>>, queue |-> <<>>, ok |-> TRUE])

IsBipartite(g) == BipartiteColoring(g).ok

-----------------------------------------------------------------------------
Separates(g, color) == \A a \in Arcs(g) : color[a[1]] # color[a[2]]

(***************************************************************************)
(* A colouring is found exactly if there is one, and no edge joins equal   *)
(* colours.                                                                *)
(***************************************************************************)
ColoringExact(g) ==
  /\ IsBipartite(g) = \E color \in [Nodes(g) -> BOOLEAN] : Separates(g, color)
  /\ IsBipartite(g) => LET color == BipartiteColoring(g).color
                       IN DOMAIN color = Nodes(g) /\ Separates(g, color)
=============================================================================
