------------------------------ MODULE MCMaxFlow ------------------------------
(***************************************************************************)
(* MaxFlow on a network whose shortest path may use up an arc that a       *)
(* longer one needs, so that flow between two parallel edges has to be     *)
(* cancelled:                                                              *)
(*                                                                         *)
(*   s -> a => b -> t     s -> c -> d -> b     b -> a     a -> e -> f -> t *)
(*                                                                         *)
(* listed oldest edge first, as a Vec-backed flat graph does, or newest    *)
(* first, as a linked one.                                                 *)
(***************************************************************************)
EXTENDS MaxFlow

CONSTANTS s, a, b, c, d, e, f, t, MaxCapacity

Arcs == <<<<s, a>>, <<a, b>>, <<a, b>>, <<b, t>>, <<b, a>>, <<s, c>>,
          <<c, d>>, <<d, b>>, <<a, e>>, <<e, f>>, <<f, t>>>>

\* The arcs of the longer ways, but for s -> c, carry one unit.
Capacities ==
  {cap \in [DOMAIN Arcs -> 0..MaxCapacity] : \A i \in 7..11 : cap[i] = 1}

WithCapacities(cap) ==
  [i \in DOMAIN Arcs |->
     [tail |-> Arcs[i][1], head |-> Arcs[i][2], capacity |-> cap[i]]]

OldestFirst == {WithCapacities(cap) : cap \in Capacities}
SmallNetworks == OldestFirst \cup {Reverse(net) : net \in OldestFirst}
=============================================================================
