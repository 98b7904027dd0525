----------------------------- MODULE MCHyperEdge -----------------------------
(***************************************************************************)
(* HyperEdge on small instances: the payloads of a Vec are                 *)
(* interchangeable.                                                        *)
(***************************************************************************)
EXTENDS HyperEdge, TLC

Payloads == Permutations(NodeVals) \cup Permutations(EdgeVals)
=============================================================================
