--------------------------- MODULE MCBatchRemoval ---------------------------
(***************************************************************************)
(* BatchRemoval on small instances.  The payloads of a Vec are             *)
(* interchangeable; the keys of a map are ordered and are numbers.         *)
(***************************************************************************)
EXTENDS BatchRemoval

NodePayloads == Permutations(NodeVals)
Payloads == NodePayloads \cup Permutations(EdgeVals)
=============================================================================
