---------------------------- MODULE MCStabilized ----------------------------
(***************************************************************************)
(* Stabilized on small instances.  No symmetry: slots are ordered, and     *)
(* which tombstone is found first is part of the behaviour.                *)
(***************************************************************************)
EXTENDS Stabilized
=============================================================================
