---------------------------- MODULE Collections ----------------------------
(***************************************************************************)
(* The random-access collections the storage layouts are built from        *)
(* (collection.rs).  A collection is a function from its current indices   *)
(* to its entries; an entry is a record whose field val is the payload.    *)
(*                                                                         *)
(* Two families of backends exist and an operator's first argument tells   *)
(* them apart.  A dense one (Vec) hands out positions 0, 1, 2, ... and     *)
(* fills a freed position with its last entry (swap_remove).  A keyed one  *)
(* (BTreeMap, HashMap) uses the payload itself as the index, rejects a     *)
(* payload it already holds and never moves an entry.                      *)
(***************************************************************************)
EXTENDS Integers, FiniteSets

Size(c) == Cardinality(DOMAIN c)

LastIndex(c) == Size(c) - 1

(***************************************************************************)
(* Mutant: a map overwrites the entry of an equal key.                     *)
(***************************************************************************)
CanInsertAlways(dense, c, v) == TRUE

(***************************************************************************)
(* insert.  Vec appends and returns the length before the push; a map      *)
(* refuses a key it holds.                                                 *)
(***************************************************************************)
CanInsert(dense, c, v) == dense \/ v \notin DOMAIN c

IndexOfNew(dense, c, v) == IF dense THEN Size(c) ELSE v

Insert(dense, c, entry) ==
  LET ix == IndexOfNew(dense, c, entry.val) IN
  [i \in DOMAIN c \cup {ix} |-> IF i = ix THEN entry ELSE c[i]]

(***************************************************************************)
(* take_unchecked.  Relocates says whether the removal moves the entry at  *)
(* LastIndex(c) into the freed position.                                   *)
(***************************************************************************)
Relocates(dense, c, ix) == dense /\ ix # LastIndex(c)

Take(dense, c, ix) ==
  IF Relocates(dense, c, ix)
    THEN [i \in DOMAIN c \ {LastIndex(c)} |->
            IF i = ix THEN c[LastIndex(c)] ELSE c[i]]
    ELSE [i \in DOMAIN c \ {ix} |-> c[i]]
=============================================================================
