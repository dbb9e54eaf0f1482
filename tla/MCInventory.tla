---------------------------- MODULE MCInventory ----------------------------
(***************************************************************************)
(* Small instances of Inventory for TLC.                                   *)
(***************************************************************************)
EXTENDS Inventory, FiniteSetsExt, TLC

CONSTANTS a, b

\* One list with both products, one with a single product twice over.
MCRequests == {[g \in Goods |-> 1], [g \in Goods |-> IF g = a THEN 2 ELSE 0]}
MCOneRequest == {[g \in Goods |-> 1]}

MCSymmetry == Permutations(Sessions) \cup Permutations(Orders)
=============================================================================
