----------------------------- MODULE MCCatalog -----------------------------
(***************************************************************************)
(* Small instances of Catalog for TLC.                                     *)
(***************************************************************************)
EXTENDS Catalog, TLC

MCSymmetry == Permutations(Sessions) \cup Permutations(Contents)
=============================================================================
