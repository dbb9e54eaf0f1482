------------------------------- MODULE MCCart -------------------------------
(***************************************************************************)
(* Small instances of Cart for TLC.                                        *)
(***************************************************************************)
EXTENDS Cart, TLC

MCSymmetry == Permutations(Sessions) \cup Permutations(Goods)
=============================================================================
