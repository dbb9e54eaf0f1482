---------------------------- MODULE MCOrderFlow ----------------------------
(***************************************************************************)
(* Small instances of OrderFlow for TLC.                                   *)
(***************************************************************************)
EXTENDS OrderFlow, TLC

CONSTANTS u1, a, b

\* All orders are of one user.
MCOneUser == [o \in Orders |-> u1]

MCEmpty == [g \in Goods |-> 0]

\* A cart is empty or holds every product, or only one that goods_srv no
\* longer knows.
MCSmallCarts == {MCEmpty, [g \in Goods |-> 1]}
MCMixedCarts == {MCEmpty, [g \in Goods |-> 1],
                 [g \in Goods |-> IF g = b THEN 1 ELSE 0]}

MCSymmetry == Permutations(Orders)
=============================================================================
