------------------------------- MODULE Basket -------------------------------
(***************************************************************************)
(* What the cart calls of order_srv promise one user, each call atomic: at *)
(* most one item per product, and an order that takes the checked items    *)
(* out.  Cart.tla implements it while calls do not overlap.                *)
(***************************************************************************)
EXTENDS Integers

CONSTANTS Goods, Nums, None

VARIABLES basket,  \* basket[g]: None, or g's quantity and its check mark
          ordered  \* the quantities of the user's last order, or None

NoItems == [g \in Goods |-> None]

BasketInit ==
  /\ basket = [g \in Goods |-> None]
  /\ ordered = NoItems

\* A new item is not checked, an old one keeps its mark.
Add(g, n) ==
  /\ basket' = [basket EXCEPT ![g] =
                  IF @ = None THEN [nums |-> n, checked |-> FALSE]
                              ELSE [nums |-> @.nums + n, checked |-> @.checked]]
  /\ UNCHANGED ordered

\* A quantity of zero means: as it was.
Set(g, c, n) ==
  /\ basket[g] # None
  /\ basket' = [basket EXCEPT ![g] =
                  [nums |-> IF n > 0 THEN n ELSE @.nums, checked |-> c]]
  /\ UNCHANGED ordered

Remove(g) ==
  /\ basket[g] # None
  /\ basket' = [basket EXCEPT ![g] = None]
  /\ UNCHANGED ordered

Checked == {g \in Goods : basket[g] # None /\ basket[g].checked}

\* Every checked item goes, though only the products goods_srv finds are
\* bought.
Buy ==
  /\ \E found \in SUBSET Checked :
       /\ found # {}
       /\ ordered' = [g \in Goods |->
                        IF g \in found THEN basket[g].nums ELSE None]
  /\ basket' = [g \in Goods |-> IF g \in Checked THEN None ELSE basket[g]]

BasketNext ==
  \/ \E g \in Goods, n \in Nums : Add(g, n)
  \/ \E g \in Goods, c \in BOOLEAN, n \in Nums : Set(g, c, n)
  \/ \E g \in Goods : Remove(g)
  \/ Buy

BasketSpec == BasketInit /\ [][BasketNext]_<<basket, ordered>>
=============================================================================
