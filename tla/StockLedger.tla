---------------------------- MODULE StockLedger ----------------------------
(***************************************************************************)
(* What inventory_srv promises its callers, with every remote call atomic: *)
(* one stock level per product, and per order number at most one sale that *)
(* is given back at most once.  Inventory.tla, which runs the SQL          *)
(* statements of concurrent transactions one by one, implements it.        *)
(***************************************************************************)
EXTENDS Integers

CONSTANTS Goods,     \* product ids
          Orders,    \* order numbers
          Requests,  \* the quantity lists a caller may send: [Goods -> Nat]
          Levels     \* the stock levels SetInv is called with

VARIABLES stocks,    \* stocks[g]: table inventories
          status,    \* status[o]: 0 no sell detail, 1 deducted, 2 returned
          sold       \* sold[o][g]: the quantities of the sell detail

ledger == <<stocks, status, sold>>

NoItems == [g \in Goods |-> 0]

\* Enough stock, as the WHERE clause of Sell sees it.
Sufficient(q) == \A g \in Goods : q[g] > 0 => stocks[g] - q[g] > 0

Minus(q) == [g \in Goods |-> stocks[g] - q[g]]
Plus(q) == [g \in Goods |-> stocks[g] + q[g]]

LedgerInit ==
  /\ stocks \in [Goods -> Levels \cup {0}]
  /\ status = [o \in Orders |-> 0]
  /\ sold = [o \in Orders |-> NoItems]

\* One sale per order number, all of its products or none.
LedgerSell(o, q) ==
  /\ status[o] = 0
  /\ Sufficient(q)
  /\ stocks' = Minus(q)
  /\ status' = [status EXCEPT ![o] = 1]
  /\ sold' = [sold EXCEPT ![o] = q]

\* The sale of an order goes back exactly once.
LedgerReturn(o) ==
  /\ status[o] = 1
  /\ stocks' = Plus(sold[o])
  /\ status' = [status EXCEPT ![o] = 2]
  /\ UNCHANGED sold

\* Reback adds what its caller names, or some of it, and looks at no detail.
LedgerReback(q, some) ==
  /\ stocks' = Plus([g \in Goods |-> IF g \in some THEN q[g] ELSE 0])
  /\ UNCHANGED <<status, sold>>

LedgerSetInv(g, n) ==
  /\ stocks' = [stocks EXCEPT ![g] = n]
  /\ UNCHANGED <<status, sold>>

LedgerNext ==
  \/ \E o \in Orders, q \in Requests : LedgerSell(o, q)
  \/ \E o \in Orders : LedgerReturn(o)
  \/ \E q \in Requests, some \in SUBSET Goods : LedgerReback(q, some)
  \/ \E g \in Goods, n \in Levels : LedgerSetInv(g, n)

LedgerSpec == LedgerInit /\ [][LedgerNext]_ledger
=============================================================================
