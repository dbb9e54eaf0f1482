------------------------------ MODULE StockRows ------------------------------
(***************************************************************************)
(* The rows of inventories under SetInv (inventory_srv/handler/inventory.go*)
(* and model/inventory.go), which looks for a product's row and saves it   *)
(* in a statement of its own.  The index on goods is not unique.           *)
(*                                                                         *)
(* Inventory.tla has the transactions of Sell, Reback and AutoReback and   *)
(* takes a product to have one row; here each is one step and a product    *)
(* has as many rows as there are.  The key of a row is its product, column *)
(* a its stock.                                                            *)
(***************************************************************************)
EXTENDS Gorm, FiniteSets

CONSTANTS StockGoods,
          Amounts  \* what SetInv sets, and orders ask for

VARIABLES counted,  \* history: what was set, less what was sold and not returned
          sale      \* sale[c]: the order of c, as its sell detail says

stockRowVars == <<counted, sale>>

\* There is no stock before the first SetInv.
ASSUME StockRowsAssumption ==
  /\ Amounts \subseteq Nat
  /\ InitialRows = [t \in TableNames |-> InitialRows[t]]
  /\ InitialRows["inventories"] = <<>>

NoSale == [goods |-> Empty, num |-> 0, status |-> 0]

StockInit ==
  /\ counted = [g \in StockGoods |-> 0]
  /\ sale = [c \in Callers |-> NoSale]

-----------------------------------------------------------------------------
StockOf(i) == tables["inventories"][i].a
RowsOf(g) == WithKey("inventories", g)

\* First, by id; 0 without a row.
FirstRow(g) ==
  IF RowsOf(g) = {} THEN 0 ELSE CHOOSE i \in RowsOf(g) : \A j \in RowsOf(g) : i <= j

\* The stock of the rows S changes by n.
AddTo(S, n) ==
  Write("inventories", [i \in DOMAIN tables["inventories"] |->
                          IF i \in S THEN [tables["inventories"][i] EXCEPT !.a = @ + n]
                                     ELSE tables["inventories"][i]])

Count(g, n) == counted' = [counted EXCEPT ![g] = @ + n]

\* Mutant: SetInv does not look for the row.
SetInvFindNot(c, g, n) ==
  /\ Request(c)
  /\ Hold(c, "save", "inventories", 0, NewRow(g, n, Empty))
  /\ UNCHANGED <<tables, failures, stockRowVars>>

SetInvFind(c, g, n) ==
  /\ Request(c)
  /\ Hold(c, "save", "inventories", FirstRow(g), NewRow(g, n, Empty))
  /\ UNCHANGED <<tables, failures, stockRowVars>>

\* A query that fails counts as no row.
SetInvFindFail(c, g, n) ==
  /\ call[c] = Rest /\ requests < MaxRequests
  /\ requests' = requests + 1
  /\ Failure
  /\ Hold(c, "save", "inventories", 0, NewRow(g, n, Empty))
  /\ UNCHANGED <<tables, stockRowVars>>

SetInvSave(c) ==
  /\ \/ /\ SaveInsert(c) \/ SaveUpdate(c)
        /\ counted' = [counted EXCEPT ![call[c].row.key] = call[c].row.a]
     \/ StatementFail(c) /\ UNCHANGED counted
  /\ UNCHANGED sale

\* Sales and returns come whenever they like.  One UPDATE ... WHERE goods = g
\* AND stocks - n > 0, of every such row.
Sell(c, g, n) ==
  LET S == {i \in RowsOf(g) : StockOf(i) - n > 0} IN
  /\ sale[c] = NoSale
  /\ S # {}
  /\ AddTo(S, -n)
  /\ Count(g, -n)
  /\ sale' = [sale EXCEPT ![c] = [goods |-> g, num |-> n, status |-> 1]]
  /\ UNCHANGED <<call, calm, requests, failures>>

\* AutoReback adds to every row of the product.
AutoReback(c) ==
  /\ sale[c].status = 1
  /\ AddTo(RowsOf(sale[c].goods), sale[c].num)
  /\ Count(sale[c].goods, sale[c].num)
  /\ sale' = [sale EXCEPT ![c].status = 2]
  /\ UNCHANGED <<call, calm, requests, failures>>

\* Reback locks and saves the first.
Reback(g, n) ==
  /\ RowsOf(g) # {}
  /\ requests < MaxRequests /\ requests' = requests + 1
  /\ AddTo({FirstRow(g)}, n)
  /\ Count(g, n)
  /\ UNCHANGED <<call, calm, failures, sale>>

StockNext ==
  \/ \E c \in Callers :
       \/ SetInvSave(c) \/ AutoReback(c)
       \/ \E g \in StockGoods, n \in Amounts :
            SetInvFind(c, g, n) \/ SetInvFindFail(c, g, n) \/ Sell(c, g, n)
  \/ \E g \in StockGoods, n \in Amounts : Reback(g, n)

StockSpec == GormInit /\ StockInit /\ [][StockNext]_<<gormVars, stockRowVars>>

-----------------------------------------------------------------------------
\* As long as SetInv calls do not overlap and none fails, a product has one
\* row, and what InvDetail reads there is what the last SetInv set, less what
\* was sold since and plus what was given back, whatever sales and returns
\* come between the two statements of SetInv.  No row ever has less than 0.
StockAsCounted ==
  /\ \A g \in StockGoods :
       calm => /\ Cardinality(RowsOf(g)) <= 1
               /\ \A i \in RowsOf(g) : StockOf(i) = counted[g]
  /\ \A i \in DOMAIN tables["inventories"] : StockOf(i) >= 0

-----------------------------------------------------------------------------
\* The inductive invariant behind StockAsCounted

StockRow == [key : StockGoods, a : Nat, b : {Empty}, st : {"live"}]

StockTypeOK ==
  /\ tables = [t \in TableNames |-> tables[t]]
  /\ tables["inventories"] \in Seq(StockRow)
  /\ call \in [Callers -> [pc : {"rest", "save"}, table : {"brands", "inventories"},
                           id : Nat, row : StockRow \cup {Rest.row}]]
  /\ counted \in [StockGoods -> Int]
  /\ sale \in [Callers -> [goods : StockGoods \cup {Empty}, num : Nat, status : 0..2]]

\* SetInv is about to save a row of its product, the one it found if any.
SetInvOK(x) ==
  x.pc = "save" => /\ x.table = "inventories" /\ x.row \in StockRow
                   /\ x.id # 0 => x.id \in RowsOf(x.row.key)

\* As long as SetInv calls do not overlap, one is under way at most, and the
\* product it found no row of has none yet.
SetInvAlone ==
  /\ \A c, d \in Callers : call[c] # Rest /\ call[d] # Rest => c = d
  /\ \A c \in Callers : call[c].pc = "save" /\ call[c].id = 0 => RowsOf(call[c].row.key) = {}
  /\ \A g \in StockGoods : \A i, j \in RowsOf(g) : i = j /\ StockOf(i) = counted[g]

StockRowsInv ==
  /\ StockTypeOK
  /\ \A c \in Callers : /\ call[c].pc = "rest" => call[c] = Rest
                        /\ SetInvOK(call[c])
                        /\ sale[c].status = 1 => sale[c].goods \in StockGoods
  /\ calm => SetInvAlone
=============================================================================
