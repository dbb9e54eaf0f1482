-------------------------------- MODULE Cart --------------------------------
(***************************************************************************)
(* The shopping_cart rows of one user under the cart calls of order_srv    *)
(* (order_srv/handler/order.go): CreateCartItem and UpdateCartItem read a  *)
(* row and save it whole in a later statement, DeleteCartItem marks rows   *)
(* deleted, and an order reads the checked rows, keeps the products that    *)
(* goods_srv finds, and deletes what is checked when it commits.  Nothing  *)
(* ties the statements of a call together.                                 *)
(***************************************************************************)
EXTENDS Integers, Sequences, FiniteSetsExt

CONSTANTS Goods, Sessions,
          Nums,    \* quantities a request may name
          None,
          MaxCalls, MaxFaults  \* bounds

ASSUME CartAssumption ==
  /\ Nums \subseteq Nat
  /\ None \notin Nat \cup [nums : Nat, checked : BOOLEAN]
  /\ MaxCalls \in Nat /\ MaxFaults \in Nat

VARIABLES rows,     \* the table: rows[i] has id i
          sess,     \* sess[s]: the call s is in, and the row it will save
          ordered,  \* the quantities of the user's last order, None for
                    \* a product that is not in it
          asked,    \* history: asked[g] is the sum of all requests for g
          calm,     \* history: no two calls have overlapped, none has failed
          calls, faults

vars == <<rows, sess, ordered, asked, calm, calls, faults>>

NoItems == [g \in Goods |-> None]
Idle == [pc |-> "idle", id |-> 0, row |-> None, add |-> 0, items |-> NoItems]

Init ==
  /\ rows = <<>>
  /\ sess = [s \in Sessions |-> Idle]
  /\ ordered = NoItems
  /\ asked = [g \in Goods |-> 0]
  /\ calm = TRUE
  /\ calls = 0 /\ faults = 0

-----------------------------------------------------------------------------
Live == {i \in DOMAIN rows : rows[i].live}
RowsOf(g) == {i \in Live : rows[i].goods = g}
CheckedRows == {i \in Live : rows[i].checked}

\* A request arrives.
Call(s) ==
  /\ sess[s] = Idle
  /\ calls < MaxCalls
  /\ calls' = calls + 1

\* Whether the cart's calls are still one after the other.
Alone == calm' = (calm /\ \A p \in Sessions : sess[p] = Idle)

Faulty == faults < MaxFaults /\ faults' = faults + 1 /\ calm' = FALSE
Finish(s) == sess' = [sess EXCEPT ![s] = Idle]

\* s has a row in hand, of id i or new (0), and goes on to Save it.
Hold(s, i, row, n) ==
  sess' = [sess EXCEPT ![s] = [pc |-> "save", id |-> i, row |-> row,
                               add |-> n, items |-> NoItems]]

NewRow(g, n) == [goods |-> g, nums |-> n, checked |-> FALSE, live |-> TRUE]
Ask(g, n) == asked' = [asked EXCEPT ![g] = @ + n]

\* Mutant: the quantity is taken off instead of added.
CreateReadMinus(s, g, n) ==
  /\ Call(s) /\ Alone
  /\ IF RowsOf(g) = {} THEN Hold(s, 0, NewRow(g, n), n)
     ELSE LET i == Min(RowsOf(g)) IN
          Hold(s, i, [rows[i] EXCEPT !.nums = @ - n], n)
  /\ Ask(g, n)
  /\ UNCHANGED <<rows, ordered, faults>>

\* Mutant: merges the quantities of all rows of g into one, keeps the others.
CreateReadSum(s, g, n) ==
  /\ Call(s) /\ Alone
  /\ IF RowsOf(g) = {} THEN Hold(s, 0, NewRow(g, n), n)
     ELSE LET i == Min(RowsOf(g)) IN
          Hold(s, i, [rows[i] EXCEPT !.nums =
                        n + MapThenSumSet(LAMBDA j : rows[j].nums, RowsOf(g))],
               n)
  /\ Ask(g, n)
  /\ UNCHANGED <<rows, ordered, faults>>

\* CreateCartItem: First, by product and user.
CreateRead(s, g, n) ==
  /\ Call(s) /\ Alone
  /\ IF RowsOf(g) = {} THEN Hold(s, 0, NewRow(g, n), n)
     ELSE LET i == Min(RowsOf(g)) IN
          Hold(s, i, [rows[i] EXCEPT !.nums = @ + n], n)
  /\ Ask(g, n)
  /\ UNCHANGED <<rows, ordered, faults>>

\* The query fails; that counts as no row.
CreateReadFail(s, g, n) ==
  /\ Call(s)
  /\ Faulty
  /\ Hold(s, 0, NewRow(g, n), n)
  /\ Ask(g, n)
  /\ UNCHANGED <<rows, ordered>>

\* Mutant: the quantity is always taken over.
UpdateReadAlways(s, g, c, n) ==
  /\ RowsOf(g) # {}
  /\ Call(s) /\ Alone
  /\ LET i == Min(RowsOf(g)) IN
     Hold(s, i, [rows[i] EXCEPT !.nums = n, !.checked = c], 0)
  /\ Ask(g, n)
  /\ UNCHANGED <<rows, ordered, faults>>

\* UpdateCartItem; without a row it answers NotFound and changes nothing.
UpdateRead(s, g, c, n) ==
  /\ RowsOf(g) # {}
  /\ Call(s) /\ Alone
  /\ LET i == Min(RowsOf(g)) IN
     Hold(s, i, [rows[i] EXCEPT !.nums = IF n > 0 THEN n ELSE @,
                                !.checked = c], 0)
  /\ Ask(g, n)
  /\ UNCHANGED <<rows, ordered, faults>>

\* Save of a new row is an INSERT.
SaveInsert(s) ==
  /\ sess[s].pc = "save" /\ sess[s].id = 0
  /\ rows' = Append(rows, sess[s].row)
  /\ Finish(s)
  /\ UNCHANGED <<ordered, asked, calm, calls, faults>>

\* Save of a row read before writes every column of it where it is live.
SaveUpdate(s) ==
  /\ sess[s].pc = "save" /\ sess[s].id \in Live
  /\ rows' = [rows EXCEPT ![sess[s].id] = sess[s].row]
  /\ Finish(s)
  /\ UNCHANGED <<ordered, asked, calm, calls, faults>>

\* No row was updated: gorm's Save goes on to INSERT ... ON DUPLICATE KEY.
SaveMiss(s) ==
  /\ sess[s].pc = "save" /\ sess[s].id \in DOMAIN rows \ Live
  /\ sess' = [sess EXCEPT ![s].pc = "upsert"]
  /\ UNCHANGED <<rows, ordered, asked, calm, calls, faults>>

\* That finds the deleted row and writes every column, deleted_at too.
SaveUpsert(s) ==
  /\ sess[s].pc = "upsert"
  /\ rows' = [rows EXCEPT ![sess[s].id] = sess[s].row]
  /\ Finish(s)
  /\ UNCHANGED <<ordered, asked, calm, calls, faults>>

\* The error of Save is not looked at.
SaveFail(s) ==
  /\ sess[s].pc \in {"save", "upsert"}
  /\ Faulty
  /\ Finish(s)
  /\ UNCHANGED <<rows, ordered, asked, calls>>

Deleted(S) == [i \in DOMAIN rows |->
                 IF i \in S THEN [rows[i] EXCEPT !.live = FALSE] ELSE rows[i]]

\* DeleteCartItem: one statement, every row of the product.
Delete(s, g) ==
  /\ RowsOf(g) # {}
  /\ Call(s) /\ Alone
  /\ rows' = Deleted(RowsOf(g))
  /\ UNCHANGED <<sess, ordered, asked, faults>>

\* goodsNumsMap: the last checked row of a product counts.
CheckedNums == [g \in Goods |-> LET S == RowsOf(g) \cap CheckedRows
                                IN IF S = {} THEN None ELSE rows[Max(S)].nums]

Only(items, found) == [g \in Goods |-> IF g \in found THEN items[g] ELSE None]

\* ExecuteLocalTransaction reads the checked rows into it.
OrderRead(s) ==
  /\ CheckedRows # {}
  /\ Call(s) /\ Alone
  /\ sess' = [sess EXCEPT ![s] =
       [Idle EXCEPT !.pc = "read", !.items = CheckedNums]]
  /\ UNCHANGED <<rows, ordered, asked, faults>>

\* BatchGetGoods: a product goods_srv does not find, for it is gone or the
\* query fails, falls out of the order.
OrderQuery(s) ==
  /\ sess[s].pc = "read"
  /\ \E found \in SUBSET Goods :
       sess' = [sess EXCEPT ![s].pc = "order", ![s].items = Only(@, found)]
  /\ UNCHANGED <<rows, ordered, asked, calm, calls, faults>>

\* An order of some product: what is checked by now is deleted, ordered or
\* not, and the order committed.
OrderDelete(s) ==
  /\ sess[s].pc = "order"
  /\ sess[s].items # NoItems
  /\ CheckedRows # {}
  /\ rows' = Deleted(CheckedRows)
  /\ ordered' = sess[s].items
  /\ Finish(s)
  /\ UNCHANGED <<asked, calm, calls, faults>>

\* The order comes to nothing, for want of products, checked rows or stock.
OrderFail(s) ==
  /\ sess[s].pc \in {"read", "order"}
  /\ Finish(s)
  /\ UNCHANGED <<rows, ordered, asked, calm, calls, faults>>

Save(s) == SaveInsert(s) \/ SaveUpdate(s) \/ SaveMiss(s) \/ SaveUpsert(s)

Next ==
  \E s \in Sessions :
    \/ \E g \in Goods, n \in Nums :
         CreateRead(s, g, n) \/ CreateReadFail(s, g, n)
    \/ \E g \in Goods, c \in BOOLEAN, n \in Nums : UpdateRead(s, g, c, n)
    \/ \E g \in Goods : Delete(s, g)
    \/ Save(s) \/ SaveFail(s)
    \/ OrderRead(s) \/ OrderQuery(s) \/ OrderDelete(s) \/ OrderFail(s)

Spec == Init /\ [][Next]_vars

-----------------------------------------------------------------------------
\* Properties

Row == [goods : Goods, nums : Nat, checked : BOOLEAN, live : BOOLEAN]
Items == [Goods -> Nat \cup {None}]
CallOf(n) == [pc : {"idle", "save", "upsert", "read", "order"}, id : 0..n,
              row : Row \cup {None}, add : Nat, items : Items]

TypeOK ==
  /\ rows \in Seq(Row)
  /\ sess \in [Sessions -> CallOf(Len(rows))]
  /\ ordered \in Items
  /\ asked \in [Goods -> Nat]
  /\ calm \in BOOLEAN
  /\ calls \in Nat /\ faults \in Nat

\* The cart the user sees, when there is one row per product.
basket == [g \in Goods |->
             IF RowsOf(g) = {} THEN None
             ELSE LET r == rows[Min(RowsOf(g))]
                  IN [nums |-> r.nums, checked |-> r.checked]]

B == INSTANCE Basket

\* As long as calls come one after the other they behave like the Basket:
\* CreateCartItem merges, UpdateCartItem sets, and an order has the quantities
\* the user saw of the checked items goods_srv finds, and takes all of them.
ImplementsBasket ==
  B!BasketInit /\ [][calm' => B!BasketNext]_<<basket, ordered>>

\* Races between the calls lose requests, and bring back rows that were
\* deleted, but never make up quantities: the rows of a product add up to no
\* more than was asked for.
NeverMoreThanAsked ==
  \A g \in Goods :
    MapThenSumSet(LAMBDA i : rows[i].nums, RowsOf(g)) <= asked[g]

\* A product that is not in the cart gets a new record (comment, order.go:50):
\* with the quantity asked for, and not with what was deleted or bought.
NewItemIsNew ==
  [][\A s \in Sessions :
       /\ sess[s].add > 0
       /\ SaveUpsert(s)
       /\ RowsOf(sess[s].row.goods) = {}
       => rows'[sess[s].id].nums = sess[s].add]_vars

-----------------------------------------------------------------------------
\* The inductive invariant behind NeverMoreThanAsked and ImplementsBasket

Saving(x) == x.pc \in {"save", "upsert"}

\* A call that saves has a row of the product it read.
CallOK(x) ==
  /\ x.pc = "idle" => x = Idle
  /\ Saving(x) => x.row \in Row /\ x.row.live
  /\ x.pc = "upsert" => x.id # 0
  /\ Saving(x) /\ x.id # 0 => rows[x.id].goods = x.row.goods

\* The pieces of g there are or may be: of every row, deleted ones too, as many
\* as it has or some call will write there, and those of rows to be inserted.
PiecesOfRow(i, n) == {<<"row", i>>} \X (1..n)
PiecesToCome(s, x) ==
  IF x.id = 0 THEN {<<"new", s>>} \X (1..x.row.nums) ELSE PiecesOfRow(x.id, x.row.nums)
Pieces(g) ==
  (UNION {PiecesOfRow(i, rows[i].nums) : i \in {j \in DOMAIN rows : rows[j].goods = g}})
  \cup (UNION {PiecesToCome(s, sess[s]) :
                 s \in {p \in Sessions : Saving(sess[p]) /\ sess[p].row.goods = g}})

PiecesAsked == \A g \in Goods : IsFiniteSet(Pieces(g)) /\ Cardinality(Pieces(g)) <= asked[g]

\* As long as calls come one after the other, one is under way at most, and
\* what it has read is still so.
Fresh(x) ==
  /\ x.pc # "upsert"
  /\ x.pc = "save" /\ x.id = 0 =>
       /\ RowsOf(x.row.goods) = {}
       /\ \E n \in Nums : x.row = NewRow(x.row.goods, n)
  /\ x.pc = "save" /\ x.id # 0 =>
       /\ x.id \in Live
       /\ \E n \in Nums, c \in BOOLEAN :
            \/ x.row = [rows[x.id] EXCEPT !.nums = @ + n]
            \/ x.row = [rows[x.id] EXCEPT !.nums = IF n > 0 THEN n ELSE @, !.checked = c]
  /\ x.pc = "read" => x.items = CheckedNums
  /\ x.pc = "order" =>
       \E found \in SUBSET Goods : x.items = Only(CheckedNums, found)

OneRowEach == \A g \in Goods : \A i, j \in RowsOf(g) : i = j

OneByOne ==
  /\ \A s, p \in Sessions : sess[s] # Idle /\ sess[p] # Idle => s = p
  /\ \A s \in Sessions : Fresh(sess[s])
  /\ OneRowEach

CartInv ==
  /\ TypeOK
  /\ \A s \in Sessions : CallOK(sess[s])
  /\ PiecesAsked
  /\ calm => OneByOne
=============================================================================
