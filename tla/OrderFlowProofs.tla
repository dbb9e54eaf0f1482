-------------------------- MODULE OrderFlowProofs --------------------------
(***************************************************************************)
(* Proofs about OrderFlow for any number of orders, users and products and *)
(* any bounds.  A step of one order leaves every other order's part of     *)
(* IInv alone (Others): it changes nothing of theirs but a cart nobody has *)
(* locked.  So each action has a lemma that shows IInv for its own order,  *)
(* and Combine adds the rest.  The handler's failures are one lemma:       *)
(* whatever step it gives up at, it leaves no row (GivesUp).               *)
(***************************************************************************)
EXTENDS OrderFlow, TLAPS

USE DEF At, envVars

\* What is known of order p stays as it is.
Same(p) ==
  /\ h'[p] = h[p] /\ late'[p] = late[p] /\ row'[p] = row[p]
  /\ half'[p] = half[p] /\ (p \in inbox' <=> p \in inbox)
  /\ status'[p] = status[p] /\ sold'[p] = sold[p]
  /\ timer'[p] = timer[p] /\ t'[p] = t[p] /\ unseen'[p] = unseen[p]

\* Who has deleted the cart rows keeps them locked; without a change of the
\* user's a cart stays as it is or is emptied.
CartKept(p) ==
  /\ h[p].pc \in {"deleted", "sent"} =>
       /\ cartLock'[UserOf[p]] = cartLock[UserOf[p]]
       /\ cart'[UserOf[p]] = cart[UserOf[p]]
  /\ ops' = 0 => ops = 0 /\ cart'[UserOf[p]] \in {cart[UserOf[p]], NoItems}

Keeps(p) == HandlerOK(p)' /\ RowOK(p)' /\ TimeoutOK(p)'

LEMMA Others ==
  ASSUME IInv, NEW p \in Orders, Same(p), CartKept(p)
  PROVE  Keeps(p)
<1> USE DEF Same, CartKept, IInv, Running
<1>1. HandlerOK(p)'
  BY DEF HandlerOK
<1>2. RowOK(p)'
  BY DEF RowOK
<1>3. TimeoutOK(p)'
  BY DEF TimeoutOK
<1> QED BY <1>1, <1>2, <1>3 DEF Keeps

LEMMA Combine ==
  ASSUME IInv, NEW o \in Orders, TypeOK', Keeps(o),
         \A p \in Orders \ {o} : Same(p) /\ CartKept(p)
  PROVE  IInv'
BY Others DEF IInv, Keeps

\* An order whose handler runs on has no row, so only its HandlerOK is at
\* stake; and not even that once the handler has ended.
LEMMA NoOrder ==
  ASSUME NEW o \in Orders, row'[o] = None, t'[o] = "idle",
         HandlerOK(o)' \/ h'[o].pc \in {"ending", "done", "dead"}
  PROVE  Keeps(o)
<1>1. HandlerOK(o)'
  BY DEF HandlerOK, Running
<1>2. RowOK(o)'
  BY DEF RowOK
<1>3. TimeoutOK(o)'
  BY OrderFlowAssumption DEF TimeoutOK, OrderFlowAssumption
<1> QED BY <1>1, <1>2, <1>3 DEF Keeps

\* While the handler runs there is no row and no timeout.
LEMMA RunningFacts ==
  ASSUME IInv, NEW o \in Orders, At(o, "new") \/ Running(o)
  PROVE  row[o] = None /\ t[o] = "idle" /\ ~late[o]
BY DEF IInv, HandlerOK, TimeoutOK

LEMMA GotoFacts ==
  ASSUME IInv, NEW o \in Orders, NEW c \in PCs, Goto(o, c)
  PROVE  /\ h' \in [Orders -> Handlers]
         /\ h'[o].pc = c /\ h'[o].items = h[o].items
         /\ h'[o].verdict = h[o].verdict
         /\ \A p \in Orders \ {o} : h'[p] = h[p]
<1>1. h \in [Orders -> Handlers] /\ h[o] \in Handlers
  BY DEF IInv, TypeOK
<1>2. PICK e \in Handlers : e = [h[o] EXCEPT !.pc = c]
  BY <1>1 DEF Handlers
<1>3. h' = [h EXCEPT ![o] = e]
  BY <1>1, <1>2 DEF Goto
<1>4. /\ e.pc = c /\ e.items = h[o].items
      /\ e.verdict = h[o].verdict /\ e.reply = h[o].reply
  BY <1>1, <1>2 DEF Handlers
<1> QED BY <1>1, <1>3, <1>4

LEMMA ReturnFacts ==
  ASSUME IInv, NEW o \in Orders, NEW v \in {"commit", "rollback"},
         NEW r \in {"OK", "error"}, Return(o, v, r)
  PROVE  /\ h' \in [Orders -> Handlers]
         /\ h'[o].pc = "ending" /\ h'[o].items = h[o].items
         /\ h'[o].verdict = v /\ h'[o].reply = r
         /\ \A p \in Orders \ {o} : h'[p] = h[p]
<1> DEFINE e == [h[o] EXCEPT !.pc = "ending", !.verdict = v, !.reply = r]
<1>1. h \in [Orders -> Handlers] /\ h[o] \in Handlers
  BY DEF IInv, TypeOK
<1>2. h' = [h EXCEPT ![o] = e]
  BY <1>1 DEF Return, Handlers
<1>3. e \in Handlers
  BY <1>1 DEF Handlers, PCs
<1>4. e.pc = "ending" /\ e.items = h[o].items /\ e.verdict = v /\ e.reply = r
  BY <1>1 DEF Handlers
<1> HIDE DEF e
<1> QED BY <1>1, <1>2, <1>3, <1>4

LEMMA PutFacts ==
  ASSUME IInv, NEW o \in Orders, NEW e \in Handlers, h' = [h EXCEPT ![o] = e]
  PROVE  /\ h' \in [Orders -> Handlers] /\ h'[o] = e
         /\ \A p \in Orders \ {o} : h'[p] = h[p]
BY DEF IInv, TypeOK

-----------------------------------------------------------------------------
\* The handler ends without an order, whatever step it fails at: at most a
\* message of its own, a call it no longer waits for and its locks change.

GivesUp(o) ==
  /\ At(o, "new") \/ Running(o)
  /\ h' \in [Orders -> Handlers] /\ h'[o].pc \in {"ending", "done"}
  /\ late' \in [Orders -> BOOLEAN]
  /\ timer' \in [Orders -> {"none", "armed", "due", "gone"}]
  /\ half' \in [Orders -> {"none", "prepared", "committed", "dropped"}]
  /\ unseen' \in [Orders -> SUBSET Causes]
  /\ \A p \in Orders \ {o} : /\ h'[p] = h[p] /\ late'[p] = late[p]
                             /\ timer'[p] = timer[p] /\ half'[p] = half[p]
                             /\ unseen'[p] = unseen[p]
  /\ cartLock' = cartLock \/ Unlock(o)
  /\ faults' \in Nat
  /\ UNCHANGED <<stocks, status, sold, row, cart, inbox, t, tries, ops>>

LEMMA GivesUpInv ==
  ASSUME IInv, NEW o \in Orders, GivesUp(o)
  PROVE  IInv'
<1>1. /\ cartLock' \in [Users -> Orders \cup {None}]
      /\ \A u \in Users : cartLock[u] # o => cartLock'[u] = cartLock[u]
  <2>1. cartLock \in [Users -> Orders \cup {None}]
    BY DEF IInv, TypeOK
  <2>2. CASE cartLock' = cartLock
    BY <2>1, <2>2
  <2>3. CASE Unlock(o)
    BY <2>1, <2>3 DEF Unlock
  <2> QED BY <2>2, <2>3 DEF GivesUp
<1>2. TypeOK'
  BY <1>1 DEF IInv, TypeOK, GivesUp
<1>3. Keeps(o)
  BY RunningFacts, NoOrder DEF GivesUp
<1>4. ASSUME NEW p \in Orders \ {o} PROVE Same(p) /\ CartKept(p)
  <2>1. Same(p)
    BY DEF GivesUp, Same
  <2>2. UserOf[p] \in Users
    BY OrderFlowAssumption DEF OrderFlowAssumption
  <2>3. h[p].pc \in {"deleted", "sent"} => cartLock[UserOf[p]] = p
    BY DEF IInv, HandlerOK
  <2>4. CartKept(p)
    BY <1>1, <2>2, <2>3 DEF GivesUp, CartKept
  <2> QED BY <2>1, <2>4
<1> QED BY <1>2, <1>3, <1>4, Combine

LEMMA FaultyFacts ==
  ASSUME IInv, faults' = faults \/ Faulty
  PROVE  faults' \in Nat
<1>1. faults \in Nat
  BY DEF IInv, TypeOK
<1> QED BY <1>1 DEF Faulty

LEMMA MissedFacts ==
  ASSUME IInv, NEW o \in Orders, NEW c \in Causes, Missed(o, c)
  PROVE  /\ unseen' \in [Orders -> SUBSET Causes]
         /\ unseen'[o] = unseen[o] \cup {c}
         /\ \A p \in Orders \ {o} : unseen'[p] = unseen[p]
<1>1. unseen \in [Orders -> SUBSET Causes]
  BY DEF IInv, TypeOK
<1> QED BY <1>1 DEF Missed

LEMMA ReturnGivesUp ==
  ASSUME IInv, NEW o \in Orders, Running(o),
         NEW v \in {"commit", "rollback"}, NEW r \in {"OK", "error"},
         Return(o, v, r),
         late' = late \/ late' = [late EXCEPT ![o] = TRUE],
         \/ timer' = timer
         \/ \E s \in {"none", "armed"} : timer' = [timer EXCEPT ![o] = s],
         cartLock' = cartLock \/ Unlock(o),
         faults' = faults \/ Faulty,
         unseen' = unseen \/ \E c \in Causes : Missed(o, c),
         UNCHANGED <<stocks, status, sold, row, cart, half, inbox, t, tries,
                     ops>>
  PROVE  GivesUp(o)
<1>1. /\ h' \in [Orders -> Handlers] /\ h'[o].pc = "ending"
      /\ \A p \in Orders \ {o} : h'[p] = h[p]
  BY ReturnFacts
<1>2. /\ late' \in [Orders -> BOOLEAN]
      /\ \A p \in Orders \ {o} : late'[p] = late[p]
  BY DEF IInv, TypeOK
<1>3. /\ timer' \in [Orders -> {"none", "armed", "due", "gone"}]
      /\ \A p \in Orders \ {o} : timer'[p] = timer[p]
  <2>1. timer \in [Orders -> {"none", "armed", "due", "gone"}]
    BY DEF IInv, TypeOK
  <2>2. ASSUME NEW s \in {"none", "armed"}, timer' = [timer EXCEPT ![o] = s]
        PROVE  /\ timer' \in [Orders -> {"none", "armed", "due", "gone"}]
               /\ \A p \in Orders \ {o} : timer'[p] = timer[p]
    BY <2>1, <2>2
  <2> QED BY <2>1, <2>2
<1>4. half \in [Orders -> {"none", "prepared", "committed", "dropped"}]
  BY DEF IInv, TypeOK
<1>5. faults' \in Nat
  BY FaultyFacts
<1>6. /\ unseen' \in [Orders -> SUBSET Causes]
      /\ \A p \in Orders \ {o} : unseen'[p] = unseen[p]
  BY MissedFacts DEF IInv, TypeOK
<1> QED BY <1>1, <1>2, <1>3, <1>4, <1>5, <1>6 DEF GivesUp

LEMMA SendHalfFailInv ==
  ASSUME IInv, NEW o \in Orders, SendHalfFail(o)
  PROVE  IInv'
<1> DEFINE e == [h[o] EXCEPT !.pc = "done", !.reply = "error"]
<1>1. h' = [h EXCEPT ![o] = e] /\ e \in Handlers /\ e.pc = "done"
  BY DEF IInv, TypeOK, Handlers, PCs, SendHalfFail
<1> HIDE DEF e
<1>2. /\ h' \in [Orders -> Handlers] /\ h'[o].pc = "done"
      /\ \A p \in Orders \ {o} : h'[p] = h[p]
  BY <1>1, PutFacts
<1>3. PICK s \in {"none", "prepared"} : half' = [half EXCEPT ![o] = s]
  BY DEF SendHalfFail
<1>4. /\ half' \in [Orders -> {"none", "prepared", "committed", "dropped"}]
      /\ \A p \in Orders \ {o} : half'[p] = half[p]
  BY <1>3 DEF IInv, TypeOK
<1>5. /\ faults' \in Nat /\ At(o, "new")
      /\ UNCHANGED <<stocks, status, sold, late, row, cart, cartLock, inbox,
                     timer, t, tries, ops, unseen>>
  BY FaultyFacts DEF SendHalfFail, stockVars, timeoutVars
<1>6. GivesUp(o)
  BY <1>2, <1>4, <1>5 DEF IInv, TypeOK, GivesUp
<1> QED BY <1>6, GivesUpInv

LEMMA SendHalfNotOKInv ==
  ASSUME IInv, NEW o \in Orders, SendHalfNotOK(o)
  PROVE  IInv'
<1>1. /\ h' \in [Orders -> Handlers] /\ h'[o].pc = "ending"
      /\ \A p \in Orders \ {o} : h'[p] = h[p]
  BY ReturnFacts DEF SendHalfNotOK
<1>2. /\ half' \in [Orders -> {"none", "prepared", "committed", "dropped"}]
      /\ \A p \in Orders \ {o} : half'[p] = half[p]
  BY DEF IInv, TypeOK, SendHalfNotOK
<1>3. /\ faults' \in Nat /\ At(o, "new")
      /\ UNCHANGED <<stocks, status, sold, late, row, cart, cartLock, inbox,
                     timer, t, tries, ops, unseen>>
  BY FaultyFacts DEF SendHalfNotOK, stockVars, timeoutVars
<1>4. GivesUp(o)
  BY <1>1, <1>2, <1>3 DEF IInv, TypeOK, GivesUp
<1> QED BY <1>4, GivesUpInv

LEMMA FailureInv ==
  ASSUME IInv, NEW o \in Orders,
         \/ CallFail(o) \/ SellRefused(o) \/ SellBroken(o) \/ StatementFail(o)
         \/ SendTimeoutFail(o) \/ CommitOrderFail(o)
  PROVE  IInv'
<1> USE DEF Running, stockVars, timeoutVars, Causes
<1>1. CASE CallFail(o)
  BY <1>1, ReturnGivesUp, GivesUpInv DEF CallFail
<1>2. CASE SellRefused(o)
  BY <1>2, ReturnGivesUp, GivesUpInv DEF SellRefused
<1>3. CASE SellBroken(o)
  BY <1>3, ReturnGivesUp, GivesUpInv DEF SellBroken
<1>4. CASE StatementFail(o)
  BY <1>4, ReturnGivesUp, GivesUpInv DEF StatementFail
<1>5. CASE SendTimeoutFail(o)
  BY <1>5, ReturnGivesUp, GivesUpInv DEF SendTimeoutFail
<1>6. CASE CommitOrderFail(o)
  BY <1>6, ReturnGivesUp, GivesUpInv DEF CommitOrderFail
<1> QED BY <1>1, <1>2, <1>3, <1>4, <1>5, <1>6

-----------------------------------------------------------------------------
\* The handler runs on.

LEMMA SendHalfInv ==
  ASSUME IInv, NEW o \in Orders, SendHalf(o)
  PROVE  IInv'
<1>1. /\ h' \in [Orders -> Handlers] /\ h'[o].pc = "half"
      /\ \A p \in Orders \ {o} : h'[p] = h[p]
  BY GotoFacts DEF SendHalf, PCs
<1>2. /\ At(o, "new")
      /\ half' = [half EXCEPT ![o] = "prepared"]
      /\ UNCHANGED <<stocks, status, sold, late, row, cart, cartLock, inbox,
                     timer, t, tries, faults, ops, unseen>>
  BY DEF SendHalf, stockVars, timeoutVars
<1>3. TypeOK'
  BY <1>1, <1>2 DEF IInv, TypeOK
<1>4. HandlerOK(o)'
  <2>1. HandlerOK(o) /\ row[o] = None /\ ~late[o]
    BY <1>2, RunningFacts DEF IInv
  <2>2. half'[o] = "prepared"
    BY <1>2 DEF IInv, TypeOK
  <2> QED BY <1>1, <1>2, <2>1, <2>2 DEF HandlerOK, Running
<1>5. Keeps(o)
  BY <1>2, <1>4, RunningFacts, NoOrder
<1>6. \A p \in Orders \ {o} : Same(p) /\ CartKept(p)
  BY <1>1, <1>2 DEF IInv, TypeOK, Same, CartKept
<1> QED BY <1>3, <1>5, <1>6, Combine

LEMMA ReadCartInv ==
  ASSUME IInv, NEW o \in Orders, ReadCart(o)
  PROVE  IInv'
<1>1. /\ At(o, "half")
      /\ UNCHANGED <<stocks, status, sold, late, row, cart, cartLock, half,
                     inbox, timer, t, tries, faults, ops, unseen>>
  BY DEF ReadCart, stockVars, timeoutVars
<1>2. CASE cart[UserOf[o]] = NoItems
  BY <1>1, <1>2, ReturnGivesUp, GivesUpInv DEF ReadCart, Running
<1>3. CASE cart[UserOf[o]] # NoItems
  <2> DEFINE e == [h[o] EXCEPT !.pc = "read", !.items = cart[UserOf[o]]]
  <2>1. cart[UserOf[o]] \in [Goods -> Nat]
    BY OrderFlowAssumption DEF OrderFlowAssumption, IInv, TypeOK
  <2>2. h[o] \in Handlers
    BY DEF IInv, TypeOK
  <2>3. h' = [h EXCEPT ![o] = e] /\ e \in Handlers /\ e.pc = "read"
    BY <1>3, <2>1, <2>2 DEF Handlers, PCs, ReadCart
  <2> HIDE DEF e
  <2>4. /\ h' \in [Orders -> Handlers] /\ h'[o].pc = "read"
        /\ \A p \in Orders \ {o} : h'[p] = h[p]
    BY <2>3, PutFacts
  <2>5. TypeOK'
    BY <1>1, <2>4 DEF IInv, TypeOK
  <2>6. HandlerOK(o)'
    BY <1>1, <2>4, RunningFacts DEF IInv, HandlerOK, Running
  <2>7. Keeps(o)
    BY <1>1, <2>6, RunningFacts, NoOrder DEF Running
  <2>8. \A p \in Orders \ {o} : Same(p) /\ CartKept(p)
    BY <1>1, <2>4 DEF Same, CartKept
  <2> QED BY <2>5, <2>7, <2>8, Combine
<1> QED BY <1>2, <1>3

LEMMA QueriedInv ==
  ASSUME IInv, NEW o \in Orders, NEW q \in [Goods -> Nat],
         At(o, "read"), faults' = faults \/ Faulty,
         h' = [h EXCEPT ![o] = [h[o] EXCEPT !.pc = "queried", !.items = q]],
         UNCHANGED <<stocks, status, sold, late, row, cart, cartLock, half,
                     inbox, timer, t, tries, ops, unseen>>
  PROVE  IInv'
<1> DEFINE e == [h[o] EXCEPT !.pc = "queried", !.items = q]
<1>1. h[o] \in Handlers
  BY DEF IInv, TypeOK
<1>2. e \in Handlers /\ e.pc = "queried"
  BY <1>1 DEF Handlers, PCs
<1>3. h' = [h EXCEPT ![o] = e] /\ faults' \in Nat
  BY FaultyFacts
<1> HIDE DEF e
<1>4. /\ h' \in [Orders -> Handlers] /\ h'[o].pc = "queried"
      /\ \A p \in Orders \ {o} : h'[p] = h[p]
  BY <1>2, <1>3, PutFacts
<1>5. TypeOK'
  BY <1>3, <1>4 DEF IInv, TypeOK
<1>6. HandlerOK(o)'
  BY <1>4, RunningFacts DEF IInv, HandlerOK, Running, At
<1>7. Keeps(o)
  BY <1>6, RunningFacts, NoOrder DEF Running, At
<1>8. \A p \in Orders \ {o} : Same(p) /\ CartKept(p)
  BY <1>4 DEF Same, CartKept
<1> QED BY <1>5, <1>7, <1>8, Combine

LEMMA QueryGoodsInv ==
  ASSUME IInv, NEW o \in Orders, QueryGoods(o) \/ QueryGoodsNone(o)
  PROVE  IInv'
<1>1. h[o] \in Handlers
  BY DEF IInv, TypeOK
<1>2. CASE QueryGoods(o)
  <2> DEFINE q == [g \in Goods |-> IF g \in Catalog THEN h[o].items[g] ELSE 0]
  <2>1. q \in [Goods -> Nat]
    BY <1>1 DEF Handlers
  <2>2. h' = [h EXCEPT ![o] = [h[o] EXCEPT !.pc = "queried", !.items = q]]
    BY <1>1, <1>2 DEF QueryGoods, Handlers
  <2> HIDE DEF q
  <2> QED BY <1>2, <2>1, <2>2, QueriedInv DEF QueryGoods, stockVars, timeoutVars
<1>3. CASE QueryGoodsNone(o)
  <2>1. NoItems \in [Goods -> Nat]
    BY DEF NoItems
  <2>2. h' = [h EXCEPT ![o] = [h[o] EXCEPT !.pc = "queried", !.items = NoItems]]
    BY <1>1, <1>3 DEF QueryGoodsNone, Handlers
  <2> QED BY <1>3, <2>1, <2>2, QueriedInv DEF QueryGoodsNone, stockVars, timeoutVars
<1> QED BY <1>2, <1>3

\* What the ledger's steps do to the tables.
LEMMA LedgerSellFacts ==
  ASSUME IInv, NEW o \in Orders, NEW q \in [Goods -> Nat],
         Ledger!LedgerSell(o, q)
  PROVE  /\ stocks' \in [Goods -> Int] /\ status' \in [Orders -> 0..2]
         /\ sold' \in [Orders -> [Goods -> Nat]]
         /\ status[o] = 0 /\ status'[o] = 1 /\ sold'[o] = q
         /\ \A p \in Orders \ {o} : /\ status'[p] = status[p]
                                    /\ sold'[p] = sold[p]
<1> USE DEF Ledger!LedgerSell
<1>1. /\ stocks \in [Goods -> Int] /\ status \in [Orders -> 0..2]
      /\ sold \in [Orders -> [Goods -> Nat]]
  BY DEF IInv, TypeOK
<1>2. stocks' \in [Goods -> Int]
  BY <1>1 DEF Ledger!Minus
<1> QED BY <1>1, <1>2

LEMMA LedgerReturnFacts ==
  ASSUME IInv, NEW o \in Orders, Ledger!LedgerReturn(o)
  PROVE  /\ stocks' \in [Goods -> Int] /\ status' \in [Orders -> 0..2]
         /\ sold' = sold
         /\ status[o] = 1 /\ status'[o] = 2
         /\ \A p \in Orders \ {o} : status'[p] = status[p]
<1> USE DEF Ledger!LedgerReturn
<1>1. /\ stocks \in [Goods -> Int] /\ status \in [Orders -> 0..2]
      /\ sold \in [Orders -> [Goods -> Nat]]
  BY DEF IInv, TypeOK
<1>2. stocks' \in [Goods -> Int]
  BY <1>1 DEF Ledger!Plus
<1> QED BY <1>1, <1>2

LEMMA SellInv ==
  ASSUME IInv, NEW o \in Orders, Sell(o)
  PROVE  IInv'
<1>1. /\ h' \in [Orders -> Handlers] /\ h'[o].pc = "sold"
      /\ h'[o].items = h[o].items
      /\ \A p \in Orders \ {o} : h'[p] = h[p]
  BY GotoFacts DEF Sell, PCs
<1>2. /\ At(o, "queried")
      /\ UNCHANGED <<late, row, cart, cartLock, half, inbox, timer, t, tries,
                     faults, ops, unseen>>
  BY DEF Sell, timeoutVars
<1>3. h[o].items \in [Goods -> Nat]
  BY DEF IInv, TypeOK, Handlers
<1>4. /\ stocks' \in [Goods -> Int] /\ status' \in [Orders -> 0..2]
      /\ sold' \in [Orders -> [Goods -> Nat]]
      /\ status'[o] = 1 /\ sold'[o] = h[o].items
      /\ \A p \in Orders \ {o} : /\ status'[p] = status[p]
                                 /\ sold'[p] = sold[p]
  BY <1>3, LedgerSellFacts DEF Sell
<1>5. TypeOK'
  BY <1>1, <1>2, <1>4 DEF IInv, TypeOK
<1>6. HandlerOK(o)'
  BY <1>1, <1>2, <1>4, RunningFacts DEF IInv, HandlerOK, Running
<1>7. Keeps(o)
  BY <1>2, <1>6, RunningFacts, NoOrder DEF Running
<1>8. \A p \in Orders \ {o} : Same(p) /\ CartKept(p)
  BY <1>1, <1>2, <1>4 DEF Same, CartKept
<1> QED BY <1>5, <1>7, <1>8, Combine

LEMMA SaveOrderInv ==
  ASSUME IInv, NEW o \in Orders, SaveOrder(o)
  PROVE  IInv'
<1>1. /\ At(o, "sold")
      /\ UNCHANGED <<stocks, status, sold, late, row, cart, cartLock, half,
                     inbox, timer, t, tries, faults, ops, unseen>>
  BY DEF SaveOrder, stockVars, timeoutVars
<1>2. CASE h[o].items = NoItems
  BY <1>1, <1>2, ReturnGivesUp, GivesUpInv DEF SaveOrder, Running
<1>3. CASE h[o].items # NoItems
  <2>1. /\ h' \in [Orders -> Handlers] /\ h'[o].pc = "saved"
        /\ h'[o].items = h[o].items
        /\ \A p \in Orders \ {o} : h'[p] = h[p]
    BY <1>3, GotoFacts DEF SaveOrder, PCs
  <2>2. TypeOK'
    BY <1>1, <2>1 DEF IInv, TypeOK
  <2>3. HandlerOK(o)'
    BY <1>1, <2>1, RunningFacts DEF IInv, HandlerOK, Running
  <2>4. Keeps(o)
    BY <1>1, <2>3, RunningFacts, NoOrder DEF Running
  <2>5. \A p \in Orders \ {o} : Same(p) /\ CartKept(p)
    BY <1>1, <2>1 DEF Same, CartKept
  <2> QED BY <2>2, <2>4, <2>5, Combine
<1> QED BY <1>2, <1>3

LEMMA DeleteCartInv ==
  ASSUME IInv, NEW o \in Orders, DeleteCart(o)
  PROVE  IInv'
<1> DEFINE u == UserOf[o]
<1>1. /\ At(o, "saved") /\ cartLock[u] = None
      /\ UNCHANGED <<stocks, status, sold, late, row, cart, half, inbox,
                     timer, t, tries, faults, ops, unseen>>
  BY DEF DeleteCart, stockVars, timeoutVars
<1>2. CASE cart[u] = NoItems
  BY <1>1, <1>2, ReturnGivesUp, GivesUpInv DEF DeleteCart, Running
<1>3. CASE cart[u] # NoItems
  <2>1. /\ h' \in [Orders -> Handlers] /\ h'[o].pc = "deleted"
        /\ h'[o].items = h[o].items
        /\ \A p \in Orders \ {o} : h'[p] = h[p]
    BY <1>3, GotoFacts DEF DeleteCart, PCs
  <2>2. u \in Users /\ cartLock \in [Users -> Orders \cup {None}]
    BY OrderFlowAssumption DEF OrderFlowAssumption, IInv, TypeOK
  <2>3. cartLock' = [cartLock EXCEPT ![u] = o]
    BY <1>3 DEF DeleteCart
  <2>4. TypeOK'
    BY <1>1, <2>1, <2>2, <2>3 DEF IInv, TypeOK
  <2>5. HandlerOK(o)'
    BY <1>1, <1>3, <2>1, <2>2, <2>3, RunningFacts
       DEF IInv, HandlerOK, Running
  <2>6. Keeps(o)
    BY <1>1, <2>5, RunningFacts, NoOrder DEF Running
  <2>7. ASSUME NEW p \in Orders \ {o} PROVE Same(p) /\ CartKept(p)
    <3>1. Same(p)
      BY <1>1, <2>1 DEF Same
    <3>2. h[p].pc \in {"deleted", "sent"} => cartLock[UserOf[p]] = p
      BY DEF IInv, HandlerOK
    <3>3. p # None
      BY OrderFlowAssumption DEF OrderFlowAssumption
    <3>4. CartKept(p)
      BY <1>1, <2>2, <2>3, <3>2, <3>3 DEF CartKept
    <3> QED BY <3>1, <3>4
  <2> QED BY <2>4, <2>6, <2>7, Combine
<1> QED BY <1>2, <1>3

LEMMA SendTimeoutInv ==
  ASSUME IInv, NEW o \in Orders, SendTimeout(o)
  PROVE  IInv'
<1>1. /\ h' \in [Orders -> Handlers] /\ h'[o].pc = "sent"
      /\ h'[o].items = h[o].items
      /\ \A p \in Orders \ {o} : h'[p] = h[p]
  BY GotoFacts DEF SendTimeout, PCs
<1>2. /\ At(o, "deleted")
      /\ timer' = [timer EXCEPT ![o] = "armed"]
      /\ UNCHANGED <<stocks, status, sold, late, row, cart, cartLock, half,
                     inbox, t, tries, faults, ops, unseen>>
  BY DEF SendTimeout, stockVars
<1>3. TypeOK'
  BY <1>1, <1>2 DEF IInv, TypeOK
<1>4. HandlerOK(o)'
  BY <1>1, <1>2, RunningFacts DEF IInv, HandlerOK, Running
<1>5. Keeps(o)
  BY <1>2, <1>4, RunningFacts, NoOrder DEF Running
<1>6. \A p \in Orders \ {o} : Same(p) /\ CartKept(p)
  BY <1>1, <1>2 DEF IInv, TypeOK, Same, CartKept
<1> QED BY <1>3, <1>5, <1>6, Combine

\* COMMIT: the order appears and the cart is empty, which concerns no other
\* order of the user, because the locks are this one's.
LEMMA CommitOrderInv ==
  ASSUME IInv, NEW o \in Orders, CommitOrder(o)
  PROVE  IInv'
<1> DEFINE u == UserOf[o]
<1>1. /\ h' \in [Orders -> Handlers] /\ h'[o].pc = "ending"
      /\ h'[o].items = h[o].items /\ h'[o].verdict = "rollback"
      /\ \A p \in Orders \ {o} : h'[p] = h[p]
  BY ReturnFacts DEF CommitOrder
<1>2. /\ At(o, "sent")
      /\ row' = [row EXCEPT ![o] = ""]
      /\ cart' = [cart EXCEPT ![u] = NoItems]
      /\ Unlock(o)
      /\ UNCHANGED <<stocks, status, sold, late, half, inbox, timer, t, tries,
                     faults, ops, unseen>>
  BY DEF CommitOrder, stockVars, timeoutVars
<1>3. u \in Users /\ NoItems \in [Goods -> Nat]
  BY OrderFlowAssumption DEF OrderFlowAssumption, NoItems
<1>4. /\ cart' \in [Users -> [Goods -> Nat]] /\ cart'[u] = NoItems
      /\ \A w \in Users \ {u} : cart'[w] = cart[w]
  BY <1>2, <1>3 DEF IInv, TypeOK
<1>5. /\ cartLock' \in [Users -> Orders \cup {None}]
      /\ \A w \in Users : cartLock[w] # o => cartLock'[w] = cartLock[w]
  BY <1>2 DEF IInv, TypeOK, Unlock
<1>6. row' \in [Orders -> Statuses \cup {None, "", "TRADE_CLOSED"}]
      /\ row'[o] = "" /\ \A p \in Orders \ {o} : row'[p] = row[p]
  BY <1>2 DEF IInv, TypeOK
<1>7. TypeOK'
  BY <1>1, <1>2, <1>4, <1>5, <1>6 DEF IInv, TypeOK
<1>8. Running(o) /\ t[o] = "idle" /\ ~late[o]
  BY <1>2, RunningFacts DEF Running
<1>9. /\ cartLock[u] = o
      /\ "check" \notin unseen[o] =>
           /\ half[o] = "prepared" /\ o \notin inbox
           /\ status[o] = 1 /\ sold[o] = h[o].items
  BY <1>2, <1>8 DEF IInv, HandlerOK
<1>10. Keeps(o)
  <2>1. HandlerOK(o)'
    BY <1>1 DEF HandlerOK, Running
  <2>2. RowOK(o)'
    BY <1>1, <1>2, <1>4, <1>8, <1>9 DEF RowOK
  <2>3. TimeoutOK(o)'
    BY <1>2, <1>6, <1>8 DEF TimeoutOK
  <2> QED BY <2>1, <2>2, <2>3 DEF Keeps
<1>11. ASSUME NEW p \in Orders \ {o} PROVE Same(p) /\ CartKept(p)
  <2>1. Same(p)
    BY <1>1, <1>2, <1>6 DEF Same
  <2>2. h[p].pc \in {"deleted", "sent"} => cartLock[UserOf[p]] = p
    BY DEF IInv, HandlerOK
  <2>3. UserOf[p] \in Users
    BY OrderFlowAssumption DEF OrderFlowAssumption
  <2>4. CartKept(p)
    BY <1>2, <1>4, <1>5, <1>9, <2>2, <2>3 DEF CartKept
  <2> QED BY <2>1, <2>4
<1> QED BY <1>7, <1>10, <1>11, Combine

-----------------------------------------------------------------------------
\* The broker

LEMMA ResolveFacts ==
  ASSUME IInv, NEW o \in Orders, NEW v, Resolve(o, v)
  PROVE  /\ half' \in [Orders -> {"none", "prepared", "committed", "dropped"}]
         /\ inbox' \in SUBSET Orders
         /\ \A p \in Orders \ {o} : /\ half'[p] = half[p]
                                    /\ p \in inbox' <=> p \in inbox
         /\ v # "commit" => inbox' = inbox /\ half'[o] \in {half[o], "dropped"}
         /\ v = "commit" => o \in inbox'
         /\ inbox \subseteq inbox'
<1>1. /\ half \in [Orders -> {"none", "prepared", "committed", "dropped"}]
      /\ inbox \in SUBSET Orders
  BY DEF IInv, TypeOK
<1> QED BY <1>1 DEF Resolve

LEMMA EndTransactionInv ==
  ASSUME IInv, NEW o \in Orders, EndTransaction(o)
  PROVE  IInv'
<1>1. /\ h' \in [Orders -> Handlers] /\ h'[o].pc = "done"
      /\ h'[o].items = h[o].items
      /\ \A p \in Orders \ {o} : h'[p] = h[p]
  BY GotoFacts DEF EndTransaction, PCs
<1>2. /\ At(o, "ending") /\ Resolve(o, h[o].verdict)
      /\ UNCHANGED <<stocks, status, sold, late, row, cart, cartLock,
                     timer, t, tries, faults, ops, unseen>>
  BY DEF EndTransaction, stockVars, timeoutVars
<1>3. TypeOK'
  BY <1>1, <1>2, ResolveFacts DEF IInv, TypeOK
<1>4. ASSUME row[o] = None PROVE Keeps(o)
  <2>1. t[o] = "idle"
    BY <1>4 DEF IInv, TimeoutOK
  <2> QED BY <1>1, <1>2, <1>4, <2>1, NoOrder
<1>5. ASSUME row[o] # None PROVE Keeps(o)
  <2>1. h[o].verdict = "rollback" /\ RowOK(o) /\ TimeoutOK(o)
    BY <1>2, <1>5 DEF IInv, RowOK
  <2>2. inbox' = inbox /\ half'[o] \in {half[o], "dropped"}
    BY <1>2, <2>1, ResolveFacts
  <2>3. HandlerOK(o)'
    BY <1>1 DEF HandlerOK, Running
  <2>4. RowOK(o)'
    BY <1>1, <1>2, <2>1, <2>2 DEF RowOK
  <2>5. TimeoutOK(o)'
    BY <1>2, <2>1, <2>2 DEF TimeoutOK
  <2> QED BY <2>3, <2>4, <2>5 DEF Keeps
<1>6. \A p \in Orders \ {o} : Same(p) /\ CartKept(p)
  BY <1>1, <1>2, ResolveFacts DEF Same, CartKept
<1> QED BY <1>3, <1>4, <1>5, <1>6, Combine

LEMMA EndTransactionLostInv ==
  ASSUME IInv, NEW o \in Orders, EndTransactionLost(o)
  PROVE  IInv'
<1>1. /\ h' \in [Orders -> Handlers] /\ h'[o].pc = "done"
      /\ h'[o].items = h[o].items
      /\ \A p \in Orders \ {o} : h'[p] = h[p]
  BY GotoFacts DEF EndTransactionLost, PCs
<1>2. /\ At(o, "ending") /\ faults' \in Nat
      /\ UNCHANGED <<stocks, status, sold, late, row, cart, cartLock, half,
                     inbox, timer, t, tries, ops, unseen>>
  BY FaultyFacts DEF EndTransactionLost, stockVars, timeoutVars
<1>3. TypeOK'
  BY <1>1, <1>2 DEF IInv, TypeOK
<1>4. Keeps(o)
  <2>1. HandlerOK(o)'
    BY <1>1 DEF HandlerOK, Running
  <2>2. RowOK(o)'
    BY <1>1, <1>2 DEF IInv, RowOK
  <2>3. TimeoutOK(o)'
    BY <1>2 DEF IInv, TimeoutOK
  <2> QED BY <2>1, <2>2, <2>3 DEF Keeps
<1>5. \A p \in Orders \ {o} : Same(p) /\ CartKept(p)
  BY <1>1, <1>2 DEF Same, CartKept
<1> QED BY <1>3, <1>4, <1>5, Combine

\* What CheckLocal does to the orders is known once it is known which answer
\* it gives and whether it is recorded.
LEMMA CheckedInv ==
  ASSUME IInv, NEW o \in Orders, half[o] = "prepared",
         NEW v \in {"commit", "rollback"}, Resolve(o, v),
         \/ Missed(o, "check")
         \/ unseen' = unseen /\ ~Running(o) /\ (row[o] # None => v = "rollback"),
         faults' = faults \/ Faulty,
         UNCHANGED <<stocks, status, sold, h, late, row, cart, cartLock,
                     timer, t, tries, ops>>
  PROVE  IInv'
<1>1. /\ unseen' \in [Orders -> SUBSET Causes]
      /\ unseen[o] \subseteq unseen'[o]
      /\ \A p \in Orders \ {o} : unseen'[p] = unseen[p]
      /\ \/ "check" \in unseen'[o]
         \/ ~Running(o) /\ (row[o] # None => v = "rollback")
  <2>1. CASE Missed(o, "check")
    BY <2>1, MissedFacts DEF Causes
  <2>2. CASE ~Missed(o, "check")
    BY <2>2 DEF IInv, TypeOK
  <2> QED BY <2>1, <2>2
<1>2. TypeOK'
  BY <1>1, ResolveFacts, FaultyFacts DEF IInv, TypeOK
<1>3. HandlerOK(o) /\ RowOK(o) /\ TimeoutOK(o)
  BY DEF IInv
<1>4. HandlerOK(o)'
  BY <1>1, <1>3 DEF HandlerOK, Running
<1>5. v = "rollback" => inbox' = inbox /\ half'[o] \in {half[o], "dropped"}
  BY ResolveFacts
<1>6. RowOK(o)'
  BY <1>1, <1>3, <1>5 DEF RowOK
<1>7. TimeoutOK(o)'
  BY <1>1, <1>3, ResolveFacts DEF TimeoutOK
<1>8. Keeps(o)
  BY <1>4, <1>6, <1>7 DEF Keeps
<1>9. \A p \in Orders \ {o} : Same(p) /\ CartKept(p)
  BY <1>1, ResolveFacts DEF Same, CartKept
<1> QED BY <1>2, <1>8, <1>9, Combine

LEMMA CheckLocalInv ==
  ASSUME IInv, NEW o \in Orders, CheckLocal(o) \/ CheckLocalUnread(o)
  PROVE  IInv'
<1> USE DEF stockVars, timeoutVars
<1>1. CASE CheckLocal(o)
  <2> DEFINE v == IF row[o] = None THEN "commit" ELSE "rollback"
  <2>1. /\ v \in {"commit", "rollback"} /\ Resolve(o, v)
        /\ row[o] # None => v = "rollback"
    BY <1>1 DEF CheckLocal
  <2> HIDE DEF v
  <2> QED BY <1>1, <2>1, CheckedInv DEF CheckLocal
<1>2. CASE CheckLocalUnread(o)
  BY <1>2, CheckedInv DEF CheckLocalUnread
<1> QED BY <1>1, <1>2

-----------------------------------------------------------------------------
\* inventory_srv

LEMMA AutoRebackInv ==
  ASSUME IInv, NEW o \in Orders, AutoReback(o)
  PROVE  IInv'
<1>1. /\ o \in inbox /\ inbox' \in {inbox \ {o}, inbox}
      /\ UNCHANGED <<h, late, row, cart, cartLock, half, timer, t, tries,
                     faults, ops, unseen>>
  BY DEF AutoReback, timeoutVars
<1>2. /\ stocks' \in [Goods -> Int] /\ status' \in [Orders -> 0..2]
      /\ sold' = sold /\ status'[o] # 1
      /\ \A p \in Orders \ {o} : status'[p] = status[p]
  <2>1. CASE status[o] = 1
    BY <2>1, LedgerReturnFacts DEF AutoReback
  <2>2. CASE status[o] # 1
    BY <2>2 DEF AutoReback, stockVars, IInv, TypeOK
  <2> QED BY <2>1, <2>2
<1>3. TypeOK'
  BY <1>1, <1>2 DEF IInv, TypeOK
<1>4. HandlerOK(o) /\ RowOK(o) /\ TimeoutOK(o)
  BY DEF IInv
<1>5. HandlerOK(o)'
  BY <1>1, <1>4 DEF HandlerOK, Running
<1>6. RowOK(o)'
  BY <1>1, <1>4 DEF RowOK
<1>7. TimeoutOK(o)'
  BY <1>1, <1>2, <1>4 DEF TimeoutOK
<1>8. Keeps(o)
  BY <1>5, <1>6, <1>7 DEF Keeps
<1>9. \A p \in Orders \ {o} : Same(p) /\ CartKept(p)
  BY <1>1, <1>2 DEF Same, CartKept
<1> QED BY <1>3, <1>8, <1>9, Combine

LEMMA AutoRebackUnseenInv ==
  ASSUME IInv, NEW o \in Orders, AutoRebackUnseen(o)
  PROVE  IInv'
<1>1. /\ o \in inbox /\ inbox' = inbox \ {o} /\ faults' \in Nat
      /\ UNCHANGED <<stocks, status, sold, h, late, row, cart, cartLock, half,
                     timer, t, tries, ops>>
  BY FaultyFacts DEF AutoRebackUnseen, stockVars, timeoutVars
<1>2. /\ unseen' \in [Orders -> SUBSET Causes]
      /\ unseen'[o] = unseen[o] \cup {"return"}
      /\ \A p \in Orders \ {o} : unseen'[p] = unseen[p]
  BY MissedFacts DEF AutoRebackUnseen, Causes
<1>3. TypeOK'
  BY <1>1, <1>2 DEF IInv, TypeOK
<1>4. HandlerOK(o) /\ RowOK(o) /\ TimeoutOK(o)
  BY DEF IInv
<1>5. HandlerOK(o)'
  BY <1>1, <1>2, <1>4 DEF HandlerOK, Running
<1>6. RowOK(o)'
  BY <1>1, <1>2, <1>4 DEF RowOK
<1>7. TimeoutOK(o)'
  BY <1>1, <1>2, <1>4 DEF TimeoutOK
<1>8. Keeps(o)
  BY <1>5, <1>6, <1>7 DEF Keeps
<1>9. \A p \in Orders \ {o} : Same(p) /\ CartKept(p)
  BY <1>1, <1>2 DEF Same, CartKept
<1> QED BY <1>3, <1>8, <1>9, Combine

LEMMA LateSellInv ==
  ASSUME IInv, NEW o \in Orders, LateSell(o)
  PROVE  IInv'
<1>1. /\ late[o] /\ late' = [late EXCEPT ![o] = FALSE]
      /\ Ledger!LedgerSell(o, h[o].items) \/ UNCHANGED stockVars
      /\ UNCHANGED <<h, row, cart, cartLock, half, inbox, timer, t, tries,
                     faults, ops, unseen>>
  BY DEF LateSell, timeoutVars
<1>2. h[o].items \in [Goods -> Nat]
  BY DEF IInv, TypeOK, Handlers
<1>3. /\ stocks' \in [Goods -> Int] /\ status' \in [Orders -> 0..2]
      /\ sold' \in [Orders -> [Goods -> Nat]]
      /\ \A p \in Orders \ {o} : /\ status'[p] = status[p]
                                 /\ sold'[p] = sold[p]
  <2>1. CASE Ledger!LedgerSell(o, h[o].items)
    BY <1>2, <2>1, LedgerSellFacts
  <2>2. CASE UNCHANGED stockVars
    BY <2>2 DEF stockVars, IInv, TypeOK
  <2> QED BY <1>1, <2>1, <2>2
<1>4. /\ late' \in [Orders -> BOOLEAN]
      /\ \A p \in Orders \ {o} : late'[p] = late[p]
  BY <1>1 DEF IInv, TypeOK
<1>5. TypeOK'
  BY <1>1, <1>3, <1>4 DEF IInv, TypeOK
<1>6. h[o] \in Handlers /\ HandlerOK(o) /\ RowOK(o) /\ TimeoutOK(o)
  BY DEF IInv, TypeOK
<1>7. row[o] = None /\ t[o] = "idle"
  BY <1>1, <1>6 DEF RowOK, TimeoutOK
<1>8. h[o].pc \in {"ending", "done", "dead"}
  BY <1>1, <1>6 DEF HandlerOK, Running, Handlers, PCs
<1>9. Keeps(o)
  BY <1>1, <1>7, <1>8, NoOrder
<1>10. \A p \in Orders \ {o} : Same(p) /\ CartKept(p)
  BY <1>1, <1>3, <1>4 DEF Same, CartKept
<1> QED BY <1>5, <1>9, <1>10, Combine

-----------------------------------------------------------------------------
\* OrderTimeout

LEMMA TimeoutNothingInv ==
  ASSUME IInv, NEW o \in Orders, TimeoutNothing(o) \/ TimeoutUnread(o)
  PROVE  IInv'
<1>1. /\ timer' = [timer EXCEPT ![o] = "gone"]
      /\ unseen' = unseen \/ Missed(o, "timer")
      /\ faults' = faults \/ Faulty
      /\ UNCHANGED <<stocks, status, sold, h, late, row, cart, cartLock, half,
                     inbox, t, tries, ops>>
  BY DEF TimeoutNothing, TimeoutUnread, stockVars
<1>2. /\ timer' \in [Orders -> {"none", "armed", "due", "gone"}]
      /\ timer'[o] = "gone" /\ \A p \in Orders \ {o} : timer'[p] = timer[p]
  BY <1>1 DEF IInv, TypeOK
<1>3. /\ unseen' \in [Orders -> SUBSET Causes]
      /\ unseen[o] \subseteq unseen'[o]
      /\ \A p \in Orders \ {o} : unseen'[p] = unseen[p]
  <2>1. CASE Missed(o, "timer")
    BY <2>1, MissedFacts DEF Causes
  <2>2. CASE unseen' = unseen
    BY <2>2 DEF IInv, TypeOK
  <2> QED BY <1>1, <2>1, <2>2
<1>4. TypeOK'
  BY <1>1, <1>2, <1>3, FaultyFacts DEF IInv, TypeOK
<1>5. Keeps(o)
  <2> USE <1>1, <1>2, <1>3 DEF IInv
  <2>1. HandlerOK(o)'
    BY DEF HandlerOK, Running
  <2>2. RowOK(o)'
    BY DEF RowOK
  <2>3. TimeoutOK(o)'
    BY DEF TimeoutOK
  <2> QED BY <2>1, <2>2, <2>3 DEF Keeps
<1>6. \A p \in Orders \ {o} : Same(p) /\ CartKept(p)
  BY <1>1, <1>2, <1>3 DEF Same, CartKept
<1> QED BY <1>4, <1>5, <1>6, Combine

\* OrderTimeout's handler goes on, with the row it has read.
LEMMA TimeoutReadInv ==
  ASSUME IInv, NEW o \in Orders, TimeoutRead(o)
  PROVE  IInv'
<1>1. /\ row[o] # None
      /\ timer' = [timer EXCEPT ![o] = "due"] /\ t' = [t EXCEPT ![o] = "read"]
      /\ UNCHANGED <<stocks, status, sold, h, late, row, cart, cartLock, half,
                     inbox, tries, faults, ops, unseen>>
  BY DEF TimeoutRead, stockVars
<1>2. /\ timer' \in [Orders -> {"none", "armed", "due", "gone"}]
      /\ t' \in [Orders -> {"idle", "read", "saved", "sent"}]
      /\ timer'[o] = "due" /\ t'[o] = "read"
      /\ \A p \in Orders \ {o} : timer'[p] = timer[p] /\ t'[p] = t[p]
  BY <1>1 DEF IInv, TypeOK
<1>3. TypeOK'
  BY <1>1, <1>2 DEF IInv, TypeOK
<1>4. Keeps(o)
  <2> USE <1>1, <1>2 DEF IInv
  <2>1. HandlerOK(o)'
    BY DEF HandlerOK, Running
  <2>2. RowOK(o)'
    BY DEF RowOK
  <2>3. TimeoutOK(o)'
    BY DEF TimeoutOK
  <2> QED BY <2>1, <2>2, <2>3 DEF Keeps
<1>5. \A p \in Orders \ {o} : Same(p) /\ CartKept(p)
  BY <1>1, <1>2 DEF Same, CartKept
<1> QED BY <1>3, <1>4, <1>5, Combine

LEMMA TimeoutSaveInv ==
  ASSUME IInv, NEW o \in Orders, TimeoutSave(o)
  PROVE  IInv'
<1>1. /\ t[o] = "read" /\ t' = [t EXCEPT ![o] = "saved"]
      /\ UNCHANGED <<stocks, status, sold, h, late, row, cart, cartLock, half,
                     inbox, timer, tries, faults, ops, unseen>>
  BY DEF TimeoutSave, stockVars
<1>2. /\ t' \in [Orders -> {"idle", "read", "saved", "sent"}]
      /\ t'[o] = "saved" /\ \A p \in Orders \ {o} : t'[p] = t[p]
  BY <1>1 DEF IInv, TypeOK
<1>3. TypeOK'
  BY <1>1, <1>2 DEF IInv, TypeOK
<1>4. Keeps(o)
  <2> USE <1>1, <1>2 DEF IInv
  <2>1. HandlerOK(o)'
    BY DEF HandlerOK, Running
  <2>2. RowOK(o)'
    BY DEF RowOK
  <2>3. TimeoutOK(o)'
    BY DEF TimeoutOK
  <2> QED BY <2>1, <2>2, <2>3 DEF Keeps
<1>5. \A p \in Orders \ {o} : Same(p) /\ CartKept(p)
  BY <1>1, <1>2 DEF Same, CartKept
<1> QED BY <1>3, <1>4, <1>5, Combine

LEMMA TimeoutSendInv ==
  ASSUME IInv, NEW o \in Orders, TimeoutSend(o)
  PROVE  IInv'
<1>1. /\ t[o] = "saved" /\ t' = [t EXCEPT ![o] = "sent"]
      /\ inbox' = inbox \cup {o}
      /\ UNCHANGED <<stocks, status, sold, h, late, row, cart, cartLock, half,
                     timer, tries, faults, ops, unseen>>
  BY DEF TimeoutSend, stockVars
<1>2. /\ t' \in [Orders -> {"idle", "read", "saved", "sent"}]
      /\ t'[o] = "sent" /\ \A p \in Orders \ {o} : t'[p] = t[p]
  BY <1>1 DEF IInv, TypeOK
<1>3. TypeOK'
  BY <1>1, <1>2 DEF IInv, TypeOK
<1>4. row[o] # None /\ timer[o] # "armed"
  BY <1>1 DEF IInv, TimeoutOK
<1>5. Keeps(o)
  <2> USE <1>1, <1>2, <1>4 DEF IInv
  <2>1. HandlerOK(o)'
    BY DEF HandlerOK, Running
  <2>2. RowOK(o)'
    BY DEF RowOK
  <2>3. TimeoutOK(o)'
    BY DEF TimeoutOK
  <2> QED BY <2>1, <2>2, <2>3 DEF Keeps
<1>6. \A p \in Orders \ {o} : Same(p) /\ CartKept(p)
  BY <1>1, <1>2 DEF Same, CartKept
<1> QED BY <1>3, <1>5, <1>6, Combine

LEMMA RetryLaterFacts ==
  ASSUME IInv, NEW o \in Orders, RetryLater(o)
  PROVE  /\ t' \in [Orders -> {"idle", "read", "saved", "sent"}]
         /\ timer' \in [Orders -> {"none", "armed", "due", "gone"}]
         /\ tries' \in [Orders -> Nat]
         /\ t'[o] = "idle" /\ timer'[o] \in {timer[o], "gone"}
         /\ \A p \in Orders \ {o} : t'[p] = t[p] /\ timer'[p] = timer[p]
<1>1. /\ t \in [Orders -> {"idle", "read", "saved", "sent"}]
      /\ timer \in [Orders -> {"none", "armed", "due", "gone"}]
      /\ tries \in [Orders -> Nat]
  BY DEF IInv, TypeOK
<1>2. tries' \in [Orders -> Nat]
  BY <1>1 DEF RetryLater
<1>3. /\ timer' \in [Orders -> {"none", "armed", "due", "gone"}]
      /\ timer'[o] \in {timer[o], "gone"}
      /\ \A p \in Orders \ {o} : timer'[p] = timer[p]
  BY <1>1 DEF RetryLater
<1> QED BY <1>1, <1>2, <1>3 DEF RetryLater

LEMMA TimeoutSendFailInv ==
  ASSUME IInv, NEW o \in Orders, TimeoutSendFail(o)
  PROVE  IInv'
<1>1. /\ t[o] = "saved" /\ faults' \in Nat
      /\ inbox' \in {inbox, inbox \cup {o}} /\ RetryLater(o)
      /\ UNCHANGED <<stocks, status, sold, h, late, row, cart, cartLock, half,
                     ops, unseen>>
  BY FaultyFacts DEF TimeoutSendFail, stockVars
<1>2. TypeOK'
  BY <1>1, RetryLaterFacts DEF IInv, TypeOK
<1>3. row[o] # None /\ timer[o] # "armed"
  BY <1>1 DEF IInv, TimeoutOK
<1>4. t'[o] = "idle" /\ timer'[o] # "armed"
  BY <1>1, <1>3, RetryLaterFacts
<1>5. Keeps(o)
  <2> USE <1>1, <1>3, <1>4 DEF IInv
  <2>1. HandlerOK(o)'
    BY DEF HandlerOK, Running
  <2>2. RowOK(o)'
    BY DEF RowOK
  <2>3. TimeoutOK(o)'
    BY DEF TimeoutOK
  <2> QED BY <2>1, <2>2, <2>3 DEF Keeps
<1>6. \A p \in Orders \ {o} : Same(p) /\ CartKept(p)
  BY <1>1, RetryLaterFacts DEF Same, CartKept
<1> QED BY <1>2, <1>5, <1>6, Combine

LEMMA TimeoutCommitInv ==
  ASSUME IInv, NEW o \in Orders, TimeoutCommit(o)
  PROVE  IInv'
<1>1. /\ t[o] = "sent" /\ RetryLater(o)
      /\ row' = [row EXCEPT ![o] = "TRADE_CLOSED"]
      /\ UNCHANGED <<stocks, status, sold, h, late, cart, cartLock, half,
                     inbox, faults, ops, unseen>>
  BY DEF TimeoutCommit, stockVars
<1>2. /\ row' \in [Orders -> Statuses \cup {None, "", "TRADE_CLOSED"}]
      /\ row'[o] = "TRADE_CLOSED" /\ \A p \in Orders \ {o} : row'[p] = row[p]
  BY <1>1 DEF IInv, TypeOK
<1>3. TypeOK'
  BY <1>1, <1>2, RetryLaterFacts DEF IInv, TypeOK
<1>4. /\ row[o] # None /\ timer[o] # "armed"
      /\ status[o] # 1 \/ o \in inbox \/ "return" \in unseen[o]
  BY <1>1 DEF IInv, TimeoutOK
<1>5. t'[o] = "idle" /\ timer'[o] # "armed"
  BY <1>1, <1>4, RetryLaterFacts
<1>6. Keeps(o)
  <2> USE <1>1, <1>2, <1>4, <1>5 DEF IInv
  <2>1. HandlerOK(o)'
    BY DEF HandlerOK, Running
  <2>2. RowOK(o)'
    BY DEF RowOK
  <2>3. TimeoutOK(o)'
    BY DEF TimeoutOK
  <2> QED BY <2>1, <2>2, <2>3 DEF Keeps
<1>7. \A p \in Orders \ {o} : Same(p) /\ CartKept(p)
  BY <1>1, <1>2, RetryLaterFacts DEF Same, CartKept
<1> QED BY <1>3, <1>6, <1>7, Combine

LEMMA TimeoutCommitFailInv ==
  ASSUME IInv, NEW o \in Orders, TimeoutCommitFail(o)
  PROVE  IInv'
<1>1. /\ t[o] = "sent" /\ faults' \in Nat /\ RetryLater(o)
      /\ UNCHANGED <<stocks, status, sold, h, late, row, cart, cartLock, half,
                     inbox, ops, unseen>>
  BY FaultyFacts DEF TimeoutCommitFail, stockVars
<1>2. TypeOK'
  BY <1>1, RetryLaterFacts DEF IInv, TypeOK
<1>3. row[o] # None /\ timer[o] # "armed"
  BY <1>1 DEF IInv, TimeoutOK
<1>4. t'[o] = "idle" /\ timer'[o] # "armed"
  BY <1>1, <1>3, RetryLaterFacts
<1>5. Keeps(o)
  <2> USE <1>1, <1>3, <1>4 DEF IInv
  <2>1. HandlerOK(o)'
    BY DEF HandlerOK, Running
  <2>2. RowOK(o)'
    BY DEF RowOK
  <2>3. TimeoutOK(o)'
    BY DEF TimeoutOK
  <2> QED BY <2>1, <2>2, <2>3 DEF Keeps
<1>6. \A p \in Orders \ {o} : Same(p) /\ CartKept(p)
  BY <1>1, RetryLaterFacts DEF Same, CartKept
<1> QED BY <1>2, <1>5, <1>6, Combine

-----------------------------------------------------------------------------
\* Other callers, and the process

LEMMA UpdateOrderStatusInv ==
  ASSUME IInv, NEW o \in Orders, NEW s \in Statuses, UpdateOrderStatus(o, s)
  PROVE  IInv'
<1>1. /\ ops' = ops + 1 /\ row[o] # None /\ t[o] \notin {"saved", "sent"}
      /\ row' = [row EXCEPT ![o] = s]
      /\ UNCHANGED <<stocks, status, sold, h, late, cart, cartLock, half,
                     inbox, timer, t, tries, faults, unseen>>
  BY DEF UpdateOrderStatus, stockVars, timeoutVars
<1>2. /\ row' \in [Orders -> Statuses \cup {None, "", "TRADE_CLOSED"}]
      /\ row'[o] = s /\ \A p \in Orders \ {o} : row'[p] = row[p]
  BY <1>1 DEF IInv, TypeOK
<1>3. ops' \in Nat /\ ops' # 0
  <2>1. ops \in Nat
    BY DEF IInv, TypeOK
  <2> QED BY <1>1, <2>1
<1>4. TypeOK'
  BY <1>1, <1>2, <1>3 DEF IInv, TypeOK
<1>5. s # None
  BY OrderFlowAssumption DEF OrderFlowAssumption
<1>6. Keeps(o)
  <2> USE <1>1, <1>2, <1>3, <1>5 DEF IInv
  <2>1. HandlerOK(o)'
    BY DEF HandlerOK, Running
  <2>2. RowOK(o)'
    BY DEF RowOK
  <2>3. TimeoutOK(o)'
    BY DEF TimeoutOK
  <2> QED BY <2>1, <2>2, <2>3 DEF Keeps
<1>7. \A p \in Orders \ {o} : Same(p) /\ CartKept(p)
  BY <1>1, <1>2, <1>3 DEF Same, CartKept
<1> QED BY <1>4, <1>6, <1>7, Combine

LEMMA ChangeCartInv ==
  ASSUME IInv, NEW u \in Users, NEW c \in Carts, ChangeCart(u, c)
  PROVE  IInv'
<1>1. /\ ops' = ops + 1 /\ cartLock[u] = None
      /\ cart' = [cart EXCEPT ![u] = c]
      /\ UNCHANGED <<stocks, status, sold, h, late, row, cartLock, half,
                     inbox, timer, t, tries, faults, unseen>>
  BY DEF ChangeCart, stockVars, timeoutVars
<1>2. c \in [Goods -> Nat]
  BY OrderFlowAssumption DEF OrderFlowAssumption
<1>3. /\ cart' \in [Users -> [Goods -> Nat]]
      /\ \A w \in Users \ {u} : cart'[w] = cart[w]
  BY <1>1, <1>2 DEF IInv, TypeOK
<1>4. ops' \in Nat /\ ops' # 0
  <2>1. ops \in Nat
    BY DEF IInv, TypeOK
  <2> QED BY <1>1, <2>1
<1>5. TypeOK'
  BY <1>1, <1>3, <1>4 DEF IInv, TypeOK
<1>6. ASSUME NEW p \in Orders PROVE Same(p) /\ CartKept(p)
  <2>1. Same(p)
    BY <1>1 DEF Same
  <2>2. h[p].pc \in {"deleted", "sent"} => cartLock[UserOf[p]] = p
    BY DEF IInv, HandlerOK
  <2>3. UserOf[p] \in Users /\ p # None
    BY OrderFlowAssumption DEF OrderFlowAssumption
  <2>4. CartKept(p)
    BY <1>1, <1>3, <1>4, <2>2, <2>3 DEF CartKept
  <2> QED BY <2>1, <2>4
<1>7. \A p \in Orders : Keeps(p)
  BY <1>6, Others
<1> QED BY <1>5, <1>7 DEF IInv, Keeps

\* The process dies: what was running leaves no row, what had committed has
\* its order and no call under way.
LEMMA CrashInv ==
  ASSUME IInv, Crash
  PROVE  IInv'
<1>1. /\ faults' \in Nat
      /\ UNCHANGED <<stocks, status, sold, row, cart, half, inbox, timer,
                     tries, ops>>
  BY FaultyFacts DEF Crash, stockVars
<1>2. /\ h' \in [Orders -> Handlers]
      /\ \A p \in Orders :
           /\ Running(p) \/ At(p, "ending") =>
                h'[p].pc = "dead" /\ h'[p].items = h[p].items
           /\ ~(Running(p) \/ At(p, "ending")) => h'[p] = h[p]
  <2>1. ASSUME NEW p \in Orders
        PROVE  /\ [h[p] EXCEPT !.pc = "dead"] \in Handlers
               /\ [h[p] EXCEPT !.pc = "dead"].pc = "dead"
               /\ [h[p] EXCEPT !.pc = "dead"].items = h[p].items
    <3>1. h[p] \in Handlers
      BY DEF IInv, TypeOK
    <3> QED BY <3>1 DEF Handlers, PCs
  <2>2. h' = [p \in Orders |-> IF Running(p) \/ At(p, "ending")
                               THEN [h[p] EXCEPT !.pc = "dead"] ELSE h[p]]
    BY DEF Crash
  <2>3. h \in [Orders -> Handlers]
    BY DEF IInv, TypeOK
  <2> QED BY <2>1, <2>2, <2>3
<1>3. /\ late' \in [Orders -> BOOLEAN]
      /\ unseen' \in [Orders -> SUBSET Causes]
      /\ \A p \in Orders : /\ late'[p] = late[p] \/ At(p, "queried")
                           /\ unseen[p] \subseteq unseen'[p]
  <2>1. late \in [Orders -> BOOLEAN] /\ unseen \in [Orders -> SUBSET Causes]
    BY DEF IInv, TypeOK
  <2>2. PICK S \in SUBSET {p \in Orders : At(p, "queried")} :
          /\ late' = [p \in Orders |-> late[p] \/ p \in S]
          /\ unseen' = [p \in Orders |->
                          unseen[p] \cup (IF p \in S THEN {"reply"} ELSE {})]
    BY DEF Crash
  <2>3. late' \in [Orders -> BOOLEAN]
    BY <2>1, <2>2
  <2>4. unseen' \in [Orders -> SUBSET Causes]
    BY <2>1, <2>2 DEF Causes
  <2> QED BY <2>1, <2>2, <2>3, <2>4
<1>4. /\ cartLock' \in [Users -> Orders \cup {None}]
      /\ t' = [p \in Orders |-> "idle"]
      /\ t' \in [Orders -> {"idle", "read", "saved", "sent"}]
  BY DEF Crash
<1>5. TypeOK'
  BY <1>1, <1>2, <1>3, <1>4 DEF IInv, TypeOK
<1>6. ASSUME NEW p \in Orders PROVE Keeps(p)
  <2>1. /\ HandlerOK(p) /\ RowOK(p) /\ TimeoutOK(p) /\ t'[p] = "idle"
        /\ unseen[p] \subseteq unseen'[p]
    BY <1>3, <1>4 DEF IInv
  <2>2. CASE Running(p)
    <3>1. row'[p] = None /\ h'[p].pc = "dead"
      BY <1>1, <1>2, <2>2, RunningFacts
    <3> QED BY <2>1, <3>1, NoOrder
  <2>3. CASE ~Running(p)
    <3>1. late'[p] = late[p]
      BY <1>3, <2>3 DEF Running
    <3>2. h'[p].items = h[p].items
      BY <1>2
    <3>3. \/ h'[p].pc = "dead"
          \/ h'[p] = h[p] /\ ~At(p, "ending")
      BY <1>2, <2>3
    <3>4. HandlerOK(p)'
      BY <1>1, <2>1, <2>3, <3>1, <3>3 DEF HandlerOK, Running
    <3>5. RowOK(p)'
      BY <1>1, <2>1, <3>1, <3>2, <3>3 DEF RowOK
    <3>6. TimeoutOK(p)'
      BY <1>1, <2>1 DEF TimeoutOK
    <3> QED BY <3>4, <3>5, <3>6 DEF Keeps
  <2> QED BY <2>2, <2>3
<1> QED BY <1>5, <1>6 DEF IInv, Keeps

-----------------------------------------------------------------------------
LEMMA InitInv == Init => IInv
<1> SUFFICES ASSUME Init PROVE IInv
  OBVIOUS
<1>1. NoItems \in [Goods -> Nat]
  BY DEF NoItems
<1>2. ASSUME NEW o \in Orders PROVE h[o].pc = "new" /\ h[o] \in Handlers
  BY <1>1 DEF Init, Handlers, PCs
<1>3. TypeOK
  <2>1. h \in [Orders -> Handlers]
    BY <1>2 DEF Init
  <2>2. stocks \in [Goods -> Int] /\ cart \in [Users -> [Goods -> Nat]]
    <3>1. Levels \subseteq Nat /\ Carts \subseteq [Goods -> Nat]
      BY OrderFlowAssumption DEF OrderFlowAssumption
    <3>2. stocks \in [Goods -> Levels] /\ cart \in [Users -> Carts]
      BY DEF Init
    <3>3. stocks \in [Goods -> Nat]
      BY <3>1, <3>2
    <3>4. stocks \in [Goods -> Int]
      BY <3>3
    <3>5. cart \in [Users -> [Goods -> Nat]]
      BY <3>1, <3>2
    <3> QED BY <3>4, <3>5
  <2>3. sold \in [Orders -> [Goods -> Nat]]
    BY <1>1 DEF Init
  <2> QED BY <2>1, <2>2, <2>3 DEF Init, TypeOK
<1>4. ASSUME NEW o \in Orders
      PROVE  HandlerOK(o) /\ RowOK(o) /\ TimeoutOK(o)
  BY <1>2, OrderFlowAssumption
     DEF Init, HandlerOK, RowOK, TimeoutOK, Running, OrderFlowAssumption
<1> QED BY <1>3, <1>4 DEF IInv

LEMMA FaultInv ==
  ASSUME IInv, Fault
  PROVE  IInv'
BY SendHalfFailInv, SendHalfNotOKInv, QueryGoodsInv, FailureInv,
   EndTransactionLostInv, CheckLocalInv, AutoRebackUnseenInv,
   TimeoutNothingInv, TimeoutSendFailInv, TimeoutCommitFailInv, CrashInv
   DEF Fault

LEMMA StutterInv ==
  ASSUME IInv, UNCHANGED vars
  PROVE  IInv'
<1>1. TypeOK'
  BY DEF IInv, TypeOK, vars, stockVars, timeoutVars
<1>2. \A p \in Orders : Same(p) /\ CartKept(p)
  BY DEF Same, CartKept, vars, stockVars, timeoutVars
<1> QED BY <1>1, <1>2, Others DEF IInv, Keeps

LEMMA NextInv ==
  ASSUME IInv, [Next]_vars
  PROVE  IInv'
<1>1. CASE \E o \in Orders : SendHalf(o) \/ Handle(o) \/ CheckLocal(o)
  BY <1>1, SendHalfInv, CheckLocalInv, ReadCartInv, QueryGoodsInv, SellInv,
     FailureInv, SaveOrderInv, DeleteCartInv, SendTimeoutInv, CommitOrderInv,
     EndTransactionInv DEF Handle
<1>2. CASE \E o \in Orders : AutoReback(o) \/ LateSell(o) \/ Timeout(o)
  BY <1>2, AutoRebackInv, LateSellInv, TimeoutNothingInv, TimeoutReadInv,
     TimeoutSaveInv, TimeoutSendInv, TimeoutCommitInv DEF Timeout
<1>3. CASE \E o \in Orders, s \in Statuses : UpdateOrderStatus(o, s)
  BY <1>3, UpdateOrderStatusInv
<1>4. CASE \E u \in Users, c \in Carts : ChangeCart(u, c)
  BY <1>4, ChangeCartInv
<1>5. CASE Fault
  BY <1>5, FaultInv
<1>6. CASE UNCHANGED vars
  BY <1>6, StutterInv
<1> QED BY <1>1, <1>2, <1>3, <1>4, <1>5, <1>6 DEF Next

\* Handler, order, message and timeout fit together at every step of
\* ExecuteLocalTransaction, of OrderTimeout and of the broker.
THEOREM Invariant == Spec => []IInv
<1>1. IInv /\ [Next]_vars => IInv'
  BY NextInv
<1> QED BY InitInv, <1>1, PTL DEF Spec

\* Every variable of OrderFlow has its type.
THEOREM TypeCorrect == Spec => []TypeOK
<1>1. IInv => TypeOK
  BY DEF IInv
<1> QED BY Invariant, <1>1, PTL

\* An order that exists never has its order_reback transaction message
\* delivered, unless CheckLocalTransaction could not see the order.
THEOREM MessageAgrees == Spec => []TransactionAtomicity
<1>1. IInv => TransactionAtomicity
  BY DEF IInv, RowOK, TransactionAtomicity
<1> QED BY Invariant, <1>1, PTL

\* Until its order_timeout message is first delivered, an order that exists
\* holds exactly the stock of its lines, unless CheckLocalTransaction could
\* not see it.
THEOREM StockHeld == Spec => []OrderHoldsStock
<1>1. IInv => OrderHoldsStock
  BY DEF IInv, RowOK, OrderHoldsStock
<1> QED BY Invariant, <1>1, PTL

\* An order that only OrderTimeout can close has given its stock back, or
\* the message that will do it is under way, unless AutoReback met an error.
THEOREM StockGivenBack ==
  ASSUME "TRADE_CLOSED" \notin Statuses
  PROVE  Spec => []ClosedGivesBack
<1>1. IInv => ClosedGivesBack
  BY DEF IInv, TimeoutOK, ClosedGivesBack
<1> QED BY Invariant, <1>1, PTL

-----------------------------------------------------------------------------
\* The rows change by two kinds of COMMIT only, but for what users do.
LEMMA RowStep ==
  ASSUME [Next]_vars
  PROVE  \/ UNCHANGED <<row, ops>>
         \/ ops' = ops + 1
         \/ \E o \in Orders : /\ CommitOrder(o) \/ TimeoutCommit(o)
                             /\ UNCHANGED ops
<1>1. CASE \E p \in Orders : SendHalf(p) \/ CheckLocal(p)
  BY <1>1 DEF SendHalf, CheckLocal
<1>2. CASE \E p \in Orders : Handle(p)
  BY <1>2 DEF Handle, ReadCart, QueryGoods, Sell, SellRefused, SaveOrder,
              DeleteCart, SendTimeout, CommitOrder, EndTransaction
<1>3. CASE \E p \in Orders : AutoReback(p) \/ LateSell(p)
  BY <1>3 DEF AutoReback, LateSell
<1>4. CASE \E p \in Orders : Timeout(p)
  BY <1>4 DEF Timeout, TimeoutNothing, TimeoutRead, TimeoutSave, TimeoutSend,
              TimeoutCommit
<1>5. CASE \E o \in Orders, s \in Statuses : UpdateOrderStatus(o, s)
  BY <1>5 DEF UpdateOrderStatus
<1>6. CASE \E u \in Users, c \in Carts : ChangeCart(u, c)
  BY <1>6 DEF ChangeCart
<1>7. CASE Fault
  BY <1>7 DEF Fault, SendHalfFail, SendHalfNotOK, QueryGoodsNone, CallFail,
              SellBroken, StatementFail, SendTimeoutFail, CommitOrderFail,
              EndTransactionLost, CheckLocalUnread, AutoRebackUnseen,
              TimeoutUnread, TimeoutSendFail, TimeoutCommitFail, Crash
<1>8. CASE UNCHANGED vars
  BY <1>8 DEF vars
<1> QED BY <1>1, <1>2, <1>3, <1>4, <1>5, <1>6, <1>7, <1>8 DEF Next

\* Who commits an order found checked rows, so no other order of the user
\* exists; a closed order existed before.
LEMMA BoughtOnceInv ==
  ASSUME IInv, [Next]_vars, CartBoughtOnce
  PROVE  CartBoughtOnce'
<1> SUFFICES ASSUME NEW o \in Orders, NEW p \in Orders, o # p,
                    UserOf[o] = UserOf[p], ops' = 0,
                    row'[o] # None, row'[p] # None
             PROVE  FALSE
  BY DEF CartBoughtOnce
<1>1. row \in [Orders -> Statuses \cup {None, "", "TRADE_CLOSED"}]
  BY DEF IInv, TypeOK
<1>2. ops = 0 => row[o] = None \/ row[p] = None
  BY DEF CartBoughtOnce
<1>3. CASE UNCHANGED <<row, ops>>
  BY <1>2, <1>3
<1>4. CASE ops' = ops + 1
  <2>1. ops \in Nat
    BY DEF IInv, TypeOK
  <2> QED BY <1>4, <2>1
<1>5. ASSUME NEW q \in Orders, CommitOrder(q), ops' = ops PROVE FALSE
  <2>1. \A r \in Orders \ {q} : row'[r] = row[r]
    BY <1>1, <1>5 DEF CommitOrder
  <2>2. cart[UserOf[q]] # NoItems
    BY <1>5 DEF CommitOrder, IInv, HandlerOK
  <2>3. \A r \in Orders : row[r] # None => cart[UserOf[r]] = NoItems
    BY <1>5 DEF IInv, RowOK
  <2> QED BY <1>2, <1>5, <2>1, <2>2, <2>3
<1>6. ASSUME NEW q \in Orders, TimeoutCommit(q), ops' = ops PROVE FALSE
  <2>1. \A r \in Orders \ {q} : row'[r] = row[r]
    BY <1>1, <1>6 DEF TimeoutCommit
  <2>2. row[q] # None
    BY <1>6 DEF TimeoutCommit, IInv, TimeoutOK
  <2> QED BY <1>2, <1>6, <2>1, <2>2
<1> QED BY <1>3, <1>4, <1>5, <1>6, RowStep

\* A cart is bought once: of the orders of a user that has changed nothing
\* since, at most one exists.
THEOREM BoughtOnce == Spec => []CartBoughtOnce
<1>1. Init => CartBoughtOnce
  BY DEF Init, CartBoughtOnce
<1>2. IInv /\ CartBoughtOnce /\ [Next]_vars => CartBoughtOnce'
  BY BoughtOnceInv
<1> QED BY <1>1, <1>2, Invariant, PTL DEF Spec

-----------------------------------------------------------------------------
\* The stock of an order that nothing has gone wrong with unnoticed.

\* What StockOK is about.
SameStock(p) ==
  /\ h'[p] = h[p] /\ late'[p] = late[p] /\ row'[p] = row[p]
  /\ half'[p] = half[p] /\ (p \in inbox' <=> p \in inbox)
  /\ status'[p] = status[p] /\ unseen'[p] = unseen[p]

LEMMA StockCombine ==
  ASSUME StockInv, NEW o \in Orders, StockOK(o)',
         \A p \in Orders \ {o} : SameStock(p)
  PROVE  StockInv'
<1>1. ASSUME NEW p \in Orders, SameStock(p) PROVE StockOK(p)'
  BY <1>1 DEF StockInv, StockOK, SameStock, Running, NothingUnseen
<1> QED BY <1>1 DEF StockInv

\* Where something that matters to the stock is recorded, nothing is claimed.
LEMMA MissedStock ==
  ASSUME IInv, StockInv, NEW o \in Orders, NEW c \in Causes \ {"timer"},
         Missed(o, c),
         \A p \in Orders \ {o} :
           /\ h'[p] = h[p] /\ late'[p] = late[p] /\ half'[p] = half[p]
           /\ p \in inbox' <=> p \in inbox,
         UNCHANGED <<status, row>>
  PROVE  StockInv'
<1>1. /\ c \in unseen'[o]
      /\ \A p \in Orders \ {o} : unseen'[p] = unseen[p]
  BY MissedFacts
<1>2. StockOK(o)'
  BY <1>1 DEF StockOK, NothingUnseen
<1> QED BY <1>1, <1>2, StockCombine DEF SameStock

\* Before the sale nothing is deducted, so the handler may give up.
LEMMA BeforeSale ==
  ASSUME IInv, StockInv, NEW o \in Orders,
         h[o].pc \in {"new", "half", "read", "queried"},
         \A p \in Orders \ {o} : h'[p] = h[p] /\ half'[p] = half[p],
         UNCHANGED <<late, row, inbox, status, unseen>>
  PROVE  StockInv'
<1>1. StockOK(o) /\ row[o] = None
  BY RunningFacts DEF StockInv, Running
<1>2. StockOK(o)'
  BY <1>1 DEF StockOK, NothingUnseen
<1> QED BY <1>2, StockCombine DEF SameStock

\* After it the handler goes on or asks for the stock back.
LEMMA AfterSale ==
  ASSUME IInv, StockInv, NEW o \in Orders,
         h[o].pc \in {"sold", "saved", "deleted"},
         \/ h'[o].pc \in {"saved", "deleted", "sent"}
         \/ h'[o].pc = "ending" /\ h'[o].verdict = "commit",
         \A p \in Orders \ {o} : h'[p] = h[p],
         UNCHANGED <<late, row, half, inbox, status, unseen>>
  PROVE  StockInv'
<1>1. /\ StockOK(o) /\ row[o] = None
      /\ "check" \notin unseen[o] => half[o] = "prepared"
  BY RunningFacts DEF StockInv, IInv, HandlerOK, Running
<1>2. StockOK(o)'
  BY <1>1 DEF StockOK, Running, NothingUnseen
<1> QED BY <1>2, StockCombine DEF SameStock

\* A step that leaves the handlers and what StockOK says of the stock alone.
LEMMA IdleStock ==
  ASSUME StockInv, UNCHANGED <<h, late, half, status>>,
         inbox \subseteq inbox',
         \A p \in Orders : /\ row[p] # None => row'[p] # None
                           /\ NothingUnseen(p)' => NothingUnseen(p)
  PROVE  StockInv'
BY DEF StockInv, StockOK, Running

LEMMA HandlerStock ==
  ASSUME IInv, StockInv, NEW o \in Orders,
         \/ SendHalf(o) \/ ReadCart(o) \/ QueryGoods(o) \/ Sell(o)
         \/ SellRefused(o) \/ SaveOrder(o) \/ DeleteCart(o) \/ SendTimeout(o)
         \/ CommitOrder(o) \/ EndTransaction(o)
  PROVE  StockInv'
<1> USE DEF stockVars
<1>1. CASE SendHalf(o)
  <2>1. \A p \in Orders \ {o} : half'[p] = half[p]
    BY <1>1 DEF SendHalf, IInv, TypeOK
  <2> QED BY <1>1, <2>1, GotoFacts, BeforeSale DEF SendHalf, PCs
<1>2. CASE ReadCart(o)
  <2>1. h \in [Orders -> Handlers] /\ h[o] \in Handlers
    BY DEF IInv, TypeOK
  <2>2. CASE cart[UserOf[o]] = NoItems
    BY <1>2, <2>2, ReturnFacts, BeforeSale DEF ReadCart
  <2>3. CASE cart[UserOf[o]] # NoItems
    <3>1. h' = [h EXCEPT ![o].pc = "read", ![o].items = cart[UserOf[o]]]
      BY <1>2, <2>3 DEF ReadCart
    <3>2. \A p \in Orders \ {o} : h'[p] = h[p]
      BY <2>1, <3>1 DEF Handlers
    <3> QED BY <1>2, <3>2, BeforeSale DEF ReadCart
  <2> QED BY <2>2, <2>3
<1>3. CASE QueryGoods(o)
  <2>1. h \in [Orders -> Handlers] /\ h[o] \in Handlers
    BY DEF IInv, TypeOK
  <2>2. \A p \in Orders \ {o} : h'[p] = h[p]
    BY <1>3, <2>1 DEF QueryGoods, Handlers
  <2> QED BY <1>3, <2>2, BeforeSale DEF QueryGoods
<1>4. CASE Sell(o)
  <2>1. /\ h'[o].pc = "sold"
        /\ \A p \in Orders \ {o} : h'[p] = h[p]
    BY <1>4, GotoFacts DEF Sell, PCs
  <2>2. h[o].items \in [Goods -> Nat]
    BY DEF IInv, TypeOK, Handlers
  <2>3. /\ \A p \in Orders \ {o} : status'[p] = status[p]
        /\ UNCHANGED <<late, row, half, inbox, unseen>>
    BY <1>4, <2>2, LedgerSellFacts DEF Sell
  <2>4. StockOK(o)
    BY DEF StockInv
  <2>5. StockOK(o)'
    BY <2>1, <2>3, <2>4 DEF StockOK, Running, NothingUnseen
  <2> QED BY <2>1, <2>3, <2>5, StockCombine DEF SameStock
<1>5. CASE SellRefused(o)
  BY <1>5, ReturnFacts, BeforeSale DEF SellRefused
<1>6. CASE SaveOrder(o)
  <2>1. CASE h[o].items = NoItems
    BY <1>6, <2>1, ReturnFacts, AfterSale DEF SaveOrder
  <2>2. CASE h[o].items # NoItems
    BY <1>6, <2>2, GotoFacts, AfterSale DEF SaveOrder, PCs
  <2> QED BY <2>1, <2>2
<1>7. CASE DeleteCart(o)
  <2>1. CASE cart[UserOf[o]] = NoItems
    BY <1>7, <2>1, ReturnFacts, AfterSale DEF DeleteCart
  <2>2. CASE cart[UserOf[o]] # NoItems
    BY <1>7, <2>2, GotoFacts, AfterSale DEF DeleteCart, PCs
  <2> QED BY <2>1, <2>2
<1>8. CASE SendTimeout(o)
  BY <1>8, GotoFacts, AfterSale DEF SendTimeout, PCs
<1>9. CASE CommitOrder(o)
  <2>1. \A p \in Orders \ {o} : h'[p] = h[p]
    BY <1>9, ReturnFacts DEF CommitOrder
  <2>2. /\ row'[o] = "" /\ \A p \in Orders \ {o} : row'[p] = row[p]
        /\ UNCHANGED <<late, half, inbox, status, unseen>>
    BY <1>9 DEF CommitOrder, IInv, TypeOK
  <2>3. row'[o] # None /\ h'[o].pc = "ending"
    BY <1>9, <2>2, ReturnFacts, OrderFlowAssumption DEF CommitOrder, OrderFlowAssumption
  <2>4. StockOK(o)'
    BY <2>2, <2>3 DEF StockInv, StockOK, NothingUnseen
  <2> QED BY <2>1, <2>2, <2>4, StockCombine DEF SameStock
<1>10. CASE EndTransaction(o)
  <2>1. /\ h'[o].pc = "done"
        /\ \A p \in Orders \ {o} : h'[p] = h[p]
    BY <1>10, GotoFacts DEF EndTransaction, PCs
  <2>2. /\ At(o, "ending") /\ Resolve(o, h[o].verdict)
        /\ UNCHANGED <<late, row, status, unseen>>
    BY <1>10 DEF EndTransaction
  <2>3. /\ \A p \in Orders \ {o} : half'[p] = half[p] /\ (p \in inbox' <=> p \in inbox)
        /\ h[o].verdict = "commit" => o \in inbox'
    BY <2>2, ResolveFacts
  <2>4. StockOK(o)
    BY DEF StockInv
  <2>5. StockOK(o)'
    BY <2>1, <2>2, <2>3, <2>4 DEF StockOK, Running, NothingUnseen
  <2> QED BY <2>1, <2>2, <2>3, <2>5, StockCombine DEF SameStock
<1> QED BY <1>1, <1>2, <1>3, <1>4, <1>5, <1>6, <1>7, <1>8, <1>9, <1>10

LEMMA FaultStock ==
  ASSUME IInv, StockInv, Fault
  PROVE  StockInv'
<1> USE DEF stockVars
<1>1. ASSUME NEW o \in Orders, SendHalfFail(o) PROVE StockInv'
  <2>1. h \in [Orders -> Handlers] /\ h[o] \in Handlers
    BY DEF IInv, TypeOK
  <2>2. \A p \in Orders \ {o} : h'[p] = h[p]
    BY <1>1, <2>1 DEF SendHalfFail, Handlers
  <2>3. \A p \in Orders \ {o} : half'[p] = half[p]
    <3>1. half \in [Orders -> {"none", "prepared", "committed", "dropped"}]
      BY DEF IInv, TypeOK
    <3> QED BY <1>1, <3>1 DEF SendHalfFail
  <2> QED BY <1>1, <2>2, <2>3, BeforeSale DEF SendHalfFail
<1>2. ASSUME NEW o \in Orders, QueryGoodsNone(o) PROVE StockInv'
  <2>1. h \in [Orders -> Handlers] /\ h[o] \in Handlers
    BY DEF IInv, TypeOK
  <2>2. \A p \in Orders \ {o} : h'[p] = h[p]
    BY <1>2, <2>1 DEF QueryGoodsNone, Handlers
  <2> QED BY <1>2, <2>2, BeforeSale DEF QueryGoodsNone
<1>3. ASSUME NEW o \in Orders, CallFail(o) PROVE StockInv'
  BY <1>3, ReturnFacts, BeforeSale DEF CallFail
<1>4. ASSUME NEW o \in Orders, StatementFail(o) PROVE StockInv'
  BY <1>4, ReturnFacts, AfterSale DEF StatementFail
<1>5. ASSUME NEW o \in Orders, SendTimeoutFail(o) PROVE StockInv'
  BY <1>5, ReturnFacts, AfterSale DEF SendTimeoutFail
<1>6. ASSUME NEW o \in Orders, EndTransactionLost(o) PROVE StockInv'
  <2>1. /\ h'[o].pc = "done"
        /\ \A p \in Orders \ {o} : h'[p] = h[p]
    BY <1>6, GotoFacts DEF EndTransactionLost, PCs
  <2>2. StockOK(o) /\ h[o].pc = "ending" /\ UNCHANGED <<late, row, half, inbox, status, unseen>>
    BY <1>6 DEF EndTransactionLost, StockInv
  <2>3. StockOK(o)'
    BY <2>1, <2>2 DEF StockOK, Running, NothingUnseen
  <2> QED BY <2>1, <2>2, <2>3, StockCombine DEF SameStock
<1>7. ASSUME NEW o \in Orders, TimeoutSendFail(o) \/ TimeoutCommitFail(o)
      PROVE  StockInv'
  BY <1>7, IdleStock DEF TimeoutSendFail, TimeoutCommitFail, NothingUnseen
<1>8. ASSUME Crash PROVE StockInv'
  <2>1. UNCHANGED <<row, half, inbox, status>>
    BY <1>8 DEF Crash
  <2>2. PICK S \in SUBSET {p \in Orders : At(p, "queried")} :
          /\ late' = [p \in Orders |-> late[p] \/ p \in S]
          /\ unseen' = [p \in Orders |->
                          unseen[p] \cup (IF p \in S THEN {"reply"} ELSE {})]
    BY <1>8 DEF Crash
  <2>3. ASSUME NEW o \in Orders PROVE StockOK(o)'
    <3>1. StockOK(o) /\ h[o] \in Handlers
      BY DEF StockInv, IInv, TypeOK
    <3>2. CASE o \in S
      BY <2>2, <3>2 DEF StockOK, NothingUnseen
    <3>3. CASE o \notin S /\ (Running(o) \/ At(o, "ending"))
      <4>1. h'[o] = [h[o] EXCEPT !.pc = "dead"]
        BY <1>8, <3>3 DEF Crash
      <4>2. h'[o].pc = "dead"
        BY <3>1, <4>1 DEF Handlers
      <4>3. Running(o) /\ "check" \notin unseen[o] => half[o] = "prepared"
        BY DEF IInv, HandlerOK
      <4>4. unseen'[o] = unseen[o] /\ (late'[o] <=> late[o])
        BY <2>2, <3>3
      <4> QED BY <2>1, <3>1, <3>3, <4>2, <4>3, <4>4
              DEF StockOK, Running, NothingUnseen
    <3>4. CASE o \notin S /\ ~(Running(o) \/ At(o, "ending"))
      <4>1. h'[o] = h[o]
        BY <1>8, <3>4 DEF Crash
      <4>2. unseen'[o] = unseen[o] /\ (late'[o] <=> late[o])
        BY <2>2, <3>4
      <4> QED BY <2>1, <3>1, <4>1, <4>2 DEF StockOK, Running, NothingUnseen
    <3> QED BY <3>2, <3>3, <3>4
  <2> QED BY <2>3 DEF StockInv
<1>9. ASSUME NEW o \in Orders, SendHalfNotOK(o) PROVE StockInv'
  <2>1. \A p \in Orders \ {o} : half'[p] = half[p]
    BY <1>9 DEF SendHalfNotOK, IInv, TypeOK
  <2> QED BY <1>9, <2>1, ReturnFacts, BeforeSale DEF SendHalfNotOK
<1>10. ASSUME NEW o \in Orders, SellBroken(o) \/ CommitOrderFail(o)
       PROVE  StockInv'
  <2>1. \A p \in Orders \ {o} : h'[p] = h[p]
    BY <1>10, ReturnFacts DEF SellBroken, CommitOrderFail
  <2>2. \A p \in Orders \ {o} : late'[p] = late[p]
    BY <1>10 DEF SellBroken, CommitOrderFail, IInv, TypeOK
  <2>3. \E c \in Causes \ {"timer"} : Missed(o, c)
    BY <1>10 DEF SellBroken, CommitOrderFail, Causes
  <2>4. UNCHANGED <<half, inbox, status, row>>
    BY <1>10 DEF SellBroken, CommitOrderFail
  <2> QED BY <2>1, <2>2, <2>3, <2>4, MissedStock
<1>11. ASSUME NEW o \in Orders, CheckLocalUnread(o) PROVE StockInv'
  <2>1. Missed(o, "check") /\ Resolve(o, "commit")
        /\ UNCHANGED <<h, late, status, row>>
    BY <1>11 DEF CheckLocalUnread
  <2>2. "check" \in Causes \ {"timer"}
    BY DEF Causes
  <2> QED BY <2>1, <2>2, ResolveFacts, MissedStock
<1>12. ASSUME NEW o \in Orders, AutoRebackUnseen(o) PROVE StockInv'
  <2>1. "return" \in Causes \ {"timer"}
    BY DEF Causes
  <2> QED BY <1>12, <2>1, MissedStock DEF AutoRebackUnseen
<1>13. ASSUME NEW o \in Orders, TimeoutUnread(o) PROVE StockInv'
  <2>1. \A p \in Orders : NothingUnseen(p)' => NothingUnseen(p)
    BY <1>13, MissedFacts DEF TimeoutUnread, Causes, NothingUnseen
  <2> QED BY <1>13, <2>1, IdleStock DEF TimeoutUnread
<1> QED BY <1>1, <1>2, <1>3, <1>4, <1>5, <1>6, <1>7, <1>8, <1>9, <1>10, <1>11,
           <1>12, <1>13 DEF Fault

LEMMA OtherStock ==
  ASSUME IInv, StockInv, NEW o \in Orders,
         \/ CheckLocal(o) \/ AutoReback(o) \/ LateSell(o) \/ Timeout(o)
         \/ \E s \in Statuses : UpdateOrderStatus(o, s)
  PROVE  StockInv'
<1> USE DEF stockVars
<1>1. CASE CheckLocal(o)
  <2>1. /\ Resolve(o, IF row[o] = None THEN "commit" ELSE "rollback")
        /\ UNCHANGED <<h, late, row, status>> /\ StockOK(o)
    BY <1>1 DEF CheckLocal, StockInv
  <2>2. /\ \A p \in Orders \ {o} : /\ half'[p] = half[p]
                                   /\ p \in inbox' <=> p \in inbox
        /\ row[o] = None => o \in inbox'
    BY <2>1, ResolveFacts
  <2>3. CASE Running(o)
    <3>1. Missed(o, "check") /\ "check" \in Causes \ {"timer"}
      BY <1>1, <2>3 DEF CheckLocal, Causes
    <3> QED BY <2>1, <2>2, <3>1, MissedStock
  <2>4. CASE ~Running(o)
    <3>1. unseen' = unseen
      BY <1>1, <2>4 DEF CheckLocal
    <3>2. StockOK(o)'
      BY <2>1, <2>2, <3>1 DEF StockOK, Running, NothingUnseen
    <3> QED BY <2>1, <2>2, <3>1, <3>2, StockCombine DEF SameStock
  <2> QED BY <2>3, <2>4
<1>2. CASE AutoReback(o)
  <2>1. /\ status'[o] # 1 /\ (status[o] = 0 => status'[o] = 0)
        /\ \A p \in Orders \ {o} : status'[p] = status[p]
    <3>1. CASE status[o] = 1
      BY <1>2, <3>1, LedgerReturnFacts DEF AutoReback
    <3>2. CASE status[o] # 1
      BY <1>2, <3>2 DEF AutoReback
    <3> QED BY <3>1, <3>2
  <2>2. /\ UNCHANGED <<h, late, row, half, unseen>> /\ StockOK(o)
        /\ \A p \in Orders \ {o} : p \in inbox' <=> p \in inbox
    BY <1>2 DEF AutoReback, StockInv
  <2>3. StockOK(o)'
    BY <2>1, <2>2 DEF StockOK, Running, NothingUnseen
  <2> QED BY <2>1, <2>2, <2>3, StockCombine DEF SameStock
<1>3. CASE LateSell(o)
  <2>1. ~NothingUnseen(o) /\ late[o] /\ UNCHANGED unseen
    BY <1>3 DEF LateSell, StockInv, StockOK
  <2>2. StockOK(o)'
    BY <2>1 DEF StockOK, NothingUnseen
  <2>3. h[o].items \in [Goods -> Nat]
    BY DEF IInv, TypeOK, Handlers
  <2>4. /\ \A p \in Orders \ {o} : status'[p] = status[p] /\ late'[p] = late[p]
        /\ UNCHANGED <<h, row, half, inbox>>
    BY <1>3, <2>3, LedgerSellFacts DEF LateSell, IInv, TypeOK
  <2> QED BY <2>1, <2>2, <2>4, StockCombine DEF SameStock
<1>4. CASE Timeout(o) \/ \E s \in Statuses : UpdateOrderStatus(o, s)
  <2>1. UNCHANGED <<h, late, half, status>> /\ inbox \subseteq inbox'
    BY <1>4 DEF Timeout, TimeoutNothing, TimeoutRead, TimeoutSave, TimeoutSend,
               TimeoutCommit, UpdateOrderStatus
  <2>2. \/ UNCHANGED row
        \/ \E s \in Statuses \cup {"TRADE_CLOSED"} : row' = [row EXCEPT ![o] = s]
    BY <1>4 DEF Timeout, TimeoutNothing, TimeoutRead, TimeoutSave, TimeoutSend,
               TimeoutCommit, UpdateOrderStatus
  <2>3. row \in [Orders -> Statuses \cup {None, "", "TRADE_CLOSED"}]
    BY DEF IInv, TypeOK
  <2>4. \A p \in Orders : row[p] # None => row'[p] # None
    BY <2>2, <2>3, OrderFlowAssumption DEF OrderFlowAssumption
  <2>5. unseen' = unseen \/ Missed(o, "timer")
    BY <1>4 DEF Timeout, TimeoutNothing, TimeoutRead, TimeoutSave, TimeoutSend,
               TimeoutCommit, UpdateOrderStatus
  <2>6. \A p \in Orders : NothingUnseen(p)' => NothingUnseen(p)
    BY <2>5, MissedFacts DEF Causes, NothingUnseen
  <2> QED BY <2>1, <2>4, <2>6, IdleStock
<1> QED BY <1>1, <1>2, <1>3, <1>4

LEMMA NextStock ==
  ASSUME IInv, StockInv, [Next]_vars
  PROVE  StockInv'
<1>1. ASSUME NEW o \in Orders, SendHalf(o) \/ Handle(o) PROVE StockInv'
  BY <1>1, HandlerStock DEF Handle
<1>2. ASSUME NEW u \in Users, NEW c \in Carts, ChangeCart(u, c) PROVE StockInv'
  BY <1>2, IdleStock DEF ChangeCart, stockVars, NothingUnseen
<1>3. CASE UNCHANGED vars
  BY <1>3, IdleStock DEF vars, stockVars, NothingUnseen
<1> QED BY <1>1, <1>2, <1>3, OtherStock, FaultStock DEF Next

LEMMA InitStock == Init => StockInv
BY DEF Init, StockInv, StockOK

\* What the handler has deducted and not ordered is still to be asked about or
\* on its way back, at every step, as long as none of the Causes that concern
\* the stock has come upon the order.
THEOREM StockAccounted == Spec => []StockInv
<1>1. ASSUME IInv, StockInv, [Next]_vars PROVE StockInv'
  BY <1>1, NextStock
<1> QED BY InitStock, <1>1, Invariant, PTL DEF Spec

\* An order that does not exist has no stock left once everything has come to
\* rest, but for those Causes (CheckLocalTransaction, AutoReback).
THEOREM NothingStranded == Spec => []StrandedIsUnseen
<1>1. StockInv => StrandedIsUnseen
  BY DEF StockInv, StockOK, StrandedIsUnseen, Settled, Running
<1> QED BY <1>1, StockAccounted, PTL
=============================================================================
