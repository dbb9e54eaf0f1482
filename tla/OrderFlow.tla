----------------------------- MODULE OrderFlow -----------------------------
(***************************************************************************)
(* The life of an order across the services: CreateOrder with its RocketMQ *)
(* transaction message (order_srv/handler/order.go), the cart it empties,  *)
(* the stock it deducts, the delayed order_timeout message that closes it  *)
(* unpaid, and the order_reback message that gives the stock back.         *)
(*                                                                         *)
(* inventory_srv appears as StockLedger, which Inventory.tla implements;   *)
(* the broker is modelled from how the code uses it.                       *)
(***************************************************************************)
EXTENDS Integers

CONSTANTS Goods, Orders, Users,
          UserOf,        \* UserOf[o]: who places order o
          Carts,         \* contents a cart's checked rows may have
          Catalog,       \* products goods_srv still knows
          Levels,        \* stock levels
          Statuses,      \* what UpdateOrderStatus is called with
          None,
          MaxRetry,      \* redeliveries before the broker gives a message up
          MaxFaults, MaxOps   \* bounds: faults; cart changes and payments

ASSUME OrderFlowAssumption ==
  /\ UserOf \in [Orders -> Users]
  /\ Carts \subseteq [Goods -> Nat] /\ Catalog \subseteq Goods
  /\ Levels \subseteq Nat
  /\ None \notin Orders \cup Statuses \cup {"", "TRADE_CLOSED"}
  /\ MaxRetry \in Nat /\ MaxFaults \in Nat /\ MaxOps \in Nat

VARIABLES stocks, status, sold,  \* inventory_srv's tables, see StockLedger
          h,         \* h[o]: the CreateOrder handler of o
          late,      \* late[o]: a Sell its client no longer waits for
          row,       \* row[o]: None, or the status of o's order_info row
          cart,      \* cart[u]: the quantities of u's checked cart rows
          cartLock,  \* cartLock[u]: the order whose transaction locked them
          half,      \* half[o]: the transaction message at the broker
          inbox,     \* order_reback messages inventory_srv may consume
          timer,     \* timer[o]: the order_timeout message
          t,         \* t[o]: the OrderTimeout handler of o
          tries,     \* tries[o]: redeliveries of o's order_timeout message
          unseen,    \* history: unseen[o]: what went wrong with o unnoticed
          faults, ops

stockVars == <<stocks, status, sold>>
timeoutVars == <<timer, t, tries>>
envVars == <<faults, ops, unseen>>
vars == <<stockVars, h, late, row, cart, cartLock, half, inbox, timeoutVars,
          envVars>>

Ledger == INSTANCE StockLedger WITH Requests <- Carts

NoItems == [g \in Goods |-> 0]

Init ==
  /\ stocks \in [Goods -> Levels]
  /\ status = [o \in Orders |-> 0]
  /\ sold = [o \in Orders |-> NoItems]
  /\ h = [o \in Orders |-> [pc |-> "new", items |-> NoItems,
                            verdict |-> "none", reply |-> "none"]]
  /\ late = [o \in Orders |-> FALSE]
  /\ row = [o \in Orders |-> None]
  /\ cart \in [Users -> Carts]
  /\ cartLock = [u \in Users |-> None]
  /\ half = [o \in Orders |-> "none"]
  /\ inbox = {}
  /\ timer = [o \in Orders |-> "none"]
  /\ t = [o \in Orders |-> "idle"]
  /\ tries = [o \in Orders |-> 0]
  /\ unseen = [o \in Orders |-> {}]
  /\ faults = 0 /\ ops = 0

-----------------------------------------------------------------------------
\* The CreateOrder handler

At(o, pc) == h[o].pc = pc
Goto(o, pc) == h' = [h EXCEPT ![o].pc = pc]

\* ExecuteLocalTransaction returns verdict v, CreateOrder will answer r.
Return(o, v, r) ==
  h' = [h EXCEPT ![o].pc = "ending", ![o].verdict = v, ![o].reply = r]

Running(o) ==
  h[o].pc \in {"half", "read", "queried", "sold", "saved", "deleted", "sent"}

Faulty == faults < MaxFaults /\ faults' = faults + 1

\* What the code does not notice, or takes for something else:
\*   "check"   CheckLocalTransaction's query fails, or is made too early
\*   "timer"   OrderTimeout's query fails, or is made too early
\*   "return"  Begin, the SELECT or COMMIT of AutoReback fails
\*   "reply"   the reply of a Sell is lost
\*   "commit"  COMMIT of the order fails
Causes == {"check", "timer", "return", "reply", "commit"}

Missed(o, c) == unseen' = [unseen EXCEPT ![o] = @ \cup {c}]

\* None of them has come upon o that matters to its stock.
NothingUnseen(o) == unseen[o] \subseteq {"timer"}

\* The order's database transaction ends without effect.
Unlock(o) ==
  cartLock' = [u \in Users |-> IF cartLock[u] = o THEN None ELSE cartLock[u]]

SendHalf(o) ==
  /\ At(o, "new")
  /\ Goto(o, "half")
  /\ half' = [half EXCEPT ![o] = "prepared"]
  /\ UNCHANGED <<stockVars, late, row, cart, cartLock, inbox, timeoutVars,
                 envVars>>

\* The producer does not start, or the send fails, stored or not.
SendHalfFail(o) ==
  /\ At(o, "new")
  /\ Faulty
  /\ h' = [h EXCEPT ![o].pc = "done", ![o].reply = "error"]
  /\ \E s \in {"none", "prepared"} : half' = [half EXCEPT ![o] = s]
  /\ UNCHANGED <<stockVars, late, row, cart, cartLock, inbox, timeoutVars, ops,
                 unseen>>

\* The message is stored but the result is not SendOK: the listener is not
\* run, its Code still is the zero value, which is codes.OK.
SendHalfNotOK(o) ==
  /\ At(o, "new")
  /\ Faulty
  /\ Return(o, "rollback", "OK")
  /\ half' = [half EXCEPT ![o] = "prepared"]
  /\ UNCHANGED <<stockVars, late, row, cart, cartLock, inbox, timeoutVars,
                 ops, unseen>>

ReadCart(o) ==
  /\ At(o, "half")
  /\ IF cart[UserOf[o]] = NoItems
     THEN Return(o, "rollback", "error")
     ELSE h' = [h EXCEPT ![o].pc = "read", ![o].items = cart[UserOf[o]]]
  /\ UNCHANGED <<stockVars, late, row, cart, cartLock, half, inbox,
                 timeoutVars, envVars>>

\* BatchGetGoods answers with the products it finds; others fall out of the
\* order without an error.
QueryGoods(o) ==
  /\ At(o, "read")
  /\ h' = [h EXCEPT ![o].pc = "queried",
                    ![o].items = [g \in Goods |->
                                    IF g \in Catalog THEN @[g] ELSE 0]]
  /\ UNCHANGED <<stockVars, late, row, cart, cartLock, half, inbox,
                 timeoutVars, envVars>>

\* Its query fails, which it does not look at: it has found none.
QueryGoodsNone(o) ==
  /\ At(o, "read")
  /\ Faulty
  /\ h' = [h EXCEPT ![o].pc = "queried", ![o].items = NoItems]
  /\ UNCHANGED <<stockVars, late, row, cart, cartLock, half, inbox,
                 timeoutVars, ops, unseen>>

\* The cart's query or BatchGetGoods fails, or Sell fails and sold nothing.
CallFail(o) ==
  /\ h[o].pc \in {"half", "read", "queried"}
  /\ Faulty
  /\ Return(o, "rollback", "error")
  /\ UNCHANGED <<stockVars, late, row, cart, cartLock, half, inbox,
                 timeoutVars, ops, unseen>>

Sell(o) ==
  /\ At(o, "queried")
  /\ Ledger!LedgerSell(o, h[o].items)
  /\ Goto(o, "sold")
  /\ UNCHANGED <<late, row, cart, cartLock, half, inbox, timeoutVars,
                 envVars>>

SellRefused(o) ==
  /\ At(o, "queried")
  /\ ~Ledger!Sufficient(h[o].items)
  /\ Return(o, "rollback", "error")
  /\ UNCHANGED <<stockVars, late, row, cart, cartLock, half, inbox,
                 timeoutVars, envVars>>

\* Mutant: the broken call is made again.
SellBrokenAgain(o) ==
  /\ At(o, "queried")
  /\ Faulty
  /\ Missed(o, "reply")
  /\ late' = [late EXCEPT ![o] = TRUE]
  /\ UNCHANGED <<stockVars, h, row, cart, cartLock, half, inbox, timeoutVars,
                 ops>>

\* The connection breaks: an error here, while inventory_srv goes on.
SellBroken(o) ==
  /\ At(o, "queried")
  /\ Faulty
  /\ Missed(o, "reply")
  /\ late' = [late EXCEPT ![o] = TRUE]
  /\ Return(o, "rollback", "error")
  /\ UNCHANGED <<stockVars, row, cart, cartLock, half, inbox, timeoutVars, ops>>

\* order_info and order_goods are written; without any product the batch
\* insert affects no row.
SaveOrder(o) ==
  /\ At(o, "sold")
  /\ IF h[o].items = NoItems THEN Return(o, "commit", "error")
                             ELSE Goto(o, "saved")
  /\ UNCHANGED <<stockVars, late, row, cart, cartLock, half, inbox,
                 timeoutVars, envVars>>

\* Mutant: how many rows were deleted is not looked at.
DeleteCartAny(o) ==
  LET u == UserOf[o] IN
  /\ At(o, "saved")
  /\ cartLock[u] = None
  /\ Goto(o, "deleted")
  /\ cartLock' = [cartLock EXCEPT ![u] = o]
  /\ UNCHANGED <<stockVars, late, row, cart, half, inbox, timeoutVars,
                 envVars>>

\* The user's checked rows are deleted, and stay locked until COMMIT; there
\* is none left if another order of the user took them.
DeleteCart(o) ==
  LET u == UserOf[o] IN
  /\ At(o, "saved")
  /\ cartLock[u] = None
  /\ IF cart[u] = NoItems
     THEN Return(o, "commit", "error") /\ UNCHANGED cartLock
     ELSE Goto(o, "deleted") /\ cartLock' = [cartLock EXCEPT ![u] = o]
  /\ UNCHANGED <<stockVars, late, row, cart, half, inbox, timeoutVars,
                 envVars>>

\* Mutant: the verdict of the failures before the sale.
StatementFailRollback(o) ==
  /\ h[o].pc \in {"sold", "saved"}
  /\ Faulty
  /\ Return(o, "rollback", "error")
  /\ UNCHANGED <<stockVars, late, row, cart, cartLock, half, inbox,
                 timeoutVars, ops, unseen>>

\* A statement of the transaction fails; the stock is given back.
StatementFail(o) ==
  /\ h[o].pc \in {"sold", "saved"}
  /\ Faulty
  /\ Return(o, "commit", "error")
  /\ UNCHANGED <<stockVars, late, row, cart, cartLock, half, inbox,
                 timeoutVars, ops, unseen>>

SendTimeout(o) ==
  /\ At(o, "deleted")
  /\ Goto(o, "sent")
  /\ timer' = [timer EXCEPT ![o] = "armed"]
  /\ UNCHANGED <<stockVars, late, row, cart, cartLock, half, inbox, t, tries,
                 envVars>>

\* The send fails, stored or not.
SendTimeoutFail(o) ==
  /\ At(o, "deleted")
  /\ Faulty
  /\ \E s \in {"none", "armed"} : timer' = [timer EXCEPT ![o] = s]
  /\ Unlock(o)
  /\ Return(o, "commit", "error")
  /\ UNCHANGED <<stockVars, late, row, cart, half, inbox, t, tries, ops,
                 unseen>>

\* Mutant: the verdict delivers the order_reback message of a good order.
CommitOrderCommit(o) ==
  /\ At(o, "sent")
  /\ row' = [row EXCEPT ![o] = ""]
  /\ cart' = [cart EXCEPT ![UserOf[o]] = NoItems]
  /\ Unlock(o)
  /\ Return(o, "commit", "OK")
  /\ UNCHANGED <<stockVars, late, half, inbox, timeoutVars, envVars>>

CommitOrder(o) ==
  /\ At(o, "sent")
  /\ row' = [row EXCEPT ![o] = ""]
  /\ cart' = [cart EXCEPT ![UserOf[o]] = NoItems]
  /\ Unlock(o)
  /\ Return(o, "rollback", "OK")
  /\ UNCHANGED <<stockVars, late, half, inbox, timeoutVars, envVars>>

\* COMMIT fails, its error is not looked at.
CommitOrderFail(o) ==
  /\ At(o, "sent")
  /\ Faulty
  /\ Missed(o, "commit")
  /\ Unlock(o)
  /\ Return(o, "rollback", "OK")
  /\ UNCHANGED <<stockVars, late, row, cart, half, inbox, timeoutVars, ops>>

-----------------------------------------------------------------------------
\* The broker and the transaction message

Resolve(o, v) ==
  IF v = "commit"
  THEN /\ half' = [half EXCEPT ![o] = "committed"]
       /\ inbox' = inbox \cup {o}
  ELSE /\ half' = [half EXCEPT ![o] = IF @ = "prepared" THEN "dropped" ELSE @]
       /\ UNCHANGED inbox

EndTransaction(o) ==
  /\ At(o, "ending")
  /\ Goto(o, "done")
  /\ Resolve(o, h[o].verdict)
  /\ UNCHANGED <<stockVars, late, row, cart, cartLock, timeoutVars, envVars>>

\* It is sent one way; when it is lost the broker asks later.
EndTransactionLost(o) ==
  /\ At(o, "ending")
  /\ Faulty
  /\ Goto(o, "done")
  /\ UNCHANGED <<stockVars, late, row, cart, cartLock, half, inbox,
                 timeoutVars, ops, unseen>>

\* Mutant: the two answers of the check swapped.
CheckLocalSwapped(o) ==
  /\ half[o] = "prepared"
  /\ Resolve(o, IF row[o] = None THEN "rollback" ELSE "commit")
  /\ UNCHANGED <<stockVars, h, late, row, cart, cartLock, timeoutVars, envVars>>


\* CheckLocalTransaction: without an order row the stock is to go back, also
\* when the handler is still at work and the row may come yet.
CheckLocal(o) ==
  /\ half[o] = "prepared"
  /\ Resolve(o, IF row[o] = None THEN "commit" ELSE "rollback")
  /\ IF Running(o) THEN Missed(o, "check") ELSE UNCHANGED unseen
  /\ UNCHANGED <<stockVars, h, late, row, cart, cartLock, timeoutVars,
                 faults, ops>>

\* Its query fails: RowsAffected is 0, as if there were no row.
CheckLocalUnread(o) ==
  /\ half[o] = "prepared"
  /\ row[o] # None
  /\ Faulty
  /\ Resolve(o, "commit")
  /\ Missed(o, "check")
  /\ UNCHANGED <<stockVars, h, late, row, cart, cartLock, timeoutVars, ops>>

-----------------------------------------------------------------------------
\* inventory_srv

\* The order_reback consumer; the broker may deliver the message again.
AutoReback(o) ==
  /\ o \in inbox
  /\ IF status[o] = 1 THEN Ledger!LedgerReturn(o) ELSE UNCHANGED stockVars
  /\ inbox' \in {inbox \ {o}, inbox}
  /\ UNCHANGED <<h, late, row, cart, cartLock, half, timeoutVars, envVars>>

\* Begin, its SELECT or its COMMIT fails, or MySQL has no connection left:
\* ConsumeSuccess, and nothing is returned.
AutoRebackUnseen(o) ==
  /\ o \in inbox
  /\ status[o] = 1
  /\ Faulty
  /\ Missed(o, "return")
  /\ inbox' = inbox \ {o}
  /\ UNCHANGED <<stockVars, h, late, row, cart, cartLock, half, timeoutVars,
                 ops>>

\* The Sell whose client has gone runs to its end, or fails there.
LateSell(o) ==
  /\ late[o]
  /\ late' = [late EXCEPT ![o] = FALSE]
  /\ Ledger!LedgerSell(o, h[o].items) \/ UNCHANGED stockVars
  /\ UNCHANGED <<h, row, cart, cartLock, half, inbox, timeoutVars, envVars>>

-----------------------------------------------------------------------------
\* OrderTimeout, the consumer of topic order_timeout

Delivered(o) ==
  /\ timer[o] \in {"armed", "due"}
  /\ t[o] = "idle"

\* ConsumeRetryLater: delivered again, unless that happened too often.
RetryLater(o) ==
  /\ t' = [t EXCEPT ![o] = "idle"]
  /\ tries' = [tries EXCEPT ![o] = @ + 1]
  /\ timer' = [timer EXCEPT ![o] = IF tries[o] < MaxRetry THEN @ ELSE "gone"]

\* No such order, perhaps none yet, or it is paid: nothing to do.
TimeoutNothing(o) ==
  /\ Delivered(o)
  /\ row[o] \in {None, "TRADE_SUCCESS"}
  /\ timer' = [timer EXCEPT ![o] = "gone"]
  /\ IF Running(o) THEN Missed(o, "timer") ELSE UNCHANGED unseen
  /\ UNCHANGED <<stockVars, h, late, row, cart, cartLock, half, inbox, t,
                 tries, faults, ops>>

\* The query fails: RowsAffected is 0, as if there were no such order.
TimeoutUnread(o) ==
  /\ Delivered(o)
  /\ row[o] \notin {None, "TRADE_SUCCESS"}
  /\ Faulty
  /\ timer' = [timer EXCEPT ![o] = "gone"]
  /\ Missed(o, "timer")
  /\ UNCHANGED <<stockVars, h, late, row, cart, cartLock, half, inbox, t,
                 tries, ops>>

TimeoutRead(o) ==
  /\ Delivered(o)
  /\ row[o] \notin {None, "TRADE_SUCCESS"}
  /\ timer' = [timer EXCEPT ![o] = "due"]
  /\ t' = [t EXCEPT ![o] = "read"]
  /\ UNCHANGED <<stockVars, h, late, row, cart, cartLock, half, inbox, tries,
                 envVars>>

\* Mutant: the row is committed before the message is sent.
TimeoutSaveCommit(o) ==
  /\ t[o] = "read"
  /\ t' = [t EXCEPT ![o] = "saved"]
  /\ row' = [row EXCEPT ![o] = "TRADE_CLOSED"]
  /\ UNCHANGED <<stockVars, h, late, cart, cartLock, half, inbox, timer,
                 tries, envVars>>

\* Save writes TRADE_CLOSED over the row and locks it until COMMIT.
TimeoutSave(o) ==
  /\ t[o] = "read"
  /\ t' = [t EXCEPT ![o] = "saved"]
  /\ UNCHANGED <<stockVars, h, late, row, cart, cartLock, half, inbox, timer,
                 tries, envVars>>

TimeoutSend(o) ==
  /\ t[o] = "saved"
  /\ t' = [t EXCEPT ![o] = "sent"]
  /\ inbox' = inbox \cup {o}
  /\ UNCHANGED <<stockVars, h, late, row, cart, cartLock, half, timer, tries,
                 envVars>>

\* Mutant: ConsumeSuccess although the message was not sent.
TimeoutSendFailAck(o) ==
  /\ t[o] = "saved"
  /\ Faulty
  /\ inbox' \in {inbox, inbox \cup {o}}
  /\ t' = [t EXCEPT ![o] = "idle"]
  /\ timer' = [timer EXCEPT ![o] = "gone"]
  /\ UNCHANGED <<stockVars, h, late, row, cart, cartLock, half, tries, ops,
                 unseen>>

TimeoutSendFail(o) ==
  /\ t[o] = "saved"
  /\ Faulty
  /\ inbox' \in {inbox, inbox \cup {o}}
  /\ RetryLater(o)
  /\ UNCHANGED <<stockVars, h, late, row, cart, cartLock, half, ops, unseen>>

\* tx.Commit() returns a *gorm.DB, never nil: RetryLater also on success.
TimeoutCommit(o) ==
  /\ t[o] = "sent"
  /\ row' = [row EXCEPT ![o] = "TRADE_CLOSED"]
  /\ RetryLater(o)
  /\ UNCHANGED <<stockVars, h, late, cart, cartLock, half, inbox, envVars>>

\* COMMIT fails, or failed the Save whose error is not looked at.
TimeoutCommitFail(o) ==
  /\ t[o] = "sent"
  /\ Faulty
  /\ RetryLater(o)
  /\ UNCHANGED <<stockVars, h, late, row, cart, cartLock, half, inbox, ops,
                 unseen>>

-----------------------------------------------------------------------------
\* Other callers, and the process

\* One UPDATE; it waits while OrderTimeout has the row locked.
UpdateOrderStatus(o, s) ==
  /\ ops < MaxOps
  /\ ops' = ops + 1
  /\ row[o] # None
  /\ t[o] \notin {"saved", "sent"}
  /\ row' = [row EXCEPT ![o] = s]
  /\ UNCHANGED <<stockVars, h, late, cart, cartLock, half, inbox, timeoutVars,
                 faults, unseen>>

\* UpdateCartItem or DeleteCartItem changes what the user has checked.
ChangeCart(u, c) ==
  /\ ops < MaxOps
  /\ ops' = ops + 1
  /\ cartLock[u] = None
  /\ cart' = [cart EXCEPT ![u] = c]
  /\ UNCHANGED <<stockVars, h, late, row, cartLock, half, inbox, timeoutVars,
                 faults, unseen>>

\* order_srv dies, of a panic on a producer or otherwise, and comes back: its
\* transactions roll back, a Sell under way may go on without its client.
Crash ==
  /\ Faulty
  /\ h' = [o \in Orders |->
             IF Running(o) \/ At(o, "ending")
             THEN [h[o] EXCEPT !.pc = "dead"] ELSE h[o]]
  /\ \E S \in SUBSET {o \in Orders : At(o, "queried")} :
       /\ late' = [o \in Orders |-> late[o] \/ o \in S]
       /\ unseen' = [o \in Orders |->
                       unseen[o] \cup (IF o \in S THEN {"reply"} ELSE {})]
  /\ cartLock' = [u \in Users |-> None]
  /\ t' = [o \in Orders |-> "idle"]
  /\ UNCHANGED <<stockVars, row, cart, half, inbox, timer, tries, ops>>

-----------------------------------------------------------------------------
Handle(o) ==
  \/ ReadCart(o) \/ QueryGoods(o) \/ Sell(o) \/ SellRefused(o)
  \/ SaveOrder(o) \/ DeleteCart(o) \/ SendTimeout(o) \/ CommitOrder(o)
  \/ EndTransaction(o)

Timeout(o) ==
  \/ TimeoutNothing(o) \/ TimeoutRead(o) \/ TimeoutSave(o) \/ TimeoutSend(o)
  \/ TimeoutCommit(o)

Fault ==
  \/ \E o \in Orders :
       \/ SendHalfFail(o) \/ SendHalfNotOK(o)
       \/ QueryGoodsNone(o) \/ CallFail(o)
       \/ SellBroken(o) \/ StatementFail(o) \/ SendTimeoutFail(o)
       \/ CommitOrderFail(o) \/ EndTransactionLost(o)
       \/ CheckLocalUnread(o) \/ AutoRebackUnseen(o)
       \/ TimeoutUnread(o) \/ TimeoutSendFail(o) \/ TimeoutCommitFail(o)
  \/ Crash

Next ==
  \/ \E o \in Orders : \/ SendHalf(o) \/ Handle(o) \/ CheckLocal(o)
                       \/ AutoReback(o) \/ LateSell(o) \/ Timeout(o)
  \/ \E o \in Orders, s \in Statuses : UpdateOrderStatus(o, s)
  \/ \E u \in Users, c \in Carts : ChangeCart(u, c)
  \/ Fault

Spec == Init /\ [][Next]_vars

\* Handlers run on; with the consumers of both services started, the broker
\* checks and delivers until it is answered.
FairSpec ==
  /\ Spec
  /\ \A o \in Orders : /\ WF_vars(Handle(o)) /\ WF_vars(CheckLocal(o))
                       /\ WF_vars(AutoReback(o)) /\ WF_vars(LateSell(o))
                       /\ WF_vars(Timeout(o))

-----------------------------------------------------------------------------
\* Properties

PCs == {"new", "half", "read", "queried", "sold", "saved", "deleted", "sent",
        "ending", "done", "dead"}

Handlers == [pc : PCs, items : [Goods -> Nat],
             verdict : {"none", "commit", "rollback"},
             reply : {"none", "OK", "error"}]

TypeOK ==
  /\ stocks \in [Goods -> Int]
  /\ status \in [Orders -> 0..2]
  /\ sold \in [Orders -> [Goods -> Nat]]
  /\ h \in [Orders -> Handlers]
  /\ late \in [Orders -> BOOLEAN]
  /\ row \in [Orders -> Statuses \cup {None, "", "TRADE_CLOSED"}]
  /\ cart \in [Users -> [Goods -> Nat]]
  /\ cartLock \in [Users -> Orders \cup {None}]
  /\ half \in [Orders -> {"none", "prepared", "committed", "dropped"}]
  /\ inbox \in SUBSET Orders
  /\ timer \in [Orders -> {"none", "armed", "due", "gone"}]
  /\ t \in [Orders -> {"idle", "read", "saved", "sent"}]
  /\ tries \in [Orders -> Nat]
  /\ unseen \in [Orders -> SUBSET Causes]
  /\ faults \in Nat /\ ops \in Nat

\* The message and the database transaction agree, whatever step the handler
\* or the process fails at: an order that exists never has its transaction
\* message delivered (CheckLocalTransaction and the verdicts of
\* ExecuteLocalTransaction), unless the check could not see the order.
TransactionAtomicity ==
  \A o \in Orders :
    row[o] # None /\ half[o] = "committed" => "check" \in unseen[o]

\* Stock goes back on a timeout or when creating the order failed (comment,
\* inventory.go:238): until its order_timeout message is first delivered, an
\* order that exists holds exactly the stock of its lines, unless the check
\* could not see it.
OrderHoldsStock ==
  \A o \in Orders :
    row[o] # None /\ timer[o] = "armed" /\ "check" \notin unseen[o] =>
      status[o] = 1 /\ sold[o] = h[o].items

\* Nothing is left that would still give the stock of o back or use it.
Settled(o) ==
  /\ h[o].pc \in {"done", "dead"}
  /\ ~late[o]
  /\ half[o] # "prepared"
  /\ o \notin inbox

\* Stock goes back when creating the order failed (inventory.go:238): once
\* everything has come to rest no stock is held for an order that does not
\* exist.
NoStockStranded ==
  \A o \in Orders : Settled(o) /\ status[o] = 1 => row[o] # None

\* The same of what is known to go wrong unnoticed: an order that does not
\* exist keeps its stock only if one of the Causes has come upon it.
StrandedIsUnseen ==
  \A o \in Orders :
    Settled(o) /\ status[o] = 1 /\ NothingUnseen(o) => row[o] # None

\* OrderTimeout sends order_reback before it commits, so a closed order has
\* given its stock back or a message that will is under way, unless
\* AutoReback has acknowledged it on an error.
ClosedGivesBack ==
  \A o \in Orders :
    row[o] = "TRADE_CLOSED" =>
      status[o] # 1 \/ o \in inbox \/ "return" \in unseen[o]

\* A cart is bought once: of a user's concurrent orders that read the same
\* checked rows one is created (DeleteCart decides under the row locks).
CartBoughtOnce ==
  \A o, p \in Orders :
    o # p /\ UserOf[o] = UserOf[p] /\ ops = 0 => row[o] = None \/ row[p] = None

\* OrderTimeout leaves a paid order alone (comment, order.go:369).
PaidIsLeftAlone ==
  [][\A o \in Orders :
       row[o] = "TRADE_SUCCESS" => row'[o] # "TRADE_CLOSED"]_vars

\* OrderTimeout goes back for another delivery in case the commit fails
\* (comment, order.go:398): an order closed by a committed transaction is not
\* closed, and its stock asked back, a second time.
ClosedOnce ==
  [][\A o \in Orders : TimeoutSend(o) => row[o] # "TRADE_CLOSED"]_vars


\* An order that is not paid is closed and its stock given back, unless
\* OrderTimeout could not see it or AutoReback met an error.
UnpaidIsClosed ==
  \A o \in Orders :
    row[o] = "" ~> \/ row[o] = "TRADE_SUCCESS"
                   \/ row[o] = "TRADE_CLOSED" /\ status[o] = 2
                   \/ unseen[o] \cap {"timer", "return"} # {}

-----------------------------------------------------------------------------
\* The inductive invariant behind the safety properties

\* A handler that has not ended has no order yet and no call it gave up; the
\* broker has its message and has not asked; what it has sold it still holds,
\* and from the DELETE to COMMIT it has the cart for itself.
HandlerOK(o) ==
  LET u == UserOf[o]
      unchecked == "check" \notin unseen[o]
  IN
  /\ At(o, "new") => half[o] = "none" /\ o \notin inbox
  /\ At(o, "new") \/ Running(o) => row[o] = None /\ ~late[o]
  /\ unchecked /\ Running(o) => half[o] = "prepared" /\ o \notin inbox
  /\ unchecked /\ h[o].pc \in {"sold", "saved", "deleted", "sent"} =>
       status[o] = 1 /\ sold[o] = h[o].items
  /\ h[o].pc \in {"deleted", "sent"} => cartLock[u] = o /\ cart[u] # NoItems

\* The handler of an order that exists has ended; nobody will sell for it
\* again, deliver its message or, before its timeout, give its stock back.
RowOK(o) ==
  LET unchecked == "check" \notin unseen[o] IN
  row[o] # None =>
    /\ h[o].pc \in {"ending", "done", "dead"} /\ ~late[o]
    /\ At(o, "ending") => h[o].verdict = "rollback"
    /\ ops = 0 => cart[UserOf[o]] = NoItems
    /\ unchecked => half[o] # "committed"
    /\ unchecked /\ timer[o] = "armed" =>
         status[o] = 1 /\ sold[o] = h[o].items /\ o \notin inbox

\* OrderTimeout works on an order that exists, and once it has sent the
\* order_reback message the stock is back or the message under way.
TimeoutOK(o) ==
  /\ t[o] # "idle" => row[o] # None /\ timer[o] # "armed"
  /\ \/ t[o] = "sent"
     \/ row[o] = "TRADE_CLOSED" /\ "TRADE_CLOSED" \notin Statuses
     => status[o] # 1 \/ o \in inbox \/ "return" \in unseen[o]

\* Handler, order, message and timeout fit together at every step of
\* ExecuteLocalTransaction and OrderTimeout, for each order.
IInv ==
  /\ TypeOK
  /\ \A o \in Orders : HandlerOK(o) /\ RowOK(o) /\ TimeoutOK(o)

\* As long as nothing has gone wrong unnoticed: stock is deducted by the
\* handler only, and once that has ended without an order it is still to be
\* asked about, or the message that gives the stock back is under way.
StockOK(o) ==
  NothingUnseen(o) =>
    /\ ~late[o]
    /\ h[o].pc \in {"new", "half", "read", "queried"} => status[o] = 0
    /\ status[o] = 1 /\ row[o] = None /\ ~Running(o) =>
         /\ half[o] = "prepared" \/ o \in inbox
         /\ At(o, "ending") => h[o].verdict = "commit"

\* The invariant behind StrandedIsUnseen
StockInv == \A o \in Orders : StockOK(o)
=============================================================================
