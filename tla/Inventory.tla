----------------------------- MODULE Inventory -----------------------------
(***************************************************************************)
(* inventory_srv/handler/inventory.go, one action per SQL statement of the *)
(* gRPC handlers and of the order_reback consumer.  A session is one of    *)
(* the connections MySQL accepts, with the transaction a handler runs on   *)
(* it.  InnoDB row locks are held to the end of a transaction, so what a   *)
(* transaction writes is kept in tx and reaches the tables when it commits.*)
(*                                                                         *)
(* A request names a product at most once, with a positive quantity.       *)
(***************************************************************************)
EXTENDS Integers, FiniteSetsExt

CONSTANTS Goods,          \* product ids
          Orders,         \* order numbers
          Sessions,       \* the connections MySQL accepts
          Requests,       \* quantity lists callers may send: [Goods -> Nat]
          Levels,         \* the stock levels SetInv is called with
          None,           \* no session / no order
          MaxCalls,       \* bound: remote calls and published messages
          MaxFaults       \* bound: failing statements, connections, processes

ASSUME InventoryAssumption ==
  /\ Requests \subseteq [Goods -> Nat]
  /\ Levels \subseteq Nat
  /\ None \notin Sessions /\ None \notin Orders
  /\ MaxCalls \in Nat /\ MaxFaults \in Nat

VARIABLES stocks,      \* inventories.stocks, committed (0 where no row)
          listed,      \* the products that have a row in inventories
          status,      \* 0: no stock_sell_details row, else its status
          sold,        \* the quantities in that row
          tx,          \* tx[w]: the open transaction of session w
          rowLock,     \* rowLock[g]: session that locked the row of g
          detailLock,  \* detailLock[o]: session that locked o's sell detail
          inbox,       \* order_reback messages not acknowledged
          consuming,   \* whether main could start the consumer
          missed,      \* history: orders whose message an error took away
          calls, faults

tables == <<stocks, listed, status, sold>>
locks == <<rowLock, detailLock>>
queue == <<inbox, consuming, missed>>
vars == <<tables, tx, locks, queue, calls, faults>>

NoItems == [g \in Goods |-> 0]
Idle == [op |-> "none", sn |-> None, items |-> NoItems, todo |-> {}]
Asked(q) == {g \in Goods : q[g] > 0}

\* main ignores the errors of NewPushConsumer, Subscribe and Start.
Init ==
  /\ consuming \in BOOLEAN
  /\ listed \in SUBSET Goods
  /\ stocks \in [Goods -> Levels \cup {0}]
  /\ \A g \in Goods \ listed : stocks[g] = 0
  /\ status = [o \in Orders |-> 0]
  /\ sold = [o \in Orders |-> NoItems]
  /\ tx = [w \in Sessions |-> Idle]
  /\ rowLock = [g \in Goods |-> None]
  /\ detailLock = [o \in Orders |-> None]
  /\ inbox = {} /\ missed = {}
  /\ calls = 0 /\ faults = 0

-----------------------------------------------------------------------------
\* Transactions

\* MySQL has a connection left for one more transaction.
CanConnect == \E w \in Sessions : tx[w].op = "none"

\* A handler is at work on the transaction of w.
Runs(w) == tx[w].op \notin {"none", "left"}

\* The loop of a handler reaches product g: each list has an order of its own.
Turn(w, g) == g \in tx[w].todo

RowFree(w, g) == rowLock[g] \in {None, w}
DetailFree(w) == detailLock[tx[w].sn] \in {None, w}

\* The loop's statement on g has run; its row stays locked.
LockRow(w, g) ==
  /\ rowLock' = [rowLock EXCEPT ![g] = w]
  /\ tx' = [tx EXCEPT ![w].todo = @ \ {g}]
  /\ UNCHANGED <<tables, detailLock, queue, calls, faults>>

\* The statement on the sell detail has run.
LockDetail(w, op) ==
  /\ detailLock' = [detailLock EXCEPT ![tx[w].sn] = w]
  /\ tx' = [tx EXCEPT ![w].op = op]
  /\ UNCHANGED <<tables, rowLock, queue, calls, faults>>

Release(w) ==
  /\ tx' = [tx EXCEPT ![w] = Idle]
  /\ rowLock' = [g \in Goods |-> IF rowLock[g] = w THEN None ELSE rowLock[g]]
  /\ detailLock' = [o \in Orders |->
                      IF detailLock[o] = w THEN None ELSE detailLock[o]]

Rollback(w) ==
  /\ Release(w)
  /\ UNCHANGED <<tables, queue, calls, faults>>

\* ConsumeSuccess takes the message of order o out of the queue.
Acknowledge(o) ==
  /\ inbox' = inbox \ {o}
  /\ UNCHANGED <<consuming, missed>>

\* ConsumeSuccess after an error the handler has not seen.
AcknowledgeUnseen(o) ==
  /\ inbox' = inbox \ {o}
  /\ missed' = missed \cup {o}
  /\ UNCHANGED consuming

\* The message w is consuming, if it runs an AutoReback.
Message(w) == IF tx[w].op \in {"autoreback", "marked"} THEN {tx[w].sn} ELSE {}

\* Mutant: ConsumeSuccess after the rollback of an AutoReback.
RollbackAck(w) ==
  /\ Release(w)
  /\ inbox' = inbox \ Message(w)
  /\ UNCHANGED <<tables, consuming, missed, calls>>

\* ConsumeRetryLater puts the message of an AutoReback back in the queue.
RollbackRetry(w) ==
  /\ Release(w)
  /\ inbox' = inbox \cup Message(w)
  /\ missed' = missed \ Message(w)
  /\ UNCHANGED <<tables, consuming, calls>>

Begin(w, op, o, q) ==
  /\ tx[w].op = "none"
  /\ CanConnect
  /\ tx' = [tx EXCEPT ![w] =
              [op |-> op, sn |-> o, items |-> q, todo |-> Asked(q)]]
  /\ UNCHANGED <<tables, locks, queue, faults>>

Call == calls < MaxCalls /\ calls' = calls + 1

-----------------------------------------------------------------------------
\* SetInv: one statement that saves the row, or inserts it.

SetInv(g, n) ==
  /\ Call
  /\ CanConnect
  /\ rowLock[g] = None
  /\ stocks' = [stocks EXCEPT ![g] = n]
  /\ listed' = listed \cup {g}
  /\ UNCHANGED <<status, sold, tx, locks, queue, faults>>

-----------------------------------------------------------------------------
\* Sell

SellBegin(w, o, q) == Call /\ Begin(w, "sell", o, q)

\* Mutant: the check of the stock without the lock of the row.
SellUpdateUnlocked(w, g) ==
  /\ tx[w].op = "sell"
  /\ Turn(w, g)
  /\ stocks[g] - tx[w].items[g] > 0
  /\ tx' = [tx EXCEPT ![w].todo = @ \ {g}]
  /\ UNCHANGED <<tables, locks, queue, calls, faults>>

\* Mutant: UPDATE without the condition on the stock.
SellUpdateUnchecked(w, g) ==
  /\ tx[w].op = "sell"
  /\ Turn(w, g)
  /\ RowFree(w, g)
  /\ LockRow(w, g)

\* UPDATE ... WHERE stocks - n > 0 matched the row.
SellUpdate(w, g) ==
  /\ tx[w].op = "sell"
  /\ Turn(w, g)
  /\ RowFree(w, g)
  /\ stocks[g] - tx[w].items[g] > 0
  /\ LockRow(w, g)

\* It matched no row: roll the whole sale back, ResourceExhausted.
SellRefuse(w, g) ==
  /\ tx[w].op = "sell"
  /\ Turn(w, g)
  /\ RowFree(w, g)
  /\ stocks[g] - tx[w].items[g] <= 0
  /\ Rollback(w)

\* Mutant: no unique index on order_sn.
SellCreateAgain(w) ==
  /\ tx[w].op = "sell"
  /\ tx[w].todo = {}
  /\ DetailFree(w)
  /\ LockDetail(w, "created")

SellCreate(w) ==
  /\ tx[w].op = "sell"
  /\ tx[w].todo = {}
  /\ DetailFree(w)
  /\ status[tx[w].sn] = 0
  /\ LockDetail(w, "created")

\* Mutant: an upsert that counts the status on.
SellUpsert(w) ==
  /\ tx[w].op = "sell"
  /\ tx[w].todo = {}
  /\ DetailFree(w)
  /\ status[tx[w].sn] # 0
  /\ status' = [status EXCEPT ![tx[w].sn] = @ + 1]
  /\ Release(w)
  /\ UNCHANGED <<stocks, listed, sold, queue, calls, faults>>

\* The unique index on order_sn refuses a second sale of the order.
SellDuplicate(w) ==
  /\ tx[w].op = "sell"
  /\ tx[w].todo = {}
  /\ DetailFree(w)
  /\ status[tx[w].sn] # 0
  /\ Rollback(w)

SellCommit(w) ==
  /\ tx[w].op = "created"
  /\ stocks' = [g \in Goods |-> stocks[g] - tx[w].items[g]]
  /\ status' = [status EXCEPT ![tx[w].sn] = 1]
  /\ sold' = [sold EXCEPT ![tx[w].sn] = tx[w].items]
  /\ Release(w)
  /\ UNCHANGED <<listed, queue, calls, faults>>

-----------------------------------------------------------------------------
\* Reback

RebackBegin(w, q) == Call /\ Begin(w, "reback", None, q)

\* SELECT ... FOR UPDATE found the row; += and Save follow under its lock.
RebackUpdate(w, g) ==
  /\ tx[w].op = "reback"
  /\ Turn(w, g)
  /\ RowFree(w, g)
  /\ g \in listed
  /\ LockRow(w, g)

\* The error of Save is not looked at: the loop goes on without product g.
RebackSaveFail(w, g) ==
  /\ faults < MaxFaults
  /\ tx[w].op = "reback"
  /\ Turn(w, g)
  /\ RowFree(w, g)
  /\ g \in listed
  /\ faults' = faults + 1
  /\ rowLock' = [rowLock EXCEPT ![g] = w]
  /\ tx' = [tx EXCEPT ![w].todo = @ \ {g}, ![w].items[g] = 0]
  /\ UNCHANGED <<tables, detailLock, queue, calls>>

RebackMissing(w, g) ==
  /\ tx[w].op = "reback"
  /\ Turn(w, g)
  /\ RowFree(w, g)
  /\ g \notin listed
  /\ Rollback(w)

RebackCommit(w) ==
  /\ tx[w].op = "reback"
  /\ tx[w].todo = {}
  /\ stocks' = [g \in Goods |-> stocks[g] + tx[w].items[g]]
  /\ Release(w)
  /\ UNCHANGED <<listed, status, sold, queue, calls, faults>>

-----------------------------------------------------------------------------
\* AutoReback, the consumer of topic order_reback

\* order_srv's transaction message is committed, or sent by OrderTimeout.
Publish(o) ==
  /\ Call
  /\ inbox' = inbox \cup {o}
  /\ missed' = missed \ {o}
  /\ UNCHANGED <<tables, tx, locks, consuming, faults>>

\* Mutant: the row count of the SELECT is not looked at.
AutoRebackSelectAny(w, o) ==
  /\ o \in inbox
  /\ Begin(w, "autoreback", o, sold[o])
  /\ UNCHANGED calls

\* The plain SELECT finds the detail with status 1.  The broker may deliver
\* the message to a second session before the first acknowledges it.
AutoRebackSelect(w, o) ==
  /\ o \in inbox
  /\ status[o] = 1
  /\ Begin(w, "autoreback", o, sold[o])
  /\ UNCHANGED calls

\* The handler returns without ending its transaction, for good.
Leave(w) ==
  /\ tx[w].op = "none"
  /\ tx' = [tx EXCEPT ![w].op = "left"]
  /\ UNCHANGED <<tables, locks, calls>>

\* It finds none: ConsumeSuccess, and the transaction is left open.
AutoRebackNothing(w, o) ==
  /\ o \in inbox
  /\ status[o] # 1
  /\ Leave(w)
  /\ Acknowledge(o)
  /\ UNCHANGED faults

\* The SELECT fails: RowsAffected is 0 as well, whatever the detail says.
AutoRebackUnread(w, o) ==
  /\ o \in inbox
  /\ faults < MaxFaults
  /\ faults' = faults + 1
  /\ Leave(w)
  /\ AcknowledgeUnseen(o)

\* Begin failed unnoticed: the SELECT does not run, no row, ConsumeSuccess.
AutoRebackNoConn(o) ==
  /\ o \in inbox
  /\ ~CanConnect
  /\ AcknowledgeUnseen(o)
  /\ UNCHANGED <<tables, tx, locks, calls, faults>>

\* Begin failed although MySQL had a connection to give.
AutoRebackBeginFail(o) ==
  /\ o \in inbox
  /\ faults < MaxFaults
  /\ faults' = faults + 1
  /\ AcknowledgeUnseen(o)
  /\ UNCHANGED <<tables, tx, locks, calls>>

AutoRebackUpdate(w, g) ==
  /\ tx[w].op = "autoreback"
  /\ Turn(w, g)
  /\ RowFree(w, g)
  /\ g \in listed
  /\ LockRow(w, g)

\* Mutant: the driver counts the rows found, not those changed.
AutoRebackMarkFound(w) ==
  /\ tx[w].op = "autoreback"
  /\ tx[w].todo = {}
  /\ DetailFree(w)
  /\ LockDetail(w, "marked")

\* UPDATE ... SET status = 2 WHERE order_sn changes the row ...
AutoRebackMark(w) ==
  /\ tx[w].op = "autoreback"
  /\ tx[w].todo = {}
  /\ DetailFree(w)
  /\ status[tx[w].sn] # 2
  /\ LockDetail(w, "marked")

\* Mutant: the transaction is left open, as where no detail is found.
AutoRebackAlreadyOpen(w) ==
  /\ tx[w].op = "autoreback"
  /\ tx[w].todo = {}
  /\ DetailFree(w)
  /\ status[tx[w].sn] = 2
  /\ tx' = [tx EXCEPT ![w].op = "left"]
  /\ Acknowledge(tx[w].sn)
  /\ UNCHANGED <<tables, locks, calls, faults>>

\* ... or finds it already at 2: the driver counts changed rows, so
\* RowsAffected is 0, the stock goes back to where it was, RetryLater.
AutoRebackAlready(w) ==
  /\ tx[w].op = "autoreback"
  /\ tx[w].todo = {}
  /\ DetailFree(w)
  /\ status[tx[w].sn] = 2
  /\ RollbackRetry(w)
  /\ UNCHANGED faults

\* Mutant: one unit of each product goes back.
AutoRebackCommitOne(w) ==
  /\ tx[w].op = "marked"
  /\ stocks' = [g \in Goods |->
                  stocks[g] + (IF tx[w].items[g] > 0 THEN 1 ELSE 0)]
  /\ status' = [status EXCEPT ![tx[w].sn] = 2]
  /\ Acknowledge(tx[w].sn)
  /\ Release(w)
  /\ UNCHANGED <<listed, sold, calls, faults>>

AutoRebackCommit(w) ==
  /\ tx[w].op = "marked"
  /\ stocks' = [g \in Goods |-> stocks[g] + tx[w].items[g]]
  /\ status' = [status EXCEPT ![tx[w].sn] = 2]
  /\ Acknowledge(tx[w].sn)
  /\ Release(w)
  /\ UNCHANGED <<listed, sold, calls, faults>>

\* COMMIT fails, its error is not looked at: ConsumeSuccess all the same.
AutoRebackCommitFail(w) ==
  /\ faults < MaxFaults
  /\ tx[w].op = "marked"
  /\ faults' = faults + 1
  /\ AcknowledgeUnseen(tx[w].sn)
  /\ Release(w)
  /\ UNCHANGED <<tables, calls>>

-----------------------------------------------------------------------------
\* What may go wrong in any transaction

Blocked(w) ==
  \/ \E g \in Goods : Turn(w, g) /\ ~RowFree(w, g)
  \/ /\ tx[w].op \in {"sell", "autoreback"}
     /\ tx[w].todo = {}
     /\ ~DetailFree(w)

\* InnoDB names a waiting transaction a deadlock victim, or it waits too
\* long: the statement fails, the handler rolls back.
LockWaitError(w) ==
  /\ Blocked(w)
  /\ RollbackRetry(w)
  /\ UNCHANGED faults

\* Mutant: the message is acknowledged when it is received.
AbortAcked(w) ==
  /\ faults < MaxFaults
  /\ Runs(w)
  /\ faults' = faults + 1
  /\ RollbackAck(w)

\* A statement whose error is looked at fails, the connection drops or the
\* process dies before COMMIT.
Abort(w) ==
  /\ faults < MaxFaults
  /\ Runs(w)
  /\ faults' = faults + 1
  /\ RollbackRetry(w)

-----------------------------------------------------------------------------
\* What an open transaction does next of its own accord.
Progress(w) ==
  \/ \E g \in Goods : \/ SellUpdate(w, g) \/ SellRefuse(w, g)
                      \/ RebackUpdate(w, g) \/ RebackMissing(w, g)
                      \/ AutoRebackUpdate(w, g)
  \/ SellCreate(w) \/ SellDuplicate(w) \/ SellCommit(w)
  \/ RebackCommit(w)
  \/ AutoRebackMark(w) \/ AutoRebackAlready(w) \/ AutoRebackCommit(w)
  \/ LockWaitError(w)

\* The broker delivers the message of order o to the consumer, if it runs.
Deliver(o) ==
  /\ consuming
  /\ \/ \E w \in Sessions : \/ AutoRebackSelect(w, o)
                           \/ AutoRebackNothing(w, o)
                           \/ AutoRebackUnread(w, o)
     \/ AutoRebackNoConn(o)
     \/ AutoRebackBeginFail(o)

Client ==
  \/ \E g \in Goods, n \in Levels : SetInv(g, n)
  \/ \E w \in Sessions, o \in Orders, q \in Requests : SellBegin(w, o, q)
  \/ \E w \in Sessions, q \in Requests : RebackBegin(w, q)
  \/ \E o \in Orders : Publish(o)

Fault == \E w \in Sessions :
  \/ AutoRebackCommitFail(w) \/ Abort(w)
  \/ \E g \in Goods : RebackSaveFail(w, g)

Next ==
  \/ Client
  \/ \E o \in Orders : Deliver(o)
  \/ \E w \in Sessions : Progress(w)
  \/ Fault

Spec == Init /\ [][Next]_vars

\* Handlers run to their end; the broker delivers until it is acknowledged.
FairSpec ==
  /\ Spec
  /\ \A w \in Sessions : WF_vars(Progress(w))
  /\ \A o \in Orders : WF_vars(Deliver(o))
-----------------------------------------------------------------------------
\* Properties

Ops == {"none", "left", "sell", "created", "reback", "autoreback", "marked"}

Transactions == [op : Ops, sn : Orders \cup {None},
                 items : [Goods -> Nat], todo : SUBSET Goods]

\* Type invariant of the tables, the open transactions and the locks.
TypeOK ==
  /\ stocks \in [Goods -> Int]
  /\ listed \in SUBSET Goods
  /\ status \in [Orders -> 0..2]
  /\ sold \in [Orders -> [Goods -> Nat]]
  /\ tx \in [Sessions -> Transactions]
  /\ \A w \in Sessions :
       tx[w].op \in {"sell", "created", "autoreback", "marked"}
         => tx[w].sn \in Orders
  /\ rowLock \in [Goods -> Sessions \cup {None}]
  /\ detailLock \in [Orders -> Sessions \cup {None}]
  /\ inbox \in SUBSET Orders /\ missed \in SUBSET Orders
  /\ consuming \in BOOLEAN
  /\ calls \in Nat /\ faults \in Nat

\* The products whose statement the transaction of w has already run.
Done(w) == {g \in Goods : tx[w].items[g] > 0 /\ g \notin tx[w].todo}

\* Sell checks the stock in the WHERE clause of its UPDATE and commits later:
\* the check still holds at COMMIT because the row stays locked, whatever
\* other sales, returns and SetInv calls ran in between.
CheckedStaysTrue ==
  \A w \in Sessions : tx[w].op \in {"sell", "created"} =>
    \A g \in Done(w) : rowLock[g] = w /\ stocks[g] - tx[w].items[g] > 0

\* AutoReback writes back the quantities it read before it held any lock:
\* they are still those of the sell detail, and once the detail is marked
\* nobody else can return the order before this transaction ends.
ReadStaysTrue ==
  \A w \in Sessions : tx[w].op \in {"autoreback", "marked"} =>
    /\ tx[w].items = sold[tx[w].sn]
    /\ status[tx[w].sn] \in {1, 2}
    /\ \A g \in Done(w) : rowLock[g] = w
    /\ tx[w].op = "marked" =>
         /\ detailLock[tx[w].sn] = w
         /\ status[tx[w].sn] = 1

\* Stock is never sold that is not there: no interleaving of sales, returns
\* and SetInv takes a product below zero.
NeverNegative == \A g \in Goods : stocks[g] >= 0

\* What is left of the quantities q when some products are passed over.
PartsOf(q) ==
  {[g \in Goods |-> IF g \in some THEN q[g] ELSE 0] : some \in SUBSET Goods}

\* What one open transaction may rely on, statement by statement: the sale
\* or return it stands for, the rows it has locked, the detail it has locked.
SessionOK(w) ==
  /\ tx[w].op \in {"sell", "created"} => tx[w].items \in Requests
  /\ tx[w].op = "reback" => \E q \in Requests : tx[w].items \in PartsOf(q)
  /\ tx[w].op \in {"sell", "created"} =>
       \A g \in Done(w) : rowLock[g] = w /\ stocks[g] - tx[w].items[g] > 0
  /\ tx[w].op \in {"reback", "autoreback", "marked"} =>
       \A g \in Done(w) : rowLock[g] = w
  /\ tx[w].op \in {"created", "marked"} =>
       tx[w].todo = {} /\ detailLock[tx[w].sn] = w
  /\ tx[w].op = "created" => status[tx[w].sn] = 0
  /\ tx[w].op = "marked" => status[tx[w].sn] = 1
  /\ tx[w].op \in {"autoreback", "marked"} =>
       tx[w].items = sold[tx[w].sn] /\ status[tx[w].sn] \in {1, 2}

\* The inductive invariant of the handlers.
IInv == TypeOK /\ NeverNegative /\ \A w \in Sessions : SessionOK(w)

\* The handlers implement the atomic ledger: every sale is all or nothing
\* and one per order number, every order is returned at most once, whole and
\* with the quantities sold, however statements interleave and fail.  Of
\* Reback, which ignores the error of Save, the ledger promises only parts.
Ledger == INSTANCE StockLedger
ImplementsLedger == Ledger!LedgerSpec

\* What the order o holds of the product g: deducted and not returned.
HeldBy(g) == [o \in Orders |-> IF status[o] = 1 THEN sold[o][g] ELSE 0]
Held(g) == SumFunctionOnSet(HeldBy(g), Orders)

\* A sale or a return moves stock between the shelf and the orders and never
\* makes or loses any: whenever a step changes a sell detail, the sum of the
\* stock and of what all orders hold stays the same, for every product.
SalesConserve ==
  [][status' # status =>
       \A g \in Goods : stocks'[g] + Held(g)' = stocks[g] + Held(g)]_vars

\* AutoReback must give the stock back (comment at line 268): a message
\* leaves the queue only when its order has nothing deducted any more, or at
\* one of the errors AutoReback does not see: of Begin (also when MySQL has
\* no connection left), of the SELECT and of COMMIT.
AckMeansReturned ==
  [][\A o \in inbox : o \notin inbox' => status'[o] # 1 \/ o \in missed']_vars

\* A transaction that a handler runs ends: none waits for ever for the locks
\* of another, in whatever order lists name products, and of those that
\* change rows none is left open (as those are that find no sell detail).
TransactionsEnd == \A w \in Sessions : Runs(w) ~> tx[w].op = "none"

\* Where main could start the consumer, a deducted order whose message was
\* published is returned in the end, in spite of crashes, lock waits and
\* duplicate deliveries, unless one of the unseen errors takes the message
\* away or transactions are named deadlock victims for ever.
ReturnedInTheEnd ==
  <>[][\A w \in Sessions : ~LockWaitError(w)]_vars =>
    \A o \in Orders :
      consuming /\ o \in inbox /\ status[o] = 1
        ~> status[o] = 2 \/ o \in missed
=============================================================================
