-------------------------- MODULE InventoryProofs --------------------------
(***************************************************************************)
(* Proofs about Inventory for any number of products, orders and sessions, *)
(* any requests and any bounds.  IInv is inductive: the lemmas say that    *)
(* one kind of step each keeps it, Step puts them together.                *)
(***************************************************************************)
EXTENDS Inventory, FiniteSetTheorems, NaturalsInduction, TLAPS

LEMMA IdleType == Idle \in Transactions /\ Idle.op = "none"
BY DEF Idle, Transactions, Ops, NoItems

\* The types of the order_reback messages and of what became of them.
QueueType ==
  inbox \in SUBSET Orders /\ missed \in SUBSET Orders /\ consuming \in BOOLEAN

LEMMA InitInv == Init => IInv
<1> SUFFICES ASSUME Init PROVE IInv
  OBVIOUS
<1>1. stocks \in [Goods -> Int] /\ NeverNegative
  <2>1. Levels \cup {0} \subseteq Nat
    BY InventoryAssumption DEF InventoryAssumption
  <2>2. stocks \in [Goods -> Nat]
    BY <2>1 DEF Init
  <2> QED BY <2>2 DEF NeverNegative
<1>2. \A w \in Sessions : tx[w] = Idle
  BY DEF Init
<1>3. sold \in [Orders -> [Goods -> Nat]]
  BY DEF Init, NoItems
<1>4. tx \in [Sessions -> Transactions]
  BY IdleType DEF Init
<1>5. TypeOK
  BY <1>1, <1>2, <1>3, <1>4, IdleType DEF Init, TypeOK
<1>6. \A w \in Sessions : SessionOK(w)
  BY <1>2, IdleType DEF SessionOK
<1> QED BY <1>1, <1>5, <1>6 DEF IInv

\* A list is a part of itself, and its parts lose products one by one.
LEMMA PartsWhole ==
  ASSUME NEW q \in [Goods -> Nat] PROVE q \in PartsOf(q)
<1>1. q = [g \in Goods |-> IF g \in Goods THEN q[g] ELSE 0]
  OBVIOUS
<1>2. QED
  BY <1>1 DEF PartsOf

LEMMA PartsLess ==
  ASSUME NEW q \in [Goods -> Nat], NEW p \in PartsOf(q), NEW g \in Goods
  PROVE  [p EXCEPT ![g] = 0] \in PartsOf(q)
<1>1. PICK some \in SUBSET Goods :
        p = [h \in Goods |-> IF h \in some THEN q[h] ELSE 0]
  BY DEF PartsOf
<1>2. [p EXCEPT ![g] = 0]
        = [h \in Goods |-> IF h \in some \ {g} THEN q[h] ELSE 0]
  BY <1>1
<1>3. some \ {g} \in SUBSET Goods
  OBVIOUS
<1>4. QED
  BY <1>2, <1>3 DEF PartsOf

\* A statement of the loop: one more row is locked by w, one product done.
LEMMA LockRowInv ==
  ASSUME IInv, NEW w \in Sessions, NEW g \in Goods,
         tx[w].op \in {"sell", "reback", "autoreback"},
         RowFree(w, g), g \in tx[w].todo, LockRow(w, g),
         tx[w].op = "sell" => stocks[g] - tx[w].items[g] > 0
  PROVE  IInv'
<1> USE DEF LockRow
<1>1. /\ tx'[w].op = tx[w].op /\ tx'[w].sn = tx[w].sn
      /\ tx'[w].items = tx[w].items
      /\ tx'[w].todo = tx[w].todo \ {g}
      /\ tx' \in [Sessions -> Transactions]
      /\ \A v \in Sessions \ {w} : tx'[v] = tx[v]
  BY DEF IInv, TypeOK, Transactions
<1>2. TypeOK'
  BY <1>1 DEF IInv, TypeOK, tables, QueueType, queue
<1>3. NeverNegative'
  BY DEF IInv, NeverNegative, tables
<1>4. rowLock'[g] = w /\ \A h \in Goods \ {g} : rowLock'[h] = rowLock[h]
  BY DEF IInv, TypeOK
<1>5. ASSUME NEW v \in Sessions PROVE SessionOK(v)'
  <2>1. CASE v # w
    <3>1. \A h \in Goods : rowLock[h] = v => rowLock'[h] = v
      BY <2>1, <1>4, InventoryAssumption DEF RowFree, InventoryAssumption
    <3> QED BY <2>1, <1>1, <3>1 DEF IInv, SessionOK, Done, tables
  <2>2. CASE v = w
    <3>1. \A h \in Done(w)' : h = g \/ h \in Done(w)
      BY <1>1 DEF Done
    <3>2. \A h \in Done(w)' : h \in Goods
      BY DEF Done
    <3> QED BY <2>2, <1>1, <1>4, <3>1, <3>2 DEF IInv, SessionOK, tables
  <2> QED BY <2>1, <2>2
<1> QED BY <1>2, <1>3, <1>5 DEF IInv

\* A Save of Reback that fails: the row is locked, the product passed over.
LEMMA SaveFailInv ==
  ASSUME IInv, NEW w \in Sessions, NEW g \in Goods, RebackSaveFail(w, g)
  PROVE  IInv'
<1> USE DEF RebackSaveFail
<1>1. /\ tx'[w].op = "reback" /\ tx[w].op = "reback" /\ tx'[w].sn = tx[w].sn
      /\ tx'[w].items = [tx[w].items EXCEPT ![g] = 0]
      /\ tx'[w].todo = tx[w].todo \ {g}
      /\ tx' \in [Sessions -> Transactions]
      /\ \A v \in Sessions \ {w} : tx'[v] = tx[v]
  BY DEF IInv, TypeOK, Transactions
<1>2. TypeOK'
  <2>1. faults' \in Nat /\ rowLock' \in [Goods -> Sessions \cup {None}]
    BY DEF IInv, TypeOK
  <2>2. QED
    BY <1>1, <2>1 DEF IInv, TypeOK, tables, queue
<1>3. NeverNegative'
  BY DEF IInv, NeverNegative, tables
<1>4. rowLock'[g] = w /\ \A h \in Goods \ {g} : rowLock'[h] = rowLock[h]
  BY DEF IInv, TypeOK
<1>5. ASSUME NEW v \in Sessions PROVE SessionOK(v)'
  <2>1. CASE v # w
    <3>1. \A h \in Goods : rowLock[h] = v => rowLock'[h] = v
      BY <2>1, <1>4, InventoryAssumption DEF RowFree, InventoryAssumption
    <3> QED BY <2>1, <1>1, <3>1 DEF IInv, SessionOK, Done, tables
  <2>2. CASE v = w
    <3>1. tx[w].items \in [Goods -> Nat]
      BY DEF IInv, TypeOK, Transactions
    <3>2. \A h \in Done(w)' : h \in Done(w) /\ h \in Goods /\ h # g
      BY <1>1, <3>1 DEF Done
    <3>3. \A h \in Done(w)' : rowLock'[h] = w
      BY <1>1, <1>4, <3>2 DEF IInv, SessionOK
    <3>4. PICK q \in Requests : tx[w].items \in PartsOf(q)
      BY <1>1 DEF IInv, SessionOK
    <3>5. q \in [Goods -> Nat]
      BY InventoryAssumption DEF InventoryAssumption
    <3>6. tx'[w].items \in PartsOf(q)
      BY <1>1, <3>4, <3>5, PartsLess
    <3>7. \E r \in Requests : tx'[w].items \in PartsOf(r)
      BY <3>6
    <3>8. (\E r \in Requests : tx[w].items \in PartsOf(r))'
      BY <3>7 DEF PartsOf
    <3> QED BY <2>2, <1>1, <3>3, <3>8 DEF SessionOK
  <2> QED BY <2>1, <2>2
<1> QED BY <1>2, <1>3, <1>5 DEF IInv

\* A transaction left open by AutoReback: it has done nothing and never will.
LEMMA LeaveInv ==
  ASSUME IInv, NEW w \in Sessions, Leave(w), QueueType', faults' \in Nat
  PROVE  IInv'
<1> USE DEF Leave, locks
<1>1. /\ tx'[w].op = "left" /\ tx'[w].sn = tx[w].sn
      /\ tx' \in [Sessions -> Transactions]
      /\ \A v \in Sessions \ {w} : tx'[v] = tx[v]
  BY DEF IInv, TypeOK, Transactions, Ops
<1>2. TypeOK'
  BY <1>1 DEF IInv, TypeOK, tables, QueueType
<1>3. NeverNegative'
  BY DEF IInv, NeverNegative, tables
<1>4. ASSUME NEW v \in Sessions PROVE SessionOK(v)'
  <2>1. CASE v # w
    BY <2>1, <1>1 DEF IInv, SessionOK, Done, tables
  <2>2. CASE v = w
    BY <2>2, <1>1 DEF SessionOK
  <2> QED BY <2>1, <2>2
<1> QED BY <1>2, <1>3, <1>4 DEF IInv

\* The end of a transaction that leaves the tables alone.
LEMMA ReleaseInv ==
  ASSUME IInv, NEW w \in Sessions, Release(w), UNCHANGED tables,
         QueueType', calls' \in Nat, faults' \in Nat
  PROVE  IInv'
<1> USE DEF Release
<1>1. /\ tx'[w] = Idle
      /\ \A v \in Sessions \ {w} : tx'[v] = tx[v]
      /\ tx' \in [Sessions -> Transactions]
  BY IdleType DEF IInv, TypeOK
<1>2. TypeOK'
  BY <1>1, IdleType DEF IInv, TypeOK, tables, QueueType, queue
<1>3. NeverNegative'
  BY DEF IInv, NeverNegative, tables
<1>4. ASSUME NEW v \in Sessions PROVE SessionOK(v)'
  <2>1. CASE v # w
    <3>1. \A h \in Goods : rowLock[h] = v => rowLock'[h] = v
      BY <2>1
    <3>2. \A o \in Orders : detailLock[o] = v => detailLock'[o] = v
      BY <2>1
    <3> QED BY <2>1, <1>1, <3>1, <3>2 DEF IInv, TypeOK, SessionOK, Done, tables
  <2>2. CASE v = w
    BY <2>2, <1>1, IdleType DEF SessionOK
  <2> QED BY <2>1, <2>2
<1> QED BY <1>2, <1>3, <1>4 DEF IInv

\* A handler begins its transaction: nothing locked, nothing done.
LEMMA BeginInv ==
  ASSUME IInv, NEW w \in Sessions, NEW op \in {"sell", "reback", "autoreback"},
         NEW o \in Orders \cup {None}, NEW q \in [Goods -> Nat],
         Begin(w, op, o, q), calls' \in Nat,
         op # "reback" => o \in Orders,
         op # "autoreback" => q \in Requests,
         op = "autoreback" => status[o] = 1 /\ q = sold[o]
  PROVE  IInv'
<1> USE DEF Begin, locks
<1>1. /\ tx'[w] = [op |-> op, sn |-> o, items |-> q, todo |-> Asked(q)]
      /\ \A v \in Sessions \ {w} : tx'[v] = tx[v]
      /\ tx' \in [Sessions -> Transactions]
  BY DEF IInv, TypeOK, Transactions, Ops, Asked
<1>2. TypeOK'
  BY <1>1 DEF IInv, TypeOK, tables, QueueType, queue
<1>3. NeverNegative'
  BY DEF IInv, NeverNegative, tables
<1>4. ASSUME NEW v \in Sessions PROVE SessionOK(v)'
  <2>1. CASE v # w
    BY <2>1, <1>1 DEF IInv, SessionOK, Done, tables
  <2>2. CASE v = w
    <3>1. Done(w)' = {}
      BY <1>1 DEF Done, Asked
    <3>2. op = "reback" => \E r \in Requests : q \in PartsOf(r)
      BY PartsWhole
    <3> QED BY <2>2, <1>1, <3>1, <3>2 DEF SessionOK, tables, PartsOf
  <2> QED BY <2>1, <2>2
<1> QED BY <1>2, <1>3, <1>4 DEF IInv

\* The statement on the sell detail: INSERT of a sale, UPDATE of a return.
LEMMA LockDetailInv ==
  ASSUME IInv, NEW w \in Sessions, NEW op \in {"created", "marked"},
         tx[w].todo = {}, DetailFree(w), LockDetail(w, op),
         op = "created" => tx[w].op = "sell" /\ status[tx[w].sn] = 0,
         op = "marked" => tx[w].op = "autoreback" /\ status[tx[w].sn] # 2
  PROVE  IInv'
<1> USE DEF LockDetail
<1>1. /\ tx'[w].op = op /\ tx'[w].sn = tx[w].sn
      /\ tx'[w].items = tx[w].items /\ tx'[w].todo = tx[w].todo
      /\ tx[w].sn \in Orders
      /\ tx' \in [Sessions -> Transactions]
      /\ \A v \in Sessions \ {w} : tx'[v] = tx[v]
  BY DEF IInv, TypeOK, Transactions, Ops
<1>2. TypeOK'
  BY <1>1 DEF IInv, TypeOK, tables, QueueType, queue
<1>3. NeverNegative'
  BY DEF IInv, NeverNegative, tables
<1>4. /\ detailLock'[tx[w].sn] = w
      /\ \A v \in Sessions \ {w}, o \in Orders :
           detailLock[o] = v => detailLock'[o] = v
  BY <1>1, InventoryAssumption
     DEF IInv, TypeOK, DetailFree, InventoryAssumption
<1>5. ASSUME NEW v \in Sessions PROVE SessionOK(v)'
  <2>1. CASE v # w
    BY <2>1, <1>1, <1>4 DEF IInv, TypeOK, SessionOK, Done, tables
  <2>2. CASE v = w
    <3>1. Done(w)' = Done(w)
      BY <1>1 DEF Done
    <3> QED BY <2>2, <1>1, <1>4, <3>1 DEF IInv, SessionOK, tables
  <2> QED BY <2>1, <2>2
<1> QED BY <1>2, <1>3, <1>5 DEF IInv

\* A COMMIT that changes stock: it moves only rows the session has locked,
\* so the checks other sessions have made stay true.
LEMMA CommitInv ==
  ASSUME IInv, NEW w \in Sessions, Release(w),
         NEW s \in [Goods -> Int], stocks' = s,
         \A g \in Goods : s[g] >= 0 /\ (s[g] # stocks[g] => rowLock[g] = w),
         status' \in [Orders -> 0..2], sold' \in [Orders -> [Goods -> Nat]],
         \A o \in Orders :
           \/ status'[o] = status[o] /\ sold'[o] = sold[o]
           \/ status[o] = 0 /\ status'[o] = 1 /\ detailLock[o] = w
           \/ /\ status[o] = 1 /\ status'[o] = 2 /\ sold'[o] = sold[o]
              /\ detailLock[o] = w,
         QueueType', UNCHANGED <<listed, calls, faults>>
  PROVE  IInv'
<1> USE DEF Release
<1>1. /\ tx'[w] = Idle
      /\ \A v \in Sessions \ {w} : tx'[v] = tx[v]
      /\ tx' \in [Sessions -> Transactions]
  BY IdleType DEF IInv, TypeOK
<1>2. TypeOK'
  BY <1>1, IdleType DEF IInv, TypeOK, QueueType
<1>3. NeverNegative'
  BY DEF NeverNegative
<1>4. ASSUME NEW v \in Sessions PROVE SessionOK(v)'
  <2>1. CASE v # w
    <3>1. \A h \in Goods : rowLock[h] = v =>
            rowLock'[h] = v /\ stocks'[h] = stocks[h]
      BY <2>1
    <3>2. \A o \in Orders : detailLock[o] = v =>
            detailLock'[o] = v /\ status'[o] = status[o]
      BY <2>1
    <3>3. Done(v)' = Done(v) /\ Done(v) \subseteq Goods
      BY <2>1, <1>1 DEF Done
    <3>4. tx[v].op \in {"sell", "created", "autoreback", "marked"}
            => tx[v].sn \in Orders
      BY DEF IInv, TypeOK
    <3>5. SessionOK(v) /\ tx'[v] = tx[v]
      BY <2>1, <1>1 DEF IInv
    <3>6. \A g \in Done(v)' : g \in Done(v) /\ g \in Goods
      BY <3>3
    <3>7. tx[v].op \in {"autoreback", "marked"} =>
            /\ sold'[tx[v].sn] = sold[tx[v].sn]
            /\ status'[tx[v].sn] \in {1, 2}
      BY <3>4, <3>5 DEF SessionOK
    <3>8. tx[v].op \in {"sell", "created"} =>
            \A g \in Done(v)' : /\ rowLock'[g] = v
                                /\ stocks'[g] - tx[v].items[g] > 0
      BY <3>1, <3>5, <3>6 DEF SessionOK
    <3>9. tx[v].op \in {"reback", "autoreback", "marked"} =>
            \A g \in Done(v)' : rowLock'[g] = v
      BY <3>1, <3>5, <3>6 DEF SessionOK
    <3>10. tx[v].op \in {"created", "marked"} =>
             /\ detailLock'[tx[v].sn] = v
             /\ status'[tx[v].sn] = status[tx[v].sn]
      BY <3>2, <3>4, <3>5 DEF SessionOK
    <3> QED BY <3>5, <3>7, <3>8, <3>9, <3>10 DEF SessionOK
  <2>2. CASE v = w
    BY <2>2, <1>1, IdleType DEF SessionOK
  <2> QED BY <2>1, <2>2
<1> QED BY <1>2, <1>3, <1>4 DEF IInv

LEMMA SellCommitInv ==
  ASSUME IInv, NEW w \in Sessions, SellCommit(w) PROVE IInv'
<1> USE DEF SellCommit
<1> DEFINE s == [g \in Goods |-> stocks[g] - tx[w].items[g]]
<1>1. /\ tx[w].items \in [Goods -> Nat] /\ tx[w].sn \in Orders
      /\ stocks \in [Goods -> Int]
  BY DEF IInv, TypeOK, Transactions
<1>2. s \in [Goods -> Int]
  BY <1>1
<1>3. \A g \in Goods : s[g] >= 0 /\ (s[g] # stocks[g] => rowLock[g] = w)
  BY <1>1 DEF IInv, SessionOK, Done, NeverNegative
<1>4. status[tx[w].sn] = 0 /\ detailLock[tx[w].sn] = w
  BY DEF IInv, SessionOK
<1>5. status' \in [Orders -> 0..2] /\ sold' \in [Orders -> [Goods -> Nat]]
  BY <1>1 DEF IInv, TypeOK
<1>6. \A o \in Orders : \/ status'[o] = status[o] /\ sold'[o] = sold[o]
                        \/ status[o] = 0 /\ status'[o] = 1 /\ detailLock[o] = w
  BY <1>1, <1>4 DEF IInv, TypeOK
<1>7. QueueType' /\ stocks' = s
  BY DEF IInv, TypeOK, QueueType, queue
<1> HIDE DEF s
<1> QED BY <1>2, <1>3, <1>5, <1>6, <1>7, CommitInv

LEMMA AutoRebackCommitInv ==
  ASSUME IInv, NEW w \in Sessions, AutoRebackCommit(w) PROVE IInv'
<1> USE DEF AutoRebackCommit
<1> DEFINE s == [g \in Goods |-> stocks[g] + tx[w].items[g]]
<1>1. /\ tx[w].items \in [Goods -> Nat] /\ tx[w].sn \in Orders
      /\ stocks \in [Goods -> Int]
  BY DEF IInv, TypeOK, Transactions
<1>2. s \in [Goods -> Int]
  BY <1>1
<1>3. \A g \in Goods : s[g] >= 0 /\ (s[g] # stocks[g] => rowLock[g] = w)
  BY <1>1 DEF IInv, SessionOK, Done, NeverNegative
<1>4. status[tx[w].sn] = 1 /\ detailLock[tx[w].sn] = w
  BY DEF IInv, SessionOK
<1>5. status' \in [Orders -> 0..2] /\ sold' \in [Orders -> [Goods -> Nat]]
  BY <1>1 DEF IInv, TypeOK
<1>6. \A o \in Orders : \/ status'[o] = status[o] /\ sold'[o] = sold[o]
                        \/ /\ status[o] = 1 /\ status'[o] = 2
                           /\ sold'[o] = sold[o] /\ detailLock[o] = w
  BY <1>1, <1>4 DEF IInv, TypeOK
<1>7. QueueType' /\ stocks' = s
  BY DEF IInv, TypeOK, QueueType, Acknowledge
<1> HIDE DEF s
<1> QED BY <1>2, <1>3, <1>5, <1>6, <1>7, CommitInv

LEMMA RebackCommitInv ==
  ASSUME IInv, NEW w \in Sessions, RebackCommit(w) PROVE IInv'
<1> USE DEF RebackCommit
<1> DEFINE s == [g \in Goods |-> stocks[g] + tx[w].items[g]]
<1>1. tx[w].items \in [Goods -> Nat] /\ stocks \in [Goods -> Int]
  BY DEF IInv, TypeOK, Transactions
<1>2. s \in [Goods -> Int]
  BY <1>1
<1>3. \A g \in Goods : s[g] >= 0 /\ (s[g] # stocks[g] => rowLock[g] = w)
  BY <1>1 DEF IInv, SessionOK, Done, NeverNegative
<1>4. status' \in [Orders -> 0..2] /\ sold' \in [Orders -> [Goods -> Nat]]
  BY DEF IInv, TypeOK
<1>5. QueueType' /\ stocks' = s
  BY DEF IInv, TypeOK, QueueType, queue
<1> HIDE DEF s
<1> QED BY <1>2, <1>3, <1>4, <1>5, CommitInv

LEMMA SetInvInv ==
  ASSUME IInv, NEW g \in Goods, NEW n \in Levels, SetInv(g, n) PROVE IInv'
<1> USE DEF SetInv, Call, locks, queue
<1>1. n \in Nat
  BY InventoryAssumption DEF InventoryAssumption
<1>2. TypeOK'
  BY <1>1 DEF IInv, TypeOK
<1>3. NeverNegative'
  BY <1>1 DEF IInv, TypeOK, NeverNegative
<1>4. ASSUME NEW v \in Sessions PROVE SessionOK(v)'
  <2>1. Done(v)' = Done(v)
    BY DEF Done
  <2>2. \A h \in Done(v) : rowLock[h] = v => stocks'[h] = stocks[h]
    BY InventoryAssumption DEF IInv, TypeOK, Done, InventoryAssumption
  <2> QED BY <2>1, <2>2 DEF IInv, SessionOK
<1> QED BY <1>2, <1>3, <1>4 DEF IInv

\* A step that touches no table, transaction or lock.
LEMMA QueueInv ==
  ASSUME IInv, UNCHANGED <<tables, tx, locks>>, QueueType',
         calls' \in Nat, faults' \in Nat
  PROVE  IInv'
<1>1. TypeOK' /\ NeverNegative'
  BY DEF IInv, TypeOK, NeverNegative, tables, locks, QueueType
<1>2. ASSUME NEW v \in Sessions PROVE SessionOK(v)'
  BY DEF IInv, SessionOK, Done, tables, locks
<1> QED BY <1>1, <1>2 DEF IInv

LEMMA Step == IInv /\ [Next]_vars => IInv'
<1> SUFFICES ASSUME IInv, [Next]_vars PROVE IInv'
  OBVIOUS
<1>1. QueueType /\ calls \in Nat /\ faults \in Nat
  BY DEF IInv, TypeOK, QueueType
<1>2. ASSUME NEW w \in Sessions, RollbackRetry(w) PROVE QueueType'
  <2>1. Message(w) \in SUBSET Orders
    BY DEF IInv, TypeOK, Message
  <2>2. QED
    BY <1>1, <1>2, <2>1 DEF RollbackRetry, QueueType
<1>3. CASE UNCHANGED vars
  BY <1>1, <1>3, QueueInv DEF vars, queue, QueueType
<1>4. CASE Client
  <2>1. ASSUME NEW g \in Goods, NEW n \in Levels, SetInv(g, n) PROVE IInv'
    BY <2>1, SetInvInv
  <2>2. ASSUME NEW w \in Sessions, NEW o \in Orders, NEW q \in Requests,
               SellBegin(w, o, q)
        PROVE  IInv'
    <3>1. q \in [Goods -> Nat]
      BY InventoryAssumption DEF InventoryAssumption
    <3> QED BY <1>1, <2>2, <3>1, BeginInv DEF SellBegin, Call
  <2>3. ASSUME NEW w \in Sessions, NEW q \in Requests, RebackBegin(w, q)
        PROVE  IInv'
    <3>1. q \in [Goods -> Nat]
      BY InventoryAssumption DEF InventoryAssumption
    <3> QED BY <1>1, <2>3, <3>1, BeginInv DEF RebackBegin, Call
  <2>4. ASSUME NEW o \in Orders, Publish(o) PROVE IInv'
    BY <1>1, <2>4, QueueInv DEF Publish, Call, QueueType
  <2> QED BY <1>4, <2>1, <2>2, <2>3, <2>4 DEF Client
<1>5. ASSUME NEW o \in Orders, Deliver(o) PROVE IInv'
  <2>1. ASSUME NEW w \in Sessions, AutoRebackSelect(w, o) PROVE IInv'
    <3>1. sold[o] \in [Goods -> Nat]
      BY DEF IInv, TypeOK
    <3> QED BY <1>1, <2>1, <3>1, BeginInv DEF AutoRebackSelect
  <2>2. ASSUME NEW w \in Sessions, AutoRebackNothing(w, o) PROVE IInv'
    BY <1>1, <2>2, LeaveInv DEF AutoRebackNothing, Acknowledge, QueueType
  <2>3. ASSUME NEW w \in Sessions, AutoRebackUnread(w, o) PROVE IInv'
    BY <1>1, <2>3, LeaveInv DEF AutoRebackUnread, AcknowledgeUnseen, QueueType
  <2>4. CASE AutoRebackNoConn(o)
    BY <1>1, <2>4, QueueInv DEF AutoRebackNoConn, AcknowledgeUnseen, QueueType
  <2>5. CASE AutoRebackBeginFail(o)
    BY <1>1, <2>5, QueueInv DEF AutoRebackBeginFail, AcknowledgeUnseen, QueueType
  <2> QED BY <1>5, <2>1, <2>2, <2>3, <2>4, <2>5 DEF Deliver
<1>6. ASSUME NEW w \in Sessions, Progress(w) PROVE IInv'
  <2>1. ASSUME NEW g \in Goods,
               \/ SellUpdate(w, g) \/ RebackUpdate(w, g)
               \/ AutoRebackUpdate(w, g)
        PROVE  IInv'
    BY <2>1, LockRowInv DEF SellUpdate, RebackUpdate, AutoRebackUpdate, Turn
  <2>2. ASSUME NEW g \in Goods, SellRefuse(w, g) \/ RebackMissing(w, g)
        PROVE  IInv'
    BY <1>1, <2>2, ReleaseInv DEF SellRefuse, RebackMissing, Rollback, queue, QueueType
  <2>3. CASE SellCreate(w)
    BY <2>3, LockDetailInv DEF SellCreate
  <2>4. CASE SellDuplicate(w)
    BY <1>1, <2>4, ReleaseInv DEF SellDuplicate, Rollback, queue, QueueType
  <2>5. CASE AutoRebackMark(w)
    BY <2>5, LockDetailInv DEF AutoRebackMark
  <2>6. CASE AutoRebackAlready(w)
    BY <1>1, <1>2, <2>6, ReleaseInv DEF AutoRebackAlready, RollbackRetry
  <2>7. CASE LockWaitError(w)
    BY <1>1, <1>2, <2>7, ReleaseInv DEF LockWaitError, RollbackRetry
  <2> QED BY <1>6, <2>1, <2>2, <2>3, <2>4, <2>5, <2>6, <2>7, SellCommitInv,
             RebackCommitInv, AutoRebackCommitInv DEF Progress
<1>7. ASSUME NEW w \in Sessions, AutoRebackCommitFail(w) PROVE IInv'
  <2>1. tx[w].sn \in Orders
    BY <1>7 DEF AutoRebackCommitFail, IInv, TypeOK
  <2>2. QueueType'
    BY <1>1, <1>7, <2>1 DEF AutoRebackCommitFail, AcknowledgeUnseen, QueueType
  <2>3. QED
    BY <1>1, <1>7, <2>2, ReleaseInv DEF AutoRebackCommitFail
<1>8. ASSUME NEW w \in Sessions, Abort(w) PROVE IInv'
  BY <1>1, <1>2, <1>8, ReleaseInv DEF Abort, RollbackRetry
<1>9. ASSUME NEW w \in Sessions, NEW g \in Goods, RebackSaveFail(w, g)
      PROVE  IInv'
  BY <1>9, SaveFailInv
<1> QED BY <1>3, <1>4, <1>5, <1>6, <1>7, <1>8, <1>9 DEF Next, Fault

\* The inductive invariant holds in every reachable state.
THEOREM Invariant == Spec => []IInv
BY InitInv, Step, PTL DEF Spec

\* The tables, transactions and locks keep their types.
THEOREM TypeCorrect == Spec => []TypeOK
<1>1. IInv => TypeOK
  BY DEF IInv
<1> QED BY <1>1, Invariant, PTL

\* No interleaving of sales, returns and SetInv takes a stock below zero.
THEOREM StockNeverNegative == Spec => []NeverNegative
<1>1. IInv => NeverNegative
  BY DEF IInv
<1> QED BY <1>1, Invariant, PTL

\* What Sell checked in its WHERE clause is still true when it commits.
THEOREM CheckHolds == Spec => []CheckedStaysTrue
<1>1. IInv => CheckedStaysTrue
  BY DEF IInv, SessionOK, CheckedStaysTrue
<1> QED BY <1>1, Invariant, PTL

\* What AutoReback read before it had a lock is still true when it commits.
THEOREM ReadHolds == Spec => []ReadStaysTrue
<1>1. IInv => ReadStaysTrue
  BY DEF IInv, SessionOK, ReadStaysTrue
<1> QED BY <1>1, Invariant, PTL

\* Every step of the handlers is a step of the ledger or leaves it alone.
LEMMA StepImplements ==
  IInv /\ [Next]_vars => [Ledger!LedgerNext]_(Ledger!ledger)
<1> SUFFICES ASSUME IInv, [Next]_vars
             PROVE  Ledger!LedgerNext \/ UNCHANGED <<stocks, status, sold>>
  BY DEF Ledger!ledger
<1> USE DEF tables
<1>1. CASE UNCHANGED vars
  BY <1>1 DEF vars
<1>2. CASE Client
  <2>1. ASSUME NEW g \in Goods, NEW n \in Levels, SetInv(g, n)
        PROVE  Ledger!LedgerSetInv(g, n)
    BY <2>1 DEF SetInv, Ledger!LedgerSetInv
  <2> QED BY <1>2, <2>1
          DEF Client, SellBegin, RebackBegin, Begin, Publish, Ledger!LedgerNext
<1>3. ASSUME NEW o \in Orders, Deliver(o)
      PROVE  UNCHANGED <<stocks, status, sold>>
  BY <1>3 DEF Deliver, AutoRebackSelect, Begin, AutoRebackNothing, Leave,
              AutoRebackUnread, AutoRebackNoConn, AutoRebackBeginFail
<1>4. ASSUME NEW w \in Sessions, Progress(w)
      PROVE  Ledger!LedgerNext \/ UNCHANGED <<stocks, status, sold>>
  <2>1. CASE SellCommit(w)
    <3>1. /\ tx[w].op = "created" /\ tx[w].sn \in Orders
          /\ tx[w].items \in Requests /\ tx[w].items \in [Goods -> Nat]
          /\ status[tx[w].sn] = 0
      BY <2>1 DEF SellCommit, IInv, TypeOK, SessionOK, Transactions
    <3>2. \A g \in Goods :
            tx[w].items[g] > 0 => stocks[g] - tx[w].items[g] > 0
      BY <3>1 DEF IInv, SessionOK, Done
    <3>3. Ledger!LedgerSell(tx[w].sn, tx[w].items)
      BY <2>1, <3>1, <3>2
         DEF SellCommit, Ledger!LedgerSell, Ledger!Sufficient, Ledger!Minus
    <3> QED BY <3>1, <3>3 DEF Ledger!LedgerNext
  <2>2. CASE RebackCommit(w)
    <3>1. PICK q \in Requests : tx[w].items \in PartsOf(q)
      BY <2>2 DEF RebackCommit, IInv, SessionOK
    <3>2. PICK some \in SUBSET Goods :
            tx[w].items = [g \in Goods |-> IF g \in some THEN q[g] ELSE 0]
      BY <3>1 DEF PartsOf
    <3>3. Ledger!LedgerReback(q, some)
      BY <2>2, <3>2 DEF RebackCommit, Ledger!LedgerReback, Ledger!Plus
    <3> QED BY <3>1, <3>3 DEF Ledger!LedgerNext
  <2>3. CASE AutoRebackCommit(w)
    <3>1. /\ tx[w].sn \in Orders /\ tx[w].items = sold[tx[w].sn]
          /\ status[tx[w].sn] = 1
      BY <2>3 DEF AutoRebackCommit, IInv, TypeOK, SessionOK
    <3>2. Ledger!LedgerReturn(tx[w].sn)
      BY <2>3, <3>1 DEF AutoRebackCommit, Ledger!LedgerReturn, Ledger!Plus
    <3> QED BY <3>1, <3>2 DEF Ledger!LedgerNext
  <2>4. CASE ~(SellCommit(w) \/ RebackCommit(w) \/ AutoRebackCommit(w))
    BY <1>4, <2>4
       DEF Progress, SellUpdate, RebackUpdate, AutoRebackUpdate, LockRow,
           SellRefuse, RebackMissing, SellDuplicate, Rollback, SellCreate,
           AutoRebackMark, LockDetail, AutoRebackAlready, LockWaitError,
           RollbackRetry
  <2> QED BY <2>1, <2>2, <2>3, <2>4
<1>5. CASE Fault
  BY <1>5 DEF Fault, AutoRebackCommitFail, Abort, RollbackRetry, RebackSaveFail
<1> QED BY <1>1, <1>2, <1>3, <1>4, <1>5 DEF Next

\* The statement-level handlers implement the atomic ledger: a sale is all or
\* nothing, one per order number, and an order is returned at most once.
THEOREM Refinement == Spec => ImplementsLedger
<1>1. Init => Ledger!LedgerInit
  BY DEF Init, Ledger!LedgerInit, NoItems, Ledger!NoItems
<1> QED BY <1>1, Invariant, StepImplements, PTL
        DEF Spec, ImplementsLedger, Ledger!LedgerSpec

-----------------------------------------------------------------------------
\* Sums over the orders

LEMMA LeastNumber ==
  ASSUME NEW S \in SUBSET Nat, S # {}
  PROVE  \E i \in S : \A j \in S : i <= j
<1> DEFINE R == OpToRel(<, Nat)
<1>1. IsWellFoundedOn(R, Nat)
  BY NatLessThanWellFounded
<1>2. \A i, j \in Nat : i < j => <<i, j>> \in R
  BY DEF OpToRel
<1> HIDE DEF R
<1>3. PICK i \in S : \A j \in S : <<j, i>> \notin R
  BY <1>1, WFMin
<1>4. \A j \in S : i <= j
  <2> SUFFICES ASSUME NEW j \in S PROVE i <= j
    OBVIOUS
  <2>1. i \in Nat /\ j \in Nat /\ ~(j < i)
    BY <1>2, <1>3
  <2>2. QED
    BY <2>1
<1>5. QED
  BY <1>4

\* n pieces that belong to o.
LEMMA OwnedPieces ==
  ASSUME NEW n \in Nat, NEW o
  PROVE  IsFiniteSet({o} \X (1..n)) /\ Cardinality({o} \X (1..n)) = n
<1>1. IsFiniteSet({o}) /\ Cardinality({o}) = 1
  BY FS_Singleton
<1>2. IsFiniteSet(1..n) /\ Cardinality(1..n) = n
  <2>1. IsFiniteSet(1..n) /\ Cardinality(1..n) = IF 1 > n THEN 0 ELSE n - 1 + 1
    BY FS_Interval
  <2>2. QED
    BY <2>1
<1>3. /\ IsFiniteSet({o} \X (1..n))
      /\ Cardinality({o} \X (1..n)) = Cardinality({o}) * Cardinality(1..n)
  BY <1>1, <1>2, FS_Product
<1>4. QED
  BY <1>1, <1>2, <1>3

\* For every element x of S, as many pieces of its own as f[x] says.
Pieces(f, S) == UNION {{x} \X (1..f[x]) : x \in S}

\* A sum of numbers is the number of elements of a finite set.
LEMMA SumIsPieces ==
  ASSUME NEW S, IsFiniteSet(S), NEW f, \A x \in S : f[x] \in Nat
  PROVE  /\ IsFiniteSet(Pieces(f, S))
         /\ SumFunctionOnSet(f, S) = Cardinality(Pieces(f, S))
<1> DEFINE P(T) == Pieces(f, T)
           pick(T) == CHOOSE x \in T : TRUE
           G(h) == [T \in SUBSET S |->
                      IF T = {} THEN 0 ELSE f[pick(T)] + h[T \ {pick(T)}]]
           sum == CHOOSE h : h = G(h)
           Good(T) == IsFiniteSet(P(T)) /\ sum[T] = Cardinality(P(T))
           count == [T \in SUBSET S |-> Cardinality(P(T))]
<1>1. ASSUME NEW T \in SUBSET S, T # {}, NEW x \in T, IsFiniteSet(P(T \ {x}))
      PROVE  /\ IsFiniteSet(P(T))
             /\ Cardinality(P(T)) = f[x] + Cardinality(P(T \ {x}))
  <2> DEFINE own == {x} \X (1..f[x])
             rest == P(T \ {x})
  <2>1. P(T) = rest \cup own /\ rest \cap own = {}
    BY DEF Pieces
  <2>2. IsFiniteSet(own) /\ Cardinality(own) = f[x] /\ f[x] \in Nat
    <3>1. f[x] \in Nat
      OBVIOUS
    <3>2. QED
      BY <3>1, OwnedPieces, Zenon
  <2>3. IsFiniteSet(rest) /\ Cardinality(rest) \in Nat
    BY <1>1, FS_CardinalityType
  <2> HIDE DEF own, rest, P
  <2>4. /\ IsFiniteSet(rest \cup own)
        /\ Cardinality(rest \cup own)
             = Cardinality(rest) + Cardinality(own) - Cardinality(rest \cap own)
    BY <2>2, <2>3, FS_Union
  <2>5. Cardinality(rest \cap own) = 0
    BY <2>1, FS_EmptySet
  <2>6. /\ IsFiniteSet(P(T))
        /\ Cardinality(P(T)) = f[x] + Cardinality(rest)
    BY <2>1, <2>2, <2>3, <2>4, <2>5
  <2>7. QED
    BY <2>6 DEF rest
<1>2. P({}) = {} /\ IsFiniteSet(P({})) /\ Cardinality(P({})) = 0
  <2>1. P({}) = {}
    BY DEF Pieces
  <2>2. QED
    BY <2>1, FS_EmptySet
<1>3. \A T \in SUBSET S : IsFiniteSet(P(T))
  <2> HIDE DEF P
  <2> DEFINE Bad == {T \in SUBSET S : ~IsFiniteSet(P(T))}
             Sizes == {Cardinality(T) : T \in Bad}
  <2> SUFFICES ASSUME Bad # {} PROVE FALSE
    OBVIOUS
  <2>1. \A T \in Bad : IsFiniteSet(T) /\ Cardinality(T) \in Nat
    BY FS_Subset, FS_CardinalityType
  <2>2. Sizes \in SUBSET Nat /\ Sizes # {}
    BY <2>1
  <2>3. PICK k \in Sizes : \A j \in Sizes : k <= j
    BY <2>2, LeastNumber
  <2>4. PICK T \in Bad : k = Cardinality(T)
    BY <2>3
  <2>5. PICK x \in T : TRUE
    BY <1>2, <2>4
  <2>6. Cardinality(T \ {x}) = k - 1 /\ T \ {x} \in SUBSET S /\ k \in Nat
    BY <2>1, <2>4, <2>5, FS_RemoveElement
  <2>7. T \ {x} \notin Bad
    <3>1. ~(k <= Cardinality(T \ {x}))
      BY <2>6
    <3>2. QED
      BY <2>3, <3>1
  <2>8. QED
    BY <1>1, <2>4, <2>5, <2>6, <2>7
<1>4. ASSUME NEW T \in SUBSET S, T # {}
      PROVE  Cardinality(P(T)) = f[pick(T)] + Cardinality(P(T \ {pick(T)}))
  <2>1. pick(T) \in T /\ T \ {pick(T)} \in SUBSET S
    BY <1>4
  <2>2. QED
    BY <1>1, <1>3, <1>4, <2>1
<1>5. count = G(count)
  <2>1. ASSUME NEW T \in SUBSET S PROVE count[T] = G(count)[T]
    <3>1. CASE T = {}
      BY <1>2, <3>1
    <3>2. CASE T # {}
      <4>1. T \ {pick(T)} \in SUBSET S
        OBVIOUS
      <4>2. QED
        BY <1>4, <3>2, <4>1
    <3>3. QED
      BY <3>1, <3>2
  <2>2. QED
    BY <2>1
<1>6. sum = G(sum)
  BY <1>5
<1>7. SumFunctionOnSet(f, S) = sum[S]
  BY DEF SumFunctionOnSet, FoldFunctionOnSet, MapThenFoldSet
<1> HIDE DEF sum, count, P
<1>8. \A T \in SUBSET S : sum[T] = Cardinality(P(T))
  <2> DEFINE Bad == {T \in SUBSET S : sum[T] # Cardinality(P(T))}
             Sizes == {Cardinality(T) : T \in Bad}
  <2> SUFFICES ASSUME Bad # {} PROVE FALSE
    OBVIOUS
  <2>1. \A T \in Bad : IsFiniteSet(T) /\ Cardinality(T) \in Nat
    BY FS_Subset, FS_CardinalityType
  <2>2. Sizes \in SUBSET Nat /\ Sizes # {}
    BY <2>1
  <2>3. PICK k \in Sizes : \A j \in Sizes : k <= j
    BY <2>2, LeastNumber
  <2>4. PICK T \in Bad : k = Cardinality(T)
    BY <2>3
  <2>5. sum[T] = G(sum)[T]
    BY <1>6
  <2>6. T # {}
    BY <1>2, <2>4, <2>5
  <2>7. pick(T) \in T
    BY <2>6
  <2>8. sum[T] = f[pick(T)] + sum[T \ {pick(T)}]
    BY <2>5, <2>6
  <2> DEFINE U == T \ {pick(T)}
  <2>9. Cardinality(U) = k - 1 /\ U \in SUBSET S /\ k \in Nat
    BY <2>1, <2>4, <2>7, FS_RemoveElement
  <2>10. U \notin Bad
    <3>1. ~(k <= Cardinality(U))
      BY <2>9
    <3>2. QED
      BY <2>3, <3>1
  <2>11. sum[U] = Cardinality(P(U))
    BY <2>9, <2>10
  <2>12. QED
    BY <1>4, <2>4, <2>6, <2>8, <2>11
<1>9. QED
  BY <1>3, <1>7, <1>8 DEF P

\* Where one number changes, the sum changes by as much.
LEMMA SumChanges ==
  ASSUME NEW S, IsFiniteSet(S), NEW f, NEW h, NEW o \in S,
         \A x \in S : f[x] \in Nat /\ h[x] \in Nat,
         \A x \in S \ {o} : h[x] = f[x]
  PROVE  /\ SumFunctionOnSet(f, S) \in Nat /\ SumFunctionOnSet(h, S) \in Nat
         /\ SumFunctionOnSet(h, S) - SumFunctionOnSet(f, S) = h[o] - f[o]
<1> DEFINE R == Pieces(f, S \ {o})
           F == Pieces(f, S)
           H == Pieces(h, S)
           A == {o} \X (1..f[o])
           D == {o} \X (1..h[o])
<1>1. /\ F = R \cup A /\ R \cap A = {}
      /\ H = R \cup D /\ R \cap D = {}
  BY DEF Pieces
<1>2. f[o] \in Nat /\ h[o] \in Nat
  OBVIOUS
<1>3. /\ IsFiniteSet(F) /\ SumFunctionOnSet(f, S) = Cardinality(F)
      /\ IsFiniteSet(H) /\ SumFunctionOnSet(h, S) = Cardinality(H)
  BY SumIsPieces
<1>4. IsFiniteSet(A) /\ Cardinality(A) = f[o] /\ IsFiniteSet(D) /\ Cardinality(D) = h[o]
  BY <1>2, OwnedPieces, Zenon
<1> HIDE DEF R, F, H, A, D
<1>5. IsFiniteSet(R)
  BY <1>1, <1>3, FS_Subset
<1>6. /\ Cardinality(R \cup A) = Cardinality(R) + Cardinality(A) - Cardinality(R \cap A)
      /\ Cardinality(R \cup D) = Cardinality(R) + Cardinality(D) - Cardinality(R \cap D)
  BY <1>4, <1>5, FS_Union
<1>7. Cardinality(R \cap A) = 0 /\ Cardinality(R \cap D) = 0
  BY <1>1, FS_EmptySet
<1>8. Cardinality(R) \in Nat /\ Cardinality(F) \in Nat /\ Cardinality(H) \in Nat
  BY <1>3, <1>5, FS_CardinalityType
<1>9. QED
  BY <1>1, <1>2, <1>3, <1>4, <1>6, <1>7, <1>8

\* A step that sets the status of the one order o, and whose products move
\* between the shelf and what o holds, conserves every product.
LEMMA MoveConserves ==
  ASSUME IsFiniteSet(Orders), TypeOK, TypeOK', NEW o \in Orders, NEW g \in Goods,
         \A x \in Orders \ {o} : HeldBy(g)'[x] = HeldBy(g)[x],
         stocks'[g] + HeldBy(g)'[o] = stocks[g] + HeldBy(g)[o]
  PROVE  stocks'[g] + Held(g)' = stocks[g] + Held(g)
<1> DEFINE f == HeldBy(g)
           h == HeldBy(g)'
<1>1. \A x \in Orders : f[x] \in Nat /\ h[x] \in Nat
  BY DEF TypeOK, HeldBy
<1>2. stocks[g] \in Int /\ stocks'[g] \in Int
  BY DEF TypeOK
<1>3. f[o] \in Nat /\ h[o] \in Nat
  BY <1>1
<1>4. stocks'[g] + h[o] = stocks[g] + f[o] /\ \A x \in Orders \ {o} : h[x] = f[x]
  OBVIOUS
<1>5. Held(g) = SumFunctionOnSet(f, Orders) /\ Held(g)' = SumFunctionOnSet(h, Orders)
  BY DEF Held
<1> HIDE DEF f, h
<1>6. /\ SumFunctionOnSet(f, Orders) \in Nat /\ SumFunctionOnSet(h, Orders) \in Nat
      /\ SumFunctionOnSet(h, Orders) - SumFunctionOnSet(f, Orders) = h[o] - f[o]
  BY <1>1, <1>4, SumChanges
<1>7. QED
  BY <1>2, <1>3, <1>4, <1>5, <1>6

\* Only the two commits change a status.
LEMMA StatusSteps ==
  ASSUME [Next]_vars, status' # status
  PROVE  \E w \in Sessions : SellCommit(w) \/ AutoRebackCommit(w)
<1> USE DEF tables
<1>1. ~UNCHANGED vars
  BY DEF vars
<1>2. ~Client
  BY DEF Client, SetInv, SellBegin, RebackBegin, Begin, Publish
<1>3. ASSUME NEW o \in Orders PROVE ~Deliver(o)
  BY DEF Deliver, AutoRebackSelect, Begin, AutoRebackNothing, Leave,
         AutoRebackUnread, AutoRebackNoConn, AutoRebackBeginFail
<1>4. ~Fault
  BY DEF Fault, AutoRebackCommitFail, Abort, RollbackRetry, RebackSaveFail
<1>5. PICK w \in Sessions : Progress(w)
  BY <1>1, <1>2, <1>3, <1>4 DEF Next
<1>6. SellCommit(w) \/ AutoRebackCommit(w)
  BY <1>5
     DEF Progress, SellUpdate, RebackUpdate, AutoRebackUpdate, LockRow,
         SellRefuse, RebackMissing, SellDuplicate, Rollback, SellCreate,
         AutoRebackMark, LockDetail, AutoRebackAlready, LockWaitError,
         RollbackRetry, RebackCommit
<1>7. QED
  BY <1>6

LEMMA StepConserves ==
  ASSUME IsFiniteSet(Orders), IInv, [Next]_vars, status' # status, NEW g \in Goods
  PROVE  stocks'[g] + Held(g)' = stocks[g] + Held(g)
<1>1. TypeOK /\ TypeOK'
  BY Step DEF IInv
<1>2. PICK w \in Sessions : SellCommit(w) \/ AutoRebackCommit(w)
  BY StatusSteps
<1> DEFINE o == tx[w].sn
           n == tx[w].items[g]
<1>3. o \in Orders /\ n \in Nat /\ stocks[g] \in Int
  BY <1>1, <1>2 DEF TypeOK, Transactions, SellCommit, AutoRebackCommit
<1>4. CASE SellCommit(w)
  <2>1. /\ stocks'[g] = stocks[g] - n /\ status[o] = 0 /\ status'[o] = 1
        /\ sold'[o][g] = n
        /\ \A x \in Orders \ {o} : status'[x] = status[x] /\ sold'[x] = sold[x]
    BY <1>1, <1>3, <1>4 DEF SellCommit, IInv, SessionOK, TypeOK
  <2>2. HeldBy(g)[o] = 0 /\ HeldBy(g)'[o] = n
    BY <1>3, <2>1 DEF HeldBy
  <2>3. \A x \in Orders \ {o} : HeldBy(g)'[x] = HeldBy(g)[x]
    BY <2>1 DEF HeldBy
  <2>4. stocks'[g] + HeldBy(g)'[o] = stocks[g] + HeldBy(g)[o]
    BY <1>3, <2>1, <2>2
  <2>5. QED
    BY <1>1, <1>3, <2>3, <2>4, MoveConserves
<1>5. CASE AutoRebackCommit(w)
  <2>1. /\ stocks'[g] = stocks[g] + n /\ status[o] = 1 /\ status'[o] = 2
        /\ sold[o][g] = n
        /\ \A x \in Orders \ {o} : status'[x] = status[x] /\ sold'[x] = sold[x]
    BY <1>1, <1>3, <1>5 DEF AutoRebackCommit, IInv, SessionOK, TypeOK
  <2>2. HeldBy(g)[o] = n /\ HeldBy(g)'[o] = 0
    BY <1>3, <2>1 DEF HeldBy
  <2>3. \A x \in Orders \ {o} : HeldBy(g)'[x] = HeldBy(g)[x]
    BY <2>1 DEF HeldBy
  <2>4. stocks'[g] + HeldBy(g)'[o] = stocks[g] + HeldBy(g)[o]
    BY <1>3, <2>1, <2>2
  <2>5. QED
    BY <1>1, <1>3, <2>3, <2>4, MoveConserves
<1>6. QED
  BY <1>2, <1>4, <1>5

\* Sales and returns make and lose no stock: for every product, what is on
\* the shelf and what the orders hold add up to the same before and after.
\* A database has finitely many orders, however many it has.
THEOREM Conservation ==
  ASSUME IsFiniteSet(Orders)
  PROVE  Spec => SalesConserve
<1>1. IInv /\ [Next]_vars
        => [status' # status =>
              \A g \in Goods : stocks'[g] + Held(g)' = stocks[g] + Held(g)]_vars
  BY StepConserves
<1>2. QED
  BY <1>1, Invariant, PTL DEF Spec, SalesConserve

-----------------------------------------------------------------------------
\* What an acknowledgement means

LEMMA StepAcks ==
  ASSUME IInv, [Next]_vars, NEW o \in inbox, o \notin inbox'
  PROVE  status'[o] # 1 \/ o \in missed'
<1> USE DEF tables, queue
<1>1. o \in Orders
  BY DEF IInv, TypeOK
<1>2. ~UNCHANGED vars /\ ~Client
  BY DEF vars, Client, SetInv, SellBegin, RebackBegin, Begin, Publish
<1>3. ASSUME NEW p \in Orders, Deliver(p)
      PROVE  status'[o] # 1 \/ o \in missed'
  BY <1>1, <1>3
     DEF Deliver, AutoRebackSelect, Begin, AutoRebackNothing, Leave, Acknowledge,
         AutoRebackUnread, AutoRebackNoConn, AutoRebackBeginFail, AcknowledgeUnseen
<1>4. CASE Fault
  BY <1>4
     DEF Fault, AutoRebackCommitFail, AcknowledgeUnseen, Abort, RollbackRetry,
         RebackSaveFail
<1>5. ASSUME NEW w \in Sessions, Progress(w) PROVE status'[o] # 1
  <2>1. AutoRebackCommit(w)
    BY <1>5
       DEF Progress, SellUpdate, RebackUpdate, AutoRebackUpdate, LockRow,
           SellRefuse, RebackMissing, SellDuplicate, Rollback, SellCreate,
           AutoRebackMark, LockDetail, AutoRebackAlready, LockWaitError,
           RollbackRetry, RebackCommit, SellCommit
  <2>2. o = tx[w].sn
    BY <2>1 DEF AutoRebackCommit, Acknowledge
  <2>3. QED
    BY <1>1, <2>1, <2>2 DEF AutoRebackCommit, IInv, TypeOK
<1>6. QED
  BY <1>2, <1>3, <1>4, <1>5 DEF Next

\* A message leaves the queue only when its order has nothing deducted any
\* more, or at an error that AutoReback does not see.
THEOREM AckIsReturn == Spec => AckMeansReturned
<1>1. IInv /\ [Next]_vars
        => [\A o \in inbox : o \notin inbox'
              => status'[o] # 1 \/ o \in missed']_vars
  BY StepAcks
<1>2. QED
  BY <1>1, Invariant, PTL DEF Spec, AckMeansReturned

\* No message is missed without a cause: as long as no statement, connection
\* or process has failed and MySQL has a connection left.
THEOREM NothingMissed ==
  Spec /\ []CanConnect => [](faults = 0 => missed = {})
<1> DEFINE None1 == IInv /\ (faults = 0 => missed = {})
<1>1. Init => None1
  BY InitInv DEF Init
<1>2. ASSUME None1, CanConnect, [Next]_vars PROVE None1'
  <2>1. IInv /\ faults \in Nat
    BY <1>2 DEF IInv, TypeOK
  <2>2. IInv'
    BY <1>2, Step
  <2>3. faults' = 0 => missed' = {}
    <3> USE DEF queue
    <3>1. CASE UNCHANGED vars
      BY <1>2, <3>1 DEF vars
    <3>2. CASE Client
      <4>1. faults' = faults /\ missed' \in SUBSET missed
        BY <3>2 DEF Client, SetInv, SellBegin, RebackBegin, Begin, Publish
      <4>2. QED
        BY <1>2, <4>1
    <3>3. ASSUME NEW o \in Orders, Deliver(o) PROVE faults' = 0 => missed' = {}
      <4>1. \/ faults' = faults /\ missed' = missed
            \/ faults' = faults + 1
        BY <1>2, <3>3
           DEF Deliver, AutoRebackSelect, Begin, AutoRebackNothing, Acknowledge,
               AutoRebackUnread, AutoRebackNoConn, AutoRebackBeginFail
      <4>2. QED
        BY <1>2, <2>1, <4>1
    <3>4. ASSUME NEW w \in Sessions, Progress(w)
          PROVE  faults' = 0 => missed' = {}
      BY <1>2, <3>4
         DEF Progress, SellUpdate, RebackUpdate, AutoRebackUpdate, LockRow,
             SellRefuse, RebackMissing, SellDuplicate, Rollback, SellCreate,
             AutoRebackMark, LockDetail, AutoRebackAlready, LockWaitError,
             RollbackRetry, RebackCommit, SellCommit, AutoRebackCommit,
             Acknowledge
    <3>5. CASE Fault
      <4>1. faults' = faults + 1
        BY <3>5 DEF Fault, AutoRebackCommitFail, Abort, RebackSaveFail
      <4>2. QED
        BY <2>1, <4>1
    <3> QED BY <1>2, <3>1, <3>2, <3>3, <3>4, <3>5 DEF Next
  <2> QED BY <2>2, <2>3
<1>3. QED
  BY <1>1, <1>2, PTL DEF Spec
=============================================================================
