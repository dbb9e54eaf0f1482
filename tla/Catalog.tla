------------------------------ MODULE Catalog ------------------------------
(***************************************************************************)
(* The two stores of goods_srv: MySQL's goods table and the Elasticsearch  *)
(* index GoodsList searches.  CreateGoods, UpdateGoods and DeleteGoods     *)
(* (goods_srv/handler/goods.go) write a row, and the gorm hooks of         *)
(* goods_srv/model/goods.go write the document inside the same database    *)
(* transaction, while its row is locked; the two cannot commit together.   *)
(*                                                                         *)
(* A product's content is one value; that its category and brand exist is  *)
(* taken for granted.                                                      *)
(***************************************************************************)
EXTENDS Integers

CONSTANTS Contents,  \* what a product may look like
          None,      \* no such row, document or holder
          Sessions,
          MaxId,     \* bound: ids AUTO_INCREMENT hands out
          MaxCalls, MaxFaults  \* bounds

ASSUME CatalogAssumption ==
  /\ None \notin Contents /\ "deleted" \notin Contents \cup {None}
  /\ None \notin Sessions
  /\ MaxId \in Nat /\ MaxCalls \in Nat /\ MaxFaults \in Nat

VARIABLES row,   \* row[p]: None, "deleted", or the content of p's row
          doc,   \* doc[p]: None, or the content of p's document
          next,  \* the next AUTO_INCREMENT value
          lock,  \* lock[p]: the session whose transaction locked p's row
          w,     \* w[s]: the call session s is in
          parted,  \* history: the products whose stores a fault separated, by
                   \* a failed call to Elasticsearch that took effect, a failed
                   \* COMMIT or a crash
          calls, faults

vars == <<row, doc, next, lock, w, parted, calls, faults>>

Ids == 1..MaxId
Idle == [pc |-> "idle", op |-> "none", id |-> 0, to |-> None]

Init ==
  /\ row = [p \in Ids |-> None]
  /\ doc = [p \in Ids |-> None]
  /\ next = 1
  /\ lock = [p \in Ids |-> None]
  /\ w = [s \in Sessions |-> Idle]
  /\ parted = {}
  /\ calls = 0 /\ faults = 0

-----------------------------------------------------------------------------
Call(s) == w[s] = Idle /\ calls < MaxCalls /\ calls' = calls + 1
At(s, pc) == w[s].pc = pc
Goto(s, pc) == w' = [w EXCEPT ![s].pc = pc]
Faulty == faults < MaxFaults /\ faults' = faults + 1

SetDoc(p, c) == doc' = [doc EXCEPT ![p] = c]
Part(P) == parted' = parted \cup P

\* The transaction of s ends, COMMIT or ROLLBACK, and the call with it.
End(s) ==
  /\ lock' = [p \in Ids |-> IF lock[p] = s THEN None ELSE lock[p]]
  /\ w' = [w EXCEPT ![s] = Idle]

\* An error of the hook rolls the row back; it cannot roll back the document.
HookFail(s, c) ==
  /\ Faulty
  /\ \/ UNCHANGED <<doc, parted>>
     \/ SetDoc(w[s].id, c) /\ Part({w[s].id})
  /\ End(s)
  /\ UNCHANGED <<row, next, calls>>

\* CreateGoods: the INSERT takes the next id, for good, and locks its row.
Create(s, c) ==
  /\ Call(s)
  /\ next \in Ids
  /\ next' = next + 1
  /\ lock' = [lock EXCEPT ![next] = s]
  /\ w' = [w EXCEPT ![s] = [pc |-> "index", op |-> "write",
                            id |-> next, to |-> c]]
  /\ UNCHANGED <<row, doc, parted, faults>>

\* AfterCreate
Index(s) ==
  /\ At(s, "index")
  /\ SetDoc(w[s].id, w[s].to)
  /\ Goto(s, "commit")
  /\ UNCHANGED <<row, next, lock, parted, calls, faults>>

IndexFail(s) == At(s, "index") /\ HookFail(s, w[s].to)

\* UpdateGoods: First finds the row, before the transaction.
UpdateRead(s, p, c) ==
  /\ row[p] \in Contents
  /\ Call(s)
  /\ w' = [w EXCEPT ![s] = [pc |-> "update", op |-> "write",
                            id |-> p, to |-> c]]
  /\ UNCHANGED <<row, doc, next, lock, parted, faults>>

\* Mutant: no row lock is held while the hook runs.
UpdateWriteUnlocked(s) ==
  /\ At(s, "update")
  /\ lock[w[s].id] = None
  /\ Goto(s, "doc")
  /\ UNCHANGED <<row, doc, next, lock, parted, calls, faults>>

\* Its UPDATE waits for the row and locks it, live or deleted since.
UpdateWrite(s) ==
  /\ At(s, "update")
  /\ lock[w[s].id] = None
  /\ lock' = [lock EXCEPT ![w[s].id] = s]
  /\ Goto(s, "doc")
  /\ UNCHANGED <<row, doc, next, parted, calls, faults>>

\* AfterUpdate runs whether or not a row was updated, and needs a document.
UpdateDoc(s) ==
  /\ At(s, "doc")
  /\ doc[w[s].id] # None
  /\ SetDoc(w[s].id, w[s].to)
  /\ Goto(s, "commit")
  /\ UNCHANGED <<row, next, lock, parted, calls, faults>>

\* Mutant: AfterUpdate indexes the document anew, as AfterCreate does.
UpdateDocIndex(s) ==
  /\ At(s, "doc")
  /\ doc[w[s].id] = None
  /\ SetDoc(w[s].id, w[s].to)
  /\ Goto(s, "commit")
  /\ UNCHANGED <<row, next, lock, parted, calls, faults>>

UpdateDocMissing(s) ==
  /\ At(s, "doc")
  /\ doc[w[s].id] = None
  /\ End(s)
  /\ UNCHANGED <<row, doc, next, parted, calls, faults>>

UpdateDocFail(s) ==
  /\ At(s, "doc")
  /\ doc[w[s].id] # None
  /\ HookFail(s, w[s].to)

\* DeleteGoods: one UPDATE of deleted_at, which locks the row if there is one.
DeleteWrite(s, p) ==
  /\ Call(s)
  /\ p < next
  /\ lock[p] = None
  /\ lock' = IF row[p] = None THEN lock ELSE [lock EXCEPT ![p] = s]
  /\ w' = [w EXCEPT ![s] = [pc |-> "remove", op |-> "delete",
                            id |-> p, to |-> None]]
  /\ UNCHANGED <<row, doc, next, parted, faults>>

\* Mutant: the document is marked deleted, as the row is.
RemoveMark(s) ==
  /\ At(s, "remove")
  /\ doc[w[s].id] # None
  /\ SetDoc(w[s].id, "deleted")
  /\ Goto(s, "commit")
  /\ UNCHANGED <<row, next, lock, parted, calls, faults>>

\* AfterDelete
Remove(s) ==
  /\ At(s, "remove")
  /\ doc[w[s].id] # None
  /\ SetDoc(w[s].id, None)
  /\ Goto(s, "commit")
  /\ UNCHANGED <<row, next, lock, parted, calls, faults>>

\* Elasticsearch answers 404, which is an error, and DeleteGoods NotFound.
RemoveMissing(s) ==
  /\ At(s, "remove")
  /\ doc[w[s].id] = None
  /\ End(s)
  /\ UNCHANGED <<row, doc, next, parted, calls, faults>>

\* Mutant: the error of the hook is dropped.
RemoveFailDropped(s) ==
  /\ At(s, "remove")
  /\ doc[w[s].id] # None
  /\ Faulty
  /\ Goto(s, "commit")
  /\ UNCHANGED <<row, doc, next, lock, parted, calls>>

RemoveFail(s) ==
  /\ At(s, "remove")
  /\ doc[w[s].id] # None
  /\ HookFail(s, None)

\* Where the UPDATE of Save met no live row, Save inserts over the key: either
\* way the row is live with the content written.
Commit(s) ==
  /\ At(s, "commit")
  /\ LET p == w[s].id IN
     row' = [row EXCEPT ![p] = IF w[s].op = "write" THEN w[s].to
                               ELSE IF @ = None THEN None ELSE "deleted"]
  /\ End(s)
  /\ UNCHANGED <<doc, next, parted, calls, faults>>

\* CreateGoods and UpdateGoods do not look at the error.
CommitFail(s) ==
  /\ At(s, "commit")
  /\ Faulty
  /\ Part({w[s].id})
  /\ End(s)
  /\ UNCHANGED <<row, doc, next, calls>>

\* goods_srv dies and comes back; MySQL rolls its transactions back.
Crash ==
  /\ Faulty
  /\ Part({w[s].id : s \in {v \in Sessions : At(v, "commit")}})
  /\ lock' = [p \in Ids |-> None]
  /\ w' = [s \in Sessions |-> Idle]
  /\ UNCHANGED <<row, doc, next, calls>>

Next ==
  \/ \E s \in Sessions :
       \/ \E c \in Contents : Create(s, c)
       \/ \E p \in Ids, c \in Contents : UpdateRead(s, p, c)
       \/ \E p \in Ids : DeleteWrite(s, p)
       \/ Index(s) \/ IndexFail(s) \/ UpdateWrite(s) \/ UpdateDoc(s)
       \/ UpdateDocMissing(s) \/ UpdateDocFail(s) \/ Remove(s)
       \/ RemoveMissing(s) \/ RemoveFail(s) \/ Commit(s) \/ CommitFail(s)
  \/ Crash

Spec == Init /\ [][Next]_vars

-----------------------------------------------------------------------------
\* Properties

Calls == [pc : {"idle", "index", "update", "doc", "remove", "commit"},
          op : {"none", "write", "delete"},
          id : 0..MaxId, to : Contents \cup {None}]

TypeOK ==
  /\ row \in [Ids -> Contents \cup {None, "deleted"}]
  /\ doc \in [Ids -> Contents \cup {None}]
  /\ next \in 1..(MaxId + 1)
  /\ lock \in [Ids -> Sessions \cup {None}]
  /\ w \in [Sessions -> Calls]
  /\ parted \in SUBSET Ids
  /\ calls \in Nat /\ faults \in Nat

\* A deleted product is not searchable, whatever failed and in whichever
\* order concurrent calls ran: DeleteGoods removes the document before it
\* commits, and no update may put it back.
DeletedIsUnsearchable ==
  \A p \in Ids : row[p] = "deleted" => doc[p] = None

\* An UpdateGoods that found the product before another call deleted it does
\* not bring it back to life, although Save would: the hook fails first.
NeverRevived ==
  [][\A p \in Ids : row[p] = "deleted" => row'[p] = "deleted"]_vars

\* What GoodsList searches is what the table says of every product that no
\* transaction is writing and whose stores no fault has separated.
InStep ==
  \A p \in Ids \ parted :
    lock[p] = None =>
      doc[p] = IF row[p] \in Contents THEN row[p] ELSE None

-----------------------------------------------------------------------------
\* The inductive invariant behind these properties

\* What a call at each of its steps knows of its id and of its row, and that
\* it holds the row's lock; only DeleteGoods of a row that does not exist, and
\* never will, holds none.
CallOK(s) ==
  LET p == w[s].id IN
  /\ At(s, "idle") \/ p \in 1..(next - 1)
  /\ At(s, "index") => w[s].op = "write" /\ lock[p] = s /\ row[p] = None
  /\ At(s, "update") => w[s].op = "write" /\ row[p] # None
  /\ At(s, "doc") => w[s].op = "write" /\ lock[p] = s /\ row[p] # None
  /\ At(s, "remove") =>
       /\ w[s].op = "delete"
       /\ lock[p] = s \/ (lock[p] = None /\ row[p] = None)
  /\ At(s, "commit") =>
       \/ w[s].op = "write" /\ lock[p] = s /\ row[p] # "deleted"
       \/ /\ w[s].op = "delete" /\ doc[p] = None
          /\ lock[p] = s \/ (lock[p] = None /\ row[p] = None)
  /\ w[s].to \in IF w[s].op = "write" THEN Contents ELSE {None}

\* A locked row belongs to one running transaction; ids not yet handed out
\* have neither row nor document.
LockOK(p) ==
  /\ lock[p] # None =>
       w[lock[p]].id = p /\ w[lock[p]].pc \notin {"idle", "update"}
  /\ p >= next => row[p] = None /\ doc[p] = None /\ lock[p] = None

\* Every transaction holds its row while it writes the document, which is why
\* calls for the same product cannot mix (the hooks of model/goods.go run
\* inside the transaction).
IInv ==
  /\ TypeOK
  /\ \A s \in Sessions : CallOK(s)
  /\ \A p \in Ids : LockOK(p)
  /\ DeletedIsUnsearchable

Shown(p) == IF row[p] \in Contents THEN row[p] ELSE None

\* Where no fault has separated the stores, the document is the row's content,
\* or what the transaction that holds the row is about to commit.
StepInv ==
  /\ \A p \in Ids \ parted : lock[p] = None => doc[p] = Shown(p)
  /\ \A s \in Sessions :
       LET p == w[s].id IN
       p \notin parted =>
         /\ At(s, "index") \/ At(s, "doc") \/ At(s, "remove")
              => doc[p] = Shown(p)
         /\ At(s, "commit") => doc[p] = w[s].to
=============================================================================
