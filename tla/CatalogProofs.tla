--------------------------- MODULE CatalogProofs ---------------------------
(***************************************************************************)
(* Proofs about Catalog for any number of ids, sessions and contents and   *)
(* any bounds.  IInv is inductive, one lemma per kind of step; StepInv is  *)
(* inductive on top of it when no fault separates the stores.              *)
(***************************************************************************)
EXTENDS Catalog, TLAPS

USE DEF Ids, At

LEMMA InitInv == Init => IInv
BY CatalogAssumption
   DEF Init, IInv, TypeOK, Calls, CallOK, LockOK, DeletedIsUnsearchable, Idle,
       CatalogAssumption

\* CreateGoods inserts a row under an id nobody else knows.
LEMMA CreateInv ==
  ASSUME IInv, NEW s \in Sessions, NEW c \in Contents, Create(s, c)
  PROVE  IInv'
<1> USE CatalogAssumption DEF Create, Call, CatalogAssumption
<1>0. w' \in [Sessions -> Calls]
  BY DEF IInv, TypeOK, Calls, Idle
<1>1. TypeOK'
  BY <1>0 DEF IInv, TypeOK
<1>2. CallOK(s)'
  BY DEF IInv, TypeOK, Calls, CallOK, LockOK, DeletedIsUnsearchable, Idle
<1>3. ASSUME NEW v \in Sessions \ {s} PROVE CallOK(v)'
  BY DEF IInv, TypeOK, Calls, CallOK, LockOK, Idle
<1>4. ASSUME NEW p \in Ids PROVE LockOK(p)'
  BY DEF IInv, TypeOK, Calls, CallOK, LockOK, Idle
<1>5. DeletedIsUnsearchable'
  BY DEF IInv, TypeOK, Calls, CallOK, LockOK, DeletedIsUnsearchable
<1> QED BY <1>1, <1>2, <1>3, <1>4, <1>5 DEF IInv

\* AfterCreate
LEMMA IndexInv ==
  ASSUME IInv, NEW s \in Sessions, Index(s)
  PROVE  IInv'
<1> USE CatalogAssumption DEF Index, SetDoc, Goto, CatalogAssumption
<1>0. w' \in [Sessions -> Calls]
  BY DEF IInv, TypeOK, Calls, Idle
<1>1. TypeOK'
  <2>1. w[s].id \in Ids /\ w[s].to \in Contents
    BY DEF IInv, TypeOK, Calls, CallOK
  <2> QED BY <1>0, <2>1 DEF IInv, TypeOK
<1>2. CallOK(s)'
  BY DEF IInv, TypeOK, Calls, CallOK, LockOK, DeletedIsUnsearchable, Idle
<1>3. ASSUME NEW v \in Sessions \ {s} PROVE CallOK(v)'
  BY DEF IInv, TypeOK, Calls, CallOK, LockOK, Idle
<1>4. ASSUME NEW p \in Ids PROVE LockOK(p)'
  BY DEF IInv, TypeOK, Calls, CallOK, LockOK, Idle
<1>5. DeletedIsUnsearchable'
  BY DEF IInv, TypeOK, Calls, CallOK, LockOK, DeletedIsUnsearchable
<1> QED BY <1>1, <1>2, <1>3, <1>4, <1>5 DEF IInv

\* UpdateGoods finds the row.
LEMMA UpdateReadInv ==
  ASSUME IInv, NEW s \in Sessions, NEW p0 \in Ids, NEW c \in Contents,
         UpdateRead(s, p0, c)
  PROVE  IInv'
<1> USE CatalogAssumption DEF UpdateRead, Call, CatalogAssumption
<1>0. w' \in [Sessions -> Calls]
  BY DEF IInv, TypeOK, Calls, Idle
<1>1. TypeOK'
  BY <1>0 DEF IInv, TypeOK
<1>2. CallOK(s)'
  BY DEF IInv, TypeOK, Calls, CallOK, LockOK, DeletedIsUnsearchable, Idle
<1>3. ASSUME NEW v \in Sessions \ {s} PROVE CallOK(v)'
  BY DEF IInv, TypeOK, Calls, CallOK, LockOK, Idle
<1>4. ASSUME NEW p \in Ids PROVE LockOK(p)'
  BY DEF IInv, TypeOK, Calls, CallOK, LockOK, Idle
<1>5. DeletedIsUnsearchable'
  BY DEF IInv, TypeOK, Calls, CallOK, LockOK, DeletedIsUnsearchable
<1> QED BY <1>1, <1>2, <1>3, <1>4, <1>5 DEF IInv

\* UpdateGoods locks the row.
LEMMA UpdateWriteInv ==
  ASSUME IInv, NEW s \in Sessions, UpdateWrite(s)
  PROVE  IInv'
<1> USE CatalogAssumption DEF UpdateWrite, Goto, CatalogAssumption
<1>0. w' \in [Sessions -> Calls]
  <2>1. w \in [Sessions -> Calls] /\ w[s] \in Calls
    BY DEF IInv, TypeOK
  <2>2. [w[s] EXCEPT !.pc = "doc"] \in Calls
    BY <2>1 DEF Calls
  <2>3. w' = [w EXCEPT ![s] = [w[s] EXCEPT !.pc = "doc"]]
    OBVIOUS
  <2>4. QED
    BY <2>1, <2>2, <2>3
<1>1. TypeOK'
  BY <1>0 DEF IInv, TypeOK
<1>2. CallOK(s)'
  BY DEF IInv, TypeOK, Calls, CallOK, LockOK, DeletedIsUnsearchable, Idle
<1>3. ASSUME NEW v \in Sessions \ {s} PROVE CallOK(v)'
  BY DEF IInv, TypeOK, Calls, CallOK, LockOK, Idle
<1>4. ASSUME NEW p \in Ids PROVE LockOK(p)'
  BY DEF IInv, TypeOK, Calls, CallOK, LockOK, Idle
<1>5. DeletedIsUnsearchable'
  BY DEF IInv, TypeOK, Calls, CallOK, LockOK, DeletedIsUnsearchable
<1> QED BY <1>1, <1>2, <1>3, <1>4, <1>5 DEF IInv

\* AfterUpdate
LEMMA UpdateDocInv ==
  ASSUME IInv, NEW s \in Sessions, UpdateDoc(s)
  PROVE  IInv'
<1> USE CatalogAssumption DEF UpdateDoc, SetDoc, Goto, CatalogAssumption
<1>0. w' \in [Sessions -> Calls]
  BY DEF IInv, TypeOK, Calls, Idle
<1>1. TypeOK'
  <2>1. w[s].id \in Ids /\ w[s].to \in Contents
    BY DEF IInv, TypeOK, Calls, CallOK
  <2> QED BY <1>0, <2>1 DEF IInv, TypeOK
<1>2. CallOK(s)'
  BY DEF IInv, TypeOK, Calls, CallOK, LockOK, DeletedIsUnsearchable, Idle
<1>3. ASSUME NEW v \in Sessions \ {s} PROVE CallOK(v)'
  BY DEF IInv, TypeOK, Calls, CallOK, LockOK, Idle
<1>4. ASSUME NEW p \in Ids PROVE LockOK(p)'
  BY DEF IInv, TypeOK, Calls, CallOK, LockOK, Idle
<1>5. DeletedIsUnsearchable'
  BY DEF IInv, TypeOK, Calls, CallOK, LockOK, DeletedIsUnsearchable
<1> QED BY <1>1, <1>2, <1>3, <1>4, <1>5 DEF IInv

\* DeleteGoods locks the row, if there is one.
LEMMA DeleteWriteInv ==
  ASSUME IInv, NEW s \in Sessions, NEW p0 \in Ids, DeleteWrite(s, p0)
  PROVE  IInv'
<1> USE CatalogAssumption DEF DeleteWrite, Call, CatalogAssumption
<1>0. w' \in [Sessions -> Calls]
  BY DEF IInv, TypeOK, Calls, Idle
<1>1. TypeOK'
  BY <1>0 DEF IInv, TypeOK
<1>2. CallOK(s)'
  BY DEF IInv, TypeOK, Calls, CallOK, LockOK, DeletedIsUnsearchable, Idle
<1>3. ASSUME NEW v \in Sessions \ {s} PROVE CallOK(v)'
  BY DEF IInv, TypeOK, Calls, CallOK, LockOK, Idle
<1>4. ASSUME NEW p \in Ids PROVE LockOK(p)'
  BY DEF IInv, TypeOK, Calls, CallOK, LockOK, Idle
<1>5. DeletedIsUnsearchable'
  BY DEF IInv, TypeOK, Calls, CallOK, LockOK, DeletedIsUnsearchable
<1> QED BY <1>1, <1>2, <1>3, <1>4, <1>5 DEF IInv

\* AfterDelete
LEMMA RemoveInv ==
  ASSUME IInv, NEW s \in Sessions, Remove(s)
  PROVE  IInv'
<1> USE CatalogAssumption DEF Remove, SetDoc, Goto, CatalogAssumption
<1>0. w' \in [Sessions -> Calls]
  BY DEF IInv, TypeOK, Calls, Idle
<1>1. TypeOK'
  BY <1>0 DEF IInv, TypeOK
<1>2. CallOK(s)'
  BY DEF IInv, TypeOK, Calls, CallOK, LockOK, DeletedIsUnsearchable, Idle
<1>3. ASSUME NEW v \in Sessions \ {s} PROVE CallOK(v)'
  BY DEF IInv, TypeOK, Calls, CallOK, LockOK, Idle
<1>4. ASSUME NEW p \in Ids PROVE LockOK(p)'
  BY DEF IInv, TypeOK, Calls, CallOK, LockOK, Idle
<1>5. DeletedIsUnsearchable'
  BY DEF IInv, TypeOK, Calls, CallOK, LockOK, DeletedIsUnsearchable
<1> QED BY <1>1, <1>2, <1>3, <1>4, <1>5 DEF IInv

\* A transaction ends without a change of the stores.
LEMMA EndInv ==
  ASSUME IInv, NEW s \in Sessions, End(s), UNCHANGED <<row, doc, next>>,
         parted' \in SUBSET Ids, calls' \in Nat, faults' \in Nat
  PROVE  IInv'
<1> USE CatalogAssumption DEF End, CatalogAssumption
<1>0. w' \in [Sessions -> Calls]
  BY DEF IInv, TypeOK, Calls, Idle
<1>1. TypeOK'
  BY <1>0 DEF IInv, TypeOK
<1>2. CallOK(s)'
  BY DEF IInv, TypeOK, Calls, CallOK, LockOK, DeletedIsUnsearchable, Idle
<1>3. ASSUME NEW v \in Sessions \ {s} PROVE CallOK(v)'
  BY DEF IInv, TypeOK, Calls, CallOK, LockOK, Idle
<1>4. ASSUME NEW p \in Ids PROVE LockOK(p)'
  BY DEF IInv, TypeOK, Calls, CallOK, LockOK, Idle
<1>5. DeletedIsUnsearchable'
  BY DEF IInv, TypeOK, Calls, CallOK, LockOK, DeletedIsUnsearchable
<1> QED BY <1>1, <1>2, <1>3, <1>4, <1>5 DEF IInv

\* The hook fails; its call may have taken effect.
LEMMA HookFailInv ==
  ASSUME IInv, NEW s \in Sessions,
         At(s, "index") \/ (At(s, "doc") /\ doc[w[s].id] # None),
         HookFail(s, w[s].to)
  PROVE  IInv'
<1> USE CatalogAssumption DEF HookFail, Faulty, SetDoc, Part, End,
        CatalogAssumption
<1>0. w' \in [Sessions -> Calls]
  BY DEF IInv, TypeOK, Calls, Idle
<1>1. TypeOK'
  <2>1. w[s].id \in Ids /\ w[s].to \in Contents
    BY DEF IInv, TypeOK, Calls, CallOK
  <2>2. parted' \in SUBSET Ids
    BY <2>1 DEF IInv, TypeOK
  <2>3. doc' \in [Ids -> Contents \cup {None}]
    BY <2>1 DEF IInv, TypeOK
  <2> QED BY <1>0, <2>2, <2>3 DEF IInv, TypeOK
<1>2. CallOK(s)'
  BY DEF IInv, TypeOK, Calls, CallOK, LockOK, DeletedIsUnsearchable, Idle
<1>3. ASSUME NEW v \in Sessions \ {s} PROVE CallOK(v)'
  BY DEF IInv, TypeOK, Calls, CallOK, LockOK, Idle
<1>4. ASSUME NEW p \in Ids PROVE LockOK(p)'
  BY DEF IInv, TypeOK, Calls, CallOK, LockOK, Idle
<1>5. DeletedIsUnsearchable'
  BY DEF IInv, TypeOK, Calls, CallOK, LockOK, DeletedIsUnsearchable
<1> QED BY <1>1, <1>2, <1>3, <1>4, <1>5 DEF IInv

\* AfterDelete fails; its call may have taken effect.
LEMMA RemoveFailInv ==
  ASSUME IInv, NEW s \in Sessions, RemoveFail(s)
  PROVE  IInv'
<1> USE CatalogAssumption
        DEF RemoveFail, HookFail, Faulty, SetDoc, Part, End,
            CatalogAssumption
<1>0. w' \in [Sessions -> Calls]
  BY DEF IInv, TypeOK, Calls, Idle
<1>1. TypeOK'
  <2>1. w[s].id \in Ids
    BY DEF IInv, TypeOK, Calls, CallOK
  <2>2. parted' \in SUBSET Ids
    BY <2>1 DEF IInv, TypeOK
  <2>3. doc' \in [Ids -> Contents \cup {None}]
    BY <2>1 DEF IInv, TypeOK
  <2> QED BY <1>0, <2>2, <2>3 DEF IInv, TypeOK
<1>2. CallOK(s)'
  BY DEF IInv, TypeOK, Calls, CallOK, LockOK, DeletedIsUnsearchable, Idle
<1>3. ASSUME NEW v \in Sessions \ {s} PROVE CallOK(v)'
  BY DEF IInv, TypeOK, Calls, CallOK, LockOK, Idle
<1>4. ASSUME NEW p \in Ids PROVE LockOK(p)'
  BY DEF IInv, TypeOK, Calls, CallOK, LockOK, Idle
<1>5. DeletedIsUnsearchable'
  BY DEF IInv, TypeOK, Calls, CallOK, LockOK, DeletedIsUnsearchable
<1> QED BY <1>1, <1>2, <1>3, <1>4, <1>5 DEF IInv

\* COMMIT
LEMMA CommitInv ==
  ASSUME IInv, NEW s \in Sessions, Commit(s)
  PROVE  IInv'
<1> USE CatalogAssumption DEF Commit, End, CatalogAssumption
<1>0. w' \in [Sessions -> Calls]
  BY DEF IInv, TypeOK, Calls, Idle
<1>1. TypeOK'
  <2>1. w[s].id \in Ids /\ (w[s].op = "write" => w[s].to \in Contents)
    BY DEF IInv, TypeOK, Calls, CallOK
  <2> QED BY <1>0, <2>1 DEF IInv, TypeOK
<1>2. CallOK(s)'
  BY DEF IInv, TypeOK, Calls, CallOK, LockOK, DeletedIsUnsearchable, Idle
<1>3. ASSUME NEW v \in Sessions \ {s} PROVE CallOK(v)'
  BY DEF IInv, TypeOK, Calls, CallOK, LockOK, Idle
<1>4. ASSUME NEW p \in Ids PROVE LockOK(p)'
  BY DEF IInv, TypeOK, Calls, CallOK, LockOK, Idle
<1>5. DeletedIsUnsearchable'
  BY DEF IInv, TypeOK, Calls, CallOK, LockOK, DeletedIsUnsearchable
<1> QED BY <1>1, <1>2, <1>3, <1>4, <1>5 DEF IInv

LEMMA CrashInv == IInv /\ Crash => IInv'
<1> SUFFICES ASSUME IInv, Crash PROVE IInv'
  OBVIOUS
<1> USE CatalogAssumption DEF Crash, Faulty, CatalogAssumption
<1>1. TypeOK'
  <2>1. \A v \in Sessions : At(v, "commit") => w[v].id \in Ids
    BY DEF IInv, TypeOK, Calls, CallOK
  <2>2. parted' \in SUBSET Ids
    BY <2>1 DEF IInv, TypeOK, Part
  <2> QED BY <2>2 DEF IInv, TypeOK, Calls, Idle
<1>2. ASSUME NEW v \in Sessions PROVE CallOK(v)'
  BY DEF CallOK, Idle
<1>3. ASSUME NEW p \in Ids PROVE LockOK(p)'
  BY DEF IInv, TypeOK, LockOK
<1>4. DeletedIsUnsearchable'
  BY DEF IInv, DeletedIsUnsearchable
<1> QED BY <1>1, <1>2, <1>3, <1>4 DEF IInv

LEMMA Step == IInv /\ [Next]_vars => IInv'
<1> SUFFICES ASSUME IInv, [Next]_vars PROVE IInv'
  OBVIOUS
<1>1. ASSUME NEW s \in Sessions, NEW c \in Contents, Create(s, c) PROVE IInv'
  BY <1>1, CreateInv
<1>2. ASSUME NEW s \in Sessions, NEW p \in Ids, NEW c \in Contents,
             UpdateRead(s, p, c)
      PROVE IInv'
  BY <1>2, UpdateReadInv
<1>3. ASSUME NEW s \in Sessions, NEW p \in Ids, DeleteWrite(s, p) PROVE IInv'
  BY <1>3, DeleteWriteInv
<1>4. ASSUME NEW s \in Sessions, UpdateDocMissing(s) \/ RemoveMissing(s)
      PROVE IInv'
  <2>1. /\ End(s) /\ UNCHANGED <<row, doc, next>>
        /\ parted' \in SUBSET Ids /\ calls' \in Nat /\ faults' \in Nat
    BY <1>4 DEF UpdateDocMissing, RemoveMissing, IInv, TypeOK
  <2> QED BY <2>1, EndInv
<1>5. ASSUME NEW s \in Sessions, CommitFail(s) PROVE IInv'
  <2>1. w[s].id \in Ids
    BY <1>5, CatalogAssumption
       DEF CommitFail, IInv, TypeOK, Calls, CallOK, CatalogAssumption
  <2>2. parted' \in SUBSET Ids
    BY <1>5, <2>1 DEF CommitFail, Part, IInv, TypeOK
  <2>3. /\ End(s) /\ UNCHANGED <<row, doc, next>>
        /\ calls' \in Nat /\ faults' \in Nat
    BY <1>5 DEF CommitFail, Faulty, IInv, TypeOK
  <2> QED BY <2>2, <2>3, EndInv
<1>6. ASSUME NEW s \in Sessions, IndexFail(s) \/ UpdateDocFail(s) PROVE IInv'
  BY <1>6, HookFailInv DEF IndexFail, UpdateDocFail
<1>7. ASSUME NEW s \in Sessions,
             Index(s) \/ UpdateWrite(s) \/ UpdateDoc(s) \/ Remove(s)
      PROVE IInv'
  BY <1>7, IndexInv, UpdateWriteInv, UpdateDocInv, RemoveInv
<1>8. ASSUME NEW s \in Sessions, RemoveFail(s) \/ Commit(s) PROVE IInv'
  BY <1>8, RemoveFailInv, CommitInv
<1>9. CASE UNCHANGED vars
  BY <1>9 DEF vars, IInv, TypeOK, CallOK, LockOK, DeletedIsUnsearchable
<1> QED BY <1>1, <1>2, <1>3, <1>4, <1>5, <1>6, <1>7, <1>8, <1>9, CrashInv
        DEF Next

\* The inductive invariant holds of every run of goods_srv.
THEOREM Invariant == Spec => []IInv
BY InitInv, Step, PTL DEF Spec

\* Rows, documents and calls keep their types (the hooks of model/goods.go
\* write what CreateGoods and UpdateGoods were called with).
THEOREM TypeCorrect == Spec => []TypeOK
<1>1. IInv => TypeOK
  BY DEF IInv
<1> QED BY <1>1, Invariant, PTL

\* However calls interleave and fail, a product DeleteGoods has deleted has
\* no document left in the index.
THEOREM DeletedUnsearchable == Spec => []DeletedIsUnsearchable
<1>1. IInv => DeletedIsUnsearchable
  BY DEF IInv
<1> QED BY <1>1, Invariant, PTL

\* No call brings a deleted product back, although the Save of UpdateGoods
\* would: AfterUpdate finds no document.
THEOREM StaysDeleted == Spec => NeverRevived
<1>1. IInv /\ [Next]_vars
      => [\A p \in Ids : row[p] = "deleted" => row'[p] = "deleted"]_vars
  <2> SUFFICES ASSUME IInv, Next, NEW p \in Ids, row[p] = "deleted"
               PROVE  row'[p] = "deleted"
    BY DEF vars
  <2>1. CASE row' = row
    BY <2>1
  <2>2. ASSUME NEW s \in Sessions, Commit(s) PROVE row'[p] = "deleted"
    <3>1. CASE w[s].id # p
      BY <2>2, <3>1 DEF Commit, IInv, TypeOK
    <3>2. CASE w[s].id = p
      BY <2>2, <3>2, CatalogAssumption
         DEF Commit, IInv, TypeOK, CallOK, CatalogAssumption
    <3> QED BY <3>1, <3>2
  <2> QED BY <2>1, <2>2
          DEF Next, Create, UpdateRead, DeleteWrite, Index, IndexFail,
              HookFail, UpdateWrite, UpdateDoc, UpdateDocMissing,
              UpdateDocFail, Remove, RemoveMissing, RemoveFail, CommitFail,
              Crash
<1> QED BY <1>1, Invariant, PTL DEF Spec, NeverRevived

LEMMA InitStepInv == Init => StepInv
BY CatalogAssumption DEF Init, StepInv, Shown, Idle, CatalogAssumption

\* A call that is not at the end of its transaction moves on: what other
\* calls know of their documents stays, their rows being locked.
LEMMA ForwardStepInv ==
  ASSUME IInv, StepInv, NEW s \in Sessions,
         \/ \E c \in Contents : Create(s, c)
         \/ \E p \in Ids, c \in Contents : UpdateRead(s, p, c)
         \/ \E p \in Ids : DeleteWrite(s, p)
         \/ Index(s) \/ UpdateWrite(s) \/ UpdateDoc(s) \/ Remove(s)
  PROVE  StepInv'
<1> USE CatalogAssumption DEF CatalogAssumption, IInv, TypeOK, Calls, StepInv,
        Shown
<1>1. ASSUME NEW c \in Contents, Create(s, c) PROVE StepInv'
  BY <1>1 DEF Create, Call, Idle, CallOK, LockOK
<1>2. ASSUME NEW p \in Ids, NEW c \in Contents, UpdateRead(s, p, c)
      PROVE StepInv'
  BY <1>2 DEF UpdateRead, Call, Idle
<1>3. ASSUME NEW p \in Ids, DeleteWrite(s, p) PROVE StepInv'
  BY <1>3 DEF DeleteWrite, Call, Idle
<1>4. CASE Index(s)
  BY <1>4 DEF Index, SetDoc, Goto, CallOK, LockOK
<1>5. CASE UpdateWrite(s)
  BY <1>5 DEF UpdateWrite, Goto, CallOK
<1>6. CASE UpdateDoc(s)
  BY <1>6 DEF UpdateDoc, SetDoc, Goto, CallOK, LockOK
<1>7. CASE Remove(s)
  <2>1. PICK p \in Ids : p = w[s].id
    BY <1>7 DEF Remove, CallOK
  <2>2. /\ doc' = [doc EXCEPT ![p] = None] /\ UNCHANGED <<row, lock, parted>>
        /\ w' = [w EXCEPT ![s].pc = "commit"]
        /\ w[s].op = "delete" /\ w[s].pc = "remove"
    BY <1>7, <2>1 DEF Remove, SetDoc, Goto, CallOK
  <2>3. p \notin parted => lock[p] = s
    BY <1>7, <2>1 DEF Remove, CallOK
  <2>4. p \notin parted => \A v \in Sessions \ {s} :
          w[v].pc \notin {"idle", "update"} => w[v].id # p
    BY <2>3 DEF CallOK, LockOK
  <2>5. w[s].to = None
    BY <2>2 DEF CallOK
  <2>6. ASSUME NEW q \in Ids \ parted, lock'[q] = None
        PROVE  doc'[q] = Shown(q)'
    BY <2>2, <2>3, <2>6
  <2>7. ASSUME NEW v \in Sessions, NEW q \in Ids \ parted, q = w'[v].id
        PROVE  /\ w'[v].pc \in {"index", "doc", "remove"} => doc'[q] = Shown(q)'
               /\ w'[v].pc = "commit" => doc'[q] = w'[v].to
    <3>1. CASE v = s
      BY <2>1, <2>2, <2>5, <2>7, <3>1
    <3>2. CASE v # s
      BY <2>2, <2>4, <2>7, <3>2
    <3> QED BY <3>1, <3>2
  <2>8. \A v \in Sessions : w'[v].pc = "idle" \/ w'[v].id \in Ids
    BY <2>2 DEF CallOK
  <2> QED BY <2>2, <2>6, <2>7, <2>8
<1> QED BY <1>1, <1>2, <1>3, <1>4, <1>5, <1>6, <1>7

\* COMMIT: the row becomes what its document shows already.
LEMMA CommitStepInv ==
  ASSUME IInv, StepInv, NEW s \in Sessions, Commit(s)
  PROVE  StepInv'
<1>1. PICK p \in Ids : p = w[s].id
  BY CatalogAssumption DEF CatalogAssumption, Commit, IInv, TypeOK, CallOK
<1>2. /\ w' = [w EXCEPT ![s] = Idle] /\ doc' = doc /\ parted' = parted
      /\ lock' = [q \in Ids |-> IF lock[q] = s THEN None ELSE lock[q]]
      /\ row' = [row EXCEPT ![p] = IF w[s].op = "write" THEN w[s].to
                                   ELSE IF row[p] = None THEN None
                                   ELSE "deleted"]
  BY <1>1 DEF Commit, End
<1>3. /\ w'[s] = Idle /\ \A v \in Sessions \ {s} : w'[v] = w[v]
      /\ \A q \in Ids : lock'[q] = IF lock[q] = s THEN None ELSE lock[q]
      /\ \A q \in Ids \ {p} : row'[q] = row[q]
  BY <1>2 DEF IInv, TypeOK
<1>4. p \notin parted => doc[p] = w[s].to
  BY <1>1 DEF Commit, StepInv
<1>5. \/ row'[p] = w[s].to /\ w[s].to \in Contents
      \/ row'[p] \in {None, "deleted"} /\ w[s].to = None
  <2>1. CASE w[s].op = "write"
    BY <1>1, <1>2, <2>1 DEF Commit, IInv, TypeOK, CallOK
  <2>2. CASE w[s].op # "write"
    BY <1>1, <1>2, <2>2 DEF Commit, IInv, TypeOK, CallOK
  <2> QED BY <2>1, <2>2
<1>6. p \notin parted => doc'[p] = Shown(p)'
  BY <1>2, <1>4, <1>5, CatalogAssumption DEF Shown, CatalogAssumption
<1>7. \A q \in Ids \ {p} : Shown(q)' = Shown(q)
  BY <1>3 DEF Shown
<1>8. ASSUME NEW q \in Ids \ parted, lock'[q] = None
      PROVE  doc'[q] = Shown(q)'
  <2>1. CASE q = p
    BY <1>6, <2>1
  <2>2. CASE q # p
    <3>1. lock[q] # s
      BY <1>1, <2>2, CatalogAssumption DEF IInv, LockOK, CatalogAssumption
    <3>2. lock[q] = None
      BY <1>3, <1>8, <3>1
    <3> QED BY <1>2, <1>7, <2>2, <3>2 DEF StepInv
  <2> QED BY <2>1, <2>2
<1>9. ASSUME NEW v \in Sessions, NEW q \in Ids \ parted, q = w'[v].id
      PROVE  /\ w'[v].pc \in {"index", "doc", "remove"} => doc'[q] = Shown(q)'
             /\ w'[v].pc = "commit" => doc'[q] = w'[v].to
  <2>1. CASE v = s
    BY <1>3, <2>1 DEF Idle
  <2>2. CASE v # s /\ q = p
    <3>1. w'[v].pc \in {"index", "doc", "remove"} => doc'[q] = Shown(q)'
      BY <1>6, <2>2
    <3>2. w'[v].pc = "commit" => doc'[q] = w'[v].to
      BY <1>2, <1>3, <1>9, <2>2 DEF StepInv
    <3> QED BY <3>1, <3>2
  <2>3. CASE v # s /\ q # p
    BY <1>2, <1>3, <1>7, <1>9, <2>3 DEF StepInv
  <2> QED BY <2>1, <2>2, <2>3
<1>10. \A v \in Sessions : w'[v].pc = "idle" \/ w'[v].id \in Ids
  <2>1. \A v \in Sessions : w[v].pc = "idle" \/ w[v].id \in Ids
    BY CatalogAssumption DEF CatalogAssumption, IInv, TypeOK, CallOK
  <2> QED BY <1>3, <2>1 DEF Idle
<1> QED BY <1>2, <1>8, <1>9, <1>10 DEF StepInv

\* A call gives up: either its stores are as they were, ROLLBACK having come
\* before the document was written, or the fault has separated them.
LEMMA RollbackStepInv ==
  ASSUME IInv, StepInv, NEW s \in Sessions, End(s), UNCHANGED row,
         parted \subseteq parted',
         \A q \in Ids \ parted' : doc'[q] = doc[q],
         \/ w[s].pc \in {"index", "doc", "remove"}
         \/ w[s].id \in parted'
  PROVE  StepInv'
<1>1. /\ w'[s] = Idle /\ \A v \in Sessions \ {s} : w'[v] = w[v]
      /\ \A q \in Ids : lock'[q] = IF lock[q] = s THEN None ELSE lock[q]
      /\ \A q \in Ids : Shown(q)' = Shown(q)
  BY DEF End, IInv, TypeOK, Shown
<1>2. \A v \in Sessions : w[v].pc = "idle" \/ w[v].id \in Ids
  BY CatalogAssumption DEF CatalogAssumption, IInv, TypeOK, CallOK
<1>3. ASSUME NEW q \in Ids \ parted', lock'[q] = None
      PROVE  doc'[q] = Shown(q)'
  <2>1. CASE lock[q] = s
    <3>1. q = w[s].id
      BY <2>1, CatalogAssumption DEF IInv, LockOK, CatalogAssumption
    <3> QED BY <1>1, <3>1 DEF StepInv
  <2>2. CASE lock[q] # s
    BY <1>1, <1>3, <2>2 DEF StepInv
  <2> QED BY <2>1, <2>2
<1>4. ASSUME NEW v \in Sessions, NEW q \in Ids \ parted', q = w'[v].id
      PROVE  /\ w'[v].pc \in {"index", "doc", "remove"} => doc'[q] = Shown(q)'
             /\ w'[v].pc = "commit" => doc'[q] = w'[v].to
  BY <1>1, <1>4 DEF StepInv, Idle
<1> QED BY <1>1, <1>2, <1>3, <1>4 DEF StepInv, Idle

\* A transaction ends: its row is free again, and the document fits it unless
\* a fault has separated the two.
LEMMA EndStepInv ==
  ASSUME IInv, StepInv, NEW s \in Sessions,
         \/ IndexFail(s) \/ UpdateDocMissing(s) \/ UpdateDocFail(s)
         \/ RemoveMissing(s) \/ RemoveFail(s) \/ CommitFail(s)
  PROVE  StepInv'
<1>1. ASSUME NEW c, HookFail(s, c), w[s].pc \in {"index", "doc", "remove"}
      PROVE  StepInv'
  <2>1. /\ End(s) /\ UNCHANGED row /\ parted \subseteq parted'
        /\ \A q \in Ids \ parted' : doc'[q] = doc[q]
    BY <1>1 DEF HookFail, SetDoc, Part, IInv, TypeOK
  <2> QED BY <1>1, <2>1, RollbackStepInv
<1>2. CASE UpdateDocMissing(s) \/ RemoveMissing(s)
  BY <1>2, RollbackStepInv DEF UpdateDocMissing, RemoveMissing
<1>3. CASE CommitFail(s)
  BY <1>3, RollbackStepInv DEF CommitFail, Part
<1> QED BY <1>1, <1>2, <1>3 DEF IndexFail, UpdateDocFail, RemoveFail

\* A crash frees every row; those whose document was written and not
\* committed are parted.
LEMMA CrashStepInv == IInv /\ StepInv /\ Crash => StepInv'
<1> SUFFICES ASSUME IInv, StepInv, Crash PROVE StepInv'
  OBVIOUS
<1>1. /\ UNCHANGED <<row, doc>> /\ parted \subseteq parted'
      /\ \A v \in Sessions : w'[v] = Idle
      /\ \A v \in Sessions : w[v].pc = "commit" => w[v].id \in parted'
  BY DEF Crash, Part
<1>2. ASSUME NEW q \in Ids \ parted' PROVE doc[q] = Shown(q)
  <2>1. CASE lock[q] = None
    BY <1>1, <2>1 DEF StepInv
  <2>2. CASE lock[q] # None
    <3>1. PICK v \in Sessions : v = lock[q]
      BY <2>2 DEF IInv, TypeOK
    <3>2. w[v].id = q /\ w[v].pc \notin {"idle", "update"}
      BY <2>2, <3>1 DEF IInv, LockOK
    <3>3. w[v].pc \in {"index", "doc", "remove"}
      BY <1>1, <3>2 DEF IInv, TypeOK, Calls
    <3> QED BY <1>1, <3>2, <3>3 DEF StepInv
  <2> QED BY <2>1, <2>2
<1> QED BY <1>1, <1>2 DEF StepInv, Shown, Idle

\* The index shows of every product that is not being written what the table
\* says, unless a fault has separated its stores (the hooks write the document
\* while the row is locked).
THEOREM StoresAgree == Spec => []InStep
<1>1. IInv /\ StepInv /\ [Next]_vars => StepInv'
  <2>1. ASSUME IInv, StepInv, Next PROVE StepInv'
    BY <2>1, ForwardStepInv, CommitStepInv, EndStepInv, CrashStepInv DEF Next
  <2>2. ASSUME StepInv, UNCHANGED vars PROVE StepInv'
    BY <2>2 DEF StepInv, Shown, vars
  <2> QED BY <2>1, <2>2
<1>2. StepInv => InStep
  BY DEF StepInv, InStep, Shown
<1> QED BY <1>1, <1>2, InitStepInv, Invariant, PTL DEF Spec
=============================================================================
