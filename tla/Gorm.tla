-------------------------------- MODULE Gorm --------------------------------
(***************************************************************************)
(* Tables of goods_srv, user_srv, userop_srv and inventory_srv as handlers *)
(* see them through gorm (v1.25.10): First, Save and deletes, each         *)
(* a statement of its own, with nothing that ties two of them together.    *)
(*                                                                         *)
(* A row has a key (what a unique index is about, or who owns it) and two  *)
(* columns a and b that stand for the rest.  The row with id i is the i-th *)
(* of its table; a deleted row stays, "gone" is one deleted for good and   *)
(* "unseen" one whose INSERT has its id and no COMMIT.  Only a list read   *)
(* page by page tells that from an INSERT and its COMMIT in one step; the  *)
(* brands have it (Taxonomy.tla), the other tables do not.                 *)
(***************************************************************************)
EXTENDS Integers, Sequences

CONSTANTS Callers,
          Values,       \* what requests fill columns with
          Empty,        \* the empty string, or 0
          InitialRows,  \* the rows there are at the start
          MaxRequests, MaxFailures  \* bounds

ASSUME GormAssumption ==
  /\ Empty \notin Values
  /\ MaxRequests \in Nat /\ MaxFailures \in Nat

VARIABLES tables,
          call,   \* call[c]: the handler of c, and the row it will save
          calm,   \* history: no two calls have overlapped, none has failed
          requests, failures

gormVars == <<tables, call, calm, requests, failures>>

TableNames == {"brands", "categories", "category_brand", "banner",
               "user", "address", "userfav", "messages", "inventories"}

\* Mutant: the unique index on mobile is missing.
UniqueTablesNoMobile == {"category_brand", "userfav"}

\* Tables with a unique index; it also holds the rows that are soft-deleted.
UniqueTables == {"category_brand", "user", "userfav"}

NewRow(key, a, b) == [key |-> key, a |-> a, b |-> b, st |-> "live"]
Rest == [pc |-> "rest", table |-> "brands", id |-> 0,
         row |-> NewRow(Empty, Empty, Empty)]

GormInit ==
  /\ tables = InitialRows
  /\ call = [c \in Callers |-> Rest]
  /\ calm = TRUE
  /\ requests = 0 /\ failures = 0

-----------------------------------------------------------------------------
LiveRows(t) == {i \in DOMAIN tables[t] : tables[t][i].st = "live"}
WithKey(t, key) == {i \in LiveRows(t) : tables[t][i].key = key}

\* Some row other than i has the key in its unique index.
Clash(t, i, key) ==
  t \in UniqueTables /\
  \E j \in DOMAIN tables[t] \ {i} : tables[t][j].key = key /\ tables[t][j].st # "gone"

\* A request arrives while the other callers are at rest, or not.
Request(c) ==
  /\ call[c] = Rest
  /\ requests < MaxRequests /\ requests' = requests + 1
  /\ calm' = (calm /\ \A d \in Callers : call[d] = Rest)

\* A statement fails.
Failure == failures < MaxFailures /\ failures' = failures + 1 /\ calm' = FALSE

\* c's handler has what it will write, and goes on to pc.
Hold(c, pc, t, i, row) ==
  call' = [call EXCEPT ![c] = [pc |-> pc, table |-> t, id |-> i, row |-> row]]
Done(c) == call' = [call EXCEPT ![c] = Rest]
Write(t, rows) == tables' = [tables EXCEPT ![t] = rows]

\* Handlers of a single statement.
Insert(c, t, row) ==
  /\ Request(c)
  /\ Write(t, IF Clash(t, 0, row.key) THEN tables[t] ELSE Append(tables[t], row))
  /\ UNCHANGED <<call, failures>>

\* Deleted rows keep everything but their state.
DeleteRows(c, t, S, st) ==
  /\ S # {}
  /\ Request(c)
  /\ Write(t, [i \in DOMAIN tables[t] |->
                 IF i \in S THEN [tables[t][i] EXCEPT !.st = st] ELSE tables[t][i]])
  /\ UNCHANGED <<call, failures>>

-----------------------------------------------------------------------------
\* Save, once the handler is at it
AtSave(c) == call[c].pc = "save"

\* A row without an id is inserted, or refused by the unique index.
SaveInsert(c) ==
  /\ AtSave(c) /\ call[c].id = 0
  /\ LET t == call[c].table IN
     Write(t, IF Clash(t, 0, call[c].row.key) THEN tables[t]
              ELSE Append(tables[t], call[c].row))
  /\ Done(c)
  /\ UNCHANGED <<calm, requests, failures>>

\* Every column of row i.
Overwrite(c) ==
  LET t == call[c].table
      i == call[c].id
  IN Write(t, IF Clash(t, i, call[c].row.key) THEN tables[t]
              ELSE [tables[t] EXCEPT ![i] = call[c].row])

\* Otherwise the live row is updated,
SaveUpdate(c) ==
  /\ AtSave(c) /\ call[c].id \in LiveRows(call[c].table)
  /\ Overwrite(c)
  /\ Done(c)
  /\ UNCHANGED <<calm, requests, failures>>

\* and where that meets none, because the row was deleted since,
SaveMiss(c) ==
  /\ AtSave(c)
  /\ call[c].id \in DOMAIN tables[call[c].table] \ LiveRows(call[c].table)
  /\ call' = [call EXCEPT ![c].pc = "upsert"]
  /\ UNCHANGED <<tables, calm, requests, failures>>

\* Save inserts over the key, and the row lives again.
SaveUpsert(c) ==
  /\ call[c].pc = "upsert"
  /\ Overwrite(c)
  /\ Done(c)
  /\ UNCHANGED <<calm, requests, failures>>

\* A statement of a handler under way fails, and ends the handler.
StatementFail(c) ==
  /\ call[c].pc # "rest"
  /\ Failure
  /\ Done(c)
  /\ UNCHANGED <<tables, requests>>

Save(c) ==
  SaveInsert(c) \/ SaveUpdate(c) \/ SaveMiss(c) \/ SaveUpsert(c) \/ StatementFail(c)

-----------------------------------------------------------------------------
\* As long as calls come one after the other, what was deleted stays deleted:
\* Save's fallback to an insert brings a row back only for a handler that read
\* it before another one deleted it.
DeletedStays ==
  [][calm' => \A t \in TableNames : \A i \in DOMAIN tables[t] :
       tables[t][i].st \in {"deleted", "gone"} => tables'[t][i] = tables[t][i]]_gormVars
=============================================================================
