----------------------------- MODULE GormProofs -----------------------------
(***************************************************************************)
(* What handlers keep with gorm's First and Save, for any number of calls  *)
(* at once: users, addresses and favourites, and the rows of the stock.    *)
(***************************************************************************)
EXTENDS Profiles, StockRows, SequenceTheorems, FiniteSetTheorems, NaturalsInduction, TLAPS

\* The invariant, table by table.
UsersOK(rows) ==
  /\ rows \in Seq(ProfRow)
  /\ \A i \in DOMAIN rows : rows[i].st = "live" /\ Whole(rows[i])
  /\ \A i, j \in DOMAIN rows : rows[i].key = rows[j].key => i = j
AddressesOK(rows) ==
  rows \in Seq(ProfRow) /\ \A i \in DOMAIN rows : Whole(rows[i])
LiveKeys(rows) == {rows[i].key : i \in {k \in DOMAIN rows : rows[k].st = "live"}}
FavsOK(rows, want, lost) ==
  /\ rows \in Seq(ProfRow) /\ \A i \in DOMAIN rows : rows[i].st # "deleted"
  /\ LiveKeys(rows) \ lost = want \ lost
TablesOK ==
  /\ tables = [t \in TableNames |-> tables[t]]
  /\ UsersOK(tables["user"]) /\ AddressesOK(tables["address"])
  /\ FavsOK(tables["userfav"], wanted, failed)
  /\ tables["messages"] \in Seq(ProfRow)

ProfCall == [pc : {"rest", "save", "upsert"}, table : {"brands", "user", "address"},
             id : Nat, row : ProfRow]
CallsOK == /\ call \in [Callers -> ProfCall]
           /\ \A c \in Callers : HoldsOK(call[c])

LEMMA Parts == ProfInv <=> TablesOK /\ CallsOK
<1>1. ProfTables = {"user", "address", "userfav", "messages"}
  BY DEF ProfTables
<1>2. ProfTypeOK <=> /\ tables = [t \in TableNames |-> tables[t]]
                     /\ tables["user"] \in Seq(ProfRow) /\ tables["address"] \in Seq(ProfRow)
                     /\ tables["userfav"] \in Seq(ProfRow) /\ tables["messages"] \in Seq(ProfRow)
                     /\ call \in [Callers -> ProfCall]
  BY <1>1 DEF ProfTypeOK, ProfCall
<1>3. FavAsAsked <=> LiveKeys(tables["userfav"]) \ failed = wanted \ failed
  BY DEF FavAsAsked, LiveKeys, LiveRows
<1>4. RowsWhole <=> /\ \A i \in DOMAIN tables["user"] : Whole(tables["user"][i])
                    /\ \A i \in DOMAIN tables["address"] : Whole(tables["address"][i])
  BY DEF RowsWhole
<1>5. QED
  BY <1>2, <1>3, <1>4
     DEF ProfInv, TablesOK, CallsOK, UsersOK, AddressesOK, FavsOK, MobileOnce

LEMMA PartsNext == TablesOK' /\ CallsOK' => ProfInv'
BY Parts, PTL

-----------------------------------------------------------------------------
\* Tables

LEMMA ProfTableWrite ==
  ASSUME TablesOK, NEW t \in TableNames, NEW rows, Write(t, rows)
  PROVE  /\ tables' = [u \in TableNames |-> tables'[u]]
         /\ tables'[t] = rows
         /\ \A u \in TableNames : u # t => tables'[u] = tables[u]
BY DEF TablesOK, Write

LEMMA RowAppended ==
  ASSUME NEW rows \in Seq(ProfRow), NEW r \in ProfRow
  PROVE  /\ Append(rows, r) \in Seq(ProfRow)
         /\ DOMAIN Append(rows, r) = DOMAIN rows \cup {Len(rows) + 1}
         /\ Len(rows) + 1 \notin DOMAIN rows
         /\ Append(rows, r)[Len(rows) + 1] = r
         /\ \A i \in DOMAIN rows : Append(rows, r)[i] = rows[i]
OBVIOUS

LEMMA RowSet ==
  ASSUME NEW rows \in Seq(ProfRow), NEW r \in ProfRow, NEW i \in DOMAIN rows
  PROVE  /\ [rows EXCEPT ![i] = r] \in Seq(ProfRow)
         /\ DOMAIN [rows EXCEPT ![i] = r] = DOMAIN rows
         /\ [rows EXCEPT ![i] = r][i] = r
         /\ \A j \in DOMAIN rows : j # i => [rows EXCEPT ![i] = r][j] = rows[j]
OBVIOUS

\* What DeleteRows writes.
Mark(rows, S, st) ==
  [i \in DOMAIN rows |-> IF i \in S THEN [rows[i] EXCEPT !.st = st] ELSE rows[i]]

LEMMA RowsMarked ==
  ASSUME NEW rows \in Seq(ProfRow), NEW S, NEW st \in {"live", "deleted", "gone"},
         NEW new, new = Mark(rows, S, st)
  PROVE  /\ new \in Seq(ProfRow) /\ DOMAIN new = DOMAIN rows
         /\ \A i \in DOMAIN rows :
              /\ new[i].key = rows[i].key /\ new[i].a = rows[i].a /\ new[i].b = rows[i].b
              /\ new[i].st = IF i \in S THEN st ELSE rows[i].st
<1>1. ASSUME NEW i \in DOMAIN rows
      PROVE  /\ new[i] \in ProfRow
             /\ new[i].key = rows[i].key /\ new[i].a = rows[i].a /\ new[i].b = rows[i].b
             /\ new[i].st = IF i \in S THEN st ELSE rows[i].st
  <2>1. PICK r \in ProfRow : r = rows[i]
    OBVIOUS
  <2>2. new[i] = IF i \in S THEN [r EXCEPT !.st = st] ELSE r
    BY <2>1 DEF Mark
  <2>3. QED
    BY <2>1, <2>2 DEF ProfRow
<1>2. DOMAIN rows = 1..Len(rows) /\ Len(rows) \in Nat /\ DOMAIN new = DOMAIN rows
  BY DEF Mark
<1>3. new \in [1..Len(rows) -> ProfRow]
  BY <1>1, <1>2 DEF Mark
<1>4. new \in Seq(ProfRow)
  BY <1>2, <1>3, SeqDef
<1>5. QED
  BY <1>1, <1>2, <1>4

\* A user's row is written where no other row has its key.
LEMMA UserRow ==
  ASSUME NEW rows, UsersOK(rows), NEW r \in ProfRow, r.st = "live", Whole(r),
         NEW i, NEW new \in Seq(ProfRow),
         DOMAIN new = DOMAIN rows \cup {i}, new[i] = r,
         \A j \in DOMAIN rows : j # i => new[j] = rows[j] /\ rows[j].key # r.key
  PROVE  UsersOK(new)
BY DEF UsersOK

LEMMA AddressRow ==
  ASSUME NEW rows, AddressesOK(rows), NEW r, Whole(r),
         NEW i, NEW new \in Seq(ProfRow),
         DOMAIN new = DOMAIN rows \cup {i}, new[i] = r,
         \A j \in DOMAIN rows : j # i => new[j] = rows[j]
  PROVE  AddressesOK(new)
BY DEF AddressesOK

\* A handler goes on, and the others stay as they are, when tables grow.
LEMMA ProfCallStep ==
  ASSUME CallsOK, NEW c \in Callers, NEW x \in ProfCall, HoldsOK(x),
         call' = [call EXCEPT ![c] = x],
         \A t \in {"user", "address"} : DOMAIN tables[t] \subseteq DOMAIN tables'[t]
  PROVE  CallsOK'
<1>1. call' \in [Callers -> ProfCall]
  BY DEF CallsOK
<1>2. ASSUME NEW d \in Callers PROVE HoldsOK(call[d])'
  <2>1. PICK y : y = call'[d] /\ HoldsOK(y)
    BY DEF CallsOK
  <2>2. HoldsOK(y)'
    BY <2>1 DEF HoldsOK
  <2>3. QED
    BY <2>1, <2>2
<1>3. QED
  BY <1>1, <1>2 DEF CallsOK

-----------------------------------------------------------------------------
\* One table is written.

LEMMA UserWrite ==
  ASSUME TablesOK, NEW rows, Write("user", rows), UsersOK(rows), UNCHANGED profVars
  PROVE  TablesOK'
<1>1. "user" \in TableNames /\ {"address", "userfav", "messages"} \subseteq TableNames
  BY DEF TableNames
<1>2. /\ tables' = [u \in TableNames |-> tables'[u]] /\ tables'["user"] = rows
      /\ \A u \in {"address", "userfav", "messages"} : tables'[u] = tables[u]
  BY <1>1, ProfTableWrite
<1>3. QED
  BY <1>2 DEF TablesOK, profVars

LEMMA AddressWrite ==
  ASSUME TablesOK, NEW rows, Write("address", rows), AddressesOK(rows), UNCHANGED profVars
  PROVE  TablesOK'
<1>1. "address" \in TableNames /\ {"user", "userfav", "messages"} \subseteq TableNames
  BY DEF TableNames
<1>2. /\ tables' = [u \in TableNames |-> tables'[u]] /\ tables'["address"] = rows
      /\ \A u \in {"user", "userfav", "messages"} : tables'[u] = tables[u]
  BY <1>1, ProfTableWrite
<1>3. QED
  BY <1>2 DEF TablesOK, profVars

LEMMA FavWrite ==
  ASSUME TablesOK, NEW rows, Write("userfav", rows), FavsOK(rows, wanted', failed')
  PROVE  TablesOK' /\ \A t \in {"user", "address"} : tables'[t] = tables[t]
<1>1. "userfav" \in TableNames /\ {"address", "user", "messages"} \subseteq TableNames
  BY DEF TableNames
<1>2. /\ tables' = [u \in TableNames |-> tables'[u]] /\ tables'["userfav"] = rows
      /\ \A u \in {"address", "user", "messages"} : tables'[u] = tables[u]
  BY <1>1, ProfTableWrite
<1>3. QED
  BY <1>2 DEF TablesOK

-----------------------------------------------------------------------------
\* The handlers

\* A handler that found its row, or none, goes on to Save.
LEMMA HoldStep ==
  ASSUME ProfInv, NEW c \in Callers, NEW t \in {"user", "address"}, NEW i, NEW r \in ProfRow,
         Hold(c, "save", t, i, r), r.st = "live", Whole(r),
         i = 0 \/ i \in DOMAIN tables[t],
         UNCHANGED <<tables, profVars>>
  PROVE  ProfInv'
<1> DEFINE x == [pc |-> "save", table |-> t, id |-> i, row |-> r]
<1>1. TablesOK /\ CallsOK
  BY Parts
<1>2. tables[t] \in Seq(ProfRow)
  BY <1>1 DEF TablesOK, UsersOK, AddressesOK
<1>3. i \in Nat
  BY <1>2
<1>4. x \in ProfCall
  BY <1>3 DEF ProfCall
<1>5. HoldsOK(x) /\ call' = [call EXCEPT ![c] = x]
  BY DEF HoldsOK, Hold
<1> HIDE DEF x
<1>6. CallsOK'
  BY <1>1, <1>4, <1>5, ProfCallStep
<1>7. TablesOK'
  BY <1>1 DEF TablesOK, profVars
<1>8. QED
  BY <1>6, <1>7, PartsNext

\* A call that holds nothing back changes one table.
LEMMA CallsKept ==
  ASSUME CallsOK, UNCHANGED call,
         \A t \in {"user", "address"} : DOMAIN tables[t] \subseteq DOMAIN tables'[t]
  PROVE  CallsOK'
<1>1. ASSUME NEW d \in Callers PROVE HoldsOK(call[d])'
  <2>1. PICK y : y = call[d] /\ HoldsOK(y)
    BY DEF CallsOK
  <2>2. HoldsOK(y)'
    BY <2>1 DEF HoldsOK
  <2>3. QED
    BY <2>1, <2>2
<1>2. QED
  BY <1>1 DEF CallsOK

LEMMA AccountHolds ==
  ASSUME ProfInv, NEW c \in Callers, Account(c)
  PROVE  ProfInv'
<1>1. ASSUME NEW m \in Mobiles \cup {Empty}, NEW v \in Values,
             CreateUserFind(c, m, v) \/ CreateUserFindFail(c, m, v)
      PROVE  ProfInv'
  <2> DEFINE r == NewRow(m, <<m, v>>, Empty)
  <2>1. r \in ProfRow /\ r.st = "live" /\ Whole(r)
    BY DEF NewRow, ProfRow, ProfKeys, ProfCols, Whole, Field
  <2>2. Hold(c, "save", "user", 0, r) /\ UNCHANGED <<tables, profVars>>
    BY <1>1 DEF CreateUserFind, CreateUserFindFail
  <2> HIDE DEF r
  <2>3. QED
    BY <2>1, <2>2, HoldStep
<1>2. ASSUME NEW i \in DOMAIN tables["user"], NEW v \in Values,
             NEW a \in Field(tables["user"][i].key, v),
             NEW b \in Field(tables["user"][i].key, v), UpdateUserFind(c, i, a, b)
      PROVE  ProfInv'
  <2> DEFINE old == tables["user"][i]
             r == [old EXCEPT !.a = a, !.b = b]
  <2>1. old \in ProfRow /\ old.st = "live"
    BY Parts DEF TablesOK, UsersOK
  <2>2. old.key \in ProfKeys
    BY <2>1 DEF ProfRow
  <2>4. a \in ProfCols /\ b \in ProfCols
    BY <2>2 DEF Field, ProfCols
  <2>5. r \in ProfRow /\ r.st = "live" /\ r.a = a /\ r.b = b /\ r.key = old.key
    BY <2>1, <2>4 DEF ProfRow
  <2>6. Whole(r)
    BY <2>5 DEF Whole
  <2>7. Hold(c, "save", "user", i, r) /\ UNCHANGED <<tables, profVars>>
    BY <1>2 DEF UpdateUserFind
  <2> HIDE DEF old, r
  <2>8. QED
    BY <2>5, <2>6, <2>7, HoldStep
<1>3. QED
  BY <1>1, <1>2 DEF Account

LEMMA AddressHolds ==
  ASSUME ProfInv, NEW c \in Callers, Address(c)
  PROVE  ProfInv'
<1>1. TablesOK /\ CallsOK
  BY Parts
<1>2. PICK u \in Users :
        \/ \E v \in Values : \E a \in Field(u, v), b \in Field(u, v) :
             \/ CreateAddress(c, u, a, b)
             \/ \E i \in DOMAIN tables["address"] : UpdateAddressFind(c, i, u, a, b)
        \/ \E i \in DOMAIN tables["address"] : DeleteAddress(c, i, u)
  BY DEF Address
<1> DEFINE rows == tables["address"]
<1>3. rows \in Seq(ProfRow) /\ AddressesOK(rows)
  BY <1>1 DEF TablesOK, AddressesOK
<1>4. ASSUME NEW v \in Values, NEW a \in Field(u, v), NEW b \in Field(u, v),
             CreateAddress(c, u, a, b)
      PROVE  ProfInv'
  <2> DEFINE r == NewRow(u, a, b)
             new == IF Clash("address", 0, r.key) THEN rows ELSE Append(rows, r)
  <2>1. r \in ProfRow /\ Whole(r)
    BY DEF NewRow, ProfRow, ProfKeys, ProfCols, Whole, Field
  <2>2. Write("address", new) /\ UNCHANGED <<call, profVars>>
    BY <1>4 DEF CreateAddress, Insert
  <2> HIDE DEF r
  <2>3. AddressesOK(Append(rows, r)) /\ DOMAIN rows \subseteq DOMAIN Append(rows, r)
    <3> DEFINE app == Append(rows, r)
    <3>1. /\ app \in Seq(ProfRow) /\ DOMAIN app = DOMAIN rows \cup {Len(rows) + 1}
          /\ app[Len(rows) + 1] = r /\ \A i \in DOMAIN rows : app[i] = rows[i]
      BY <1>3, <2>1, RowAppended
    <3> HIDE DEF app, rows
    <3>2. AddressesOK(app)
      BY <1>3, <2>1, <3>1, AddressRow
    <3>3. QED
      BY <3>1, <3>2 DEF app
  <2>4. AddressesOK(new) /\ DOMAIN rows \subseteq DOMAIN new
    BY <1>3, <2>3
  <2> HIDE DEF new
  <2>5. TablesOK'
    BY <1>1, <2>2, <2>4, AddressWrite
  <2>6. tables'["address"] = new /\ tables'["user"] = tables["user"]
    BY <1>1, <2>2, ProfTableWrite DEF TableNames
  <2>7. CallsOK'
    BY <1>1, <2>2, <2>4, <2>6, CallsKept
  <2>8. QED
    BY <2>5, <2>7, PartsNext
<1>5. ASSUME NEW v \in Values, NEW a \in Field(u, v), NEW b \in Field(u, v),
             NEW i \in DOMAIN tables["address"], UpdateAddressFind(c, i, u, a, b)
      PROVE  ProfInv'
  <2> DEFINE old == rows[i]
             r == [old EXCEPT !.a = IF @ # Empty THEN a ELSE @,
                              !.b = IF @ # Empty THEN b ELSE @]
  <2>1. old \in ProfRow /\ old.key = u /\ old.st = "live"
    BY <1>3, <1>5 DEF UpdateAddressFind, WithKey, LiveRows
  <2>2. u \in ProfKeys /\ a \in ProfCols /\ b \in ProfCols
    BY DEF ProfKeys, ProfCols, Field
  <2>3. /\ r \in ProfRow /\ r.st = "live" /\ r.key = u
        /\ r.a \in {a, Empty} /\ r.b \in {b, Empty}
    BY <2>1, <2>2 DEF ProfRow
  <2>4. Hold(c, "save", "address", i, r) /\ UNCHANGED <<tables, profVars>>
    BY <1>5 DEF UpdateAddressFind
  <2> HIDE DEF old, r
  <2>5. Whole(r)
    BY <2>3 DEF Whole, Field
  <2>6. QED
    BY <2>3, <2>4, <2>5, HoldStep
<1>6. ASSUME NEW i \in DOMAIN tables["address"], DeleteAddress(c, i, u)
      PROVE  ProfInv'
  <2> DEFINE S == {i} \cap WithKey("address", u)
             new == Mark(rows, S, "deleted")
  <2>1. Write("address", new) /\ UNCHANGED <<call, profVars>>
    BY <1>6 DEF DeleteAddress, DeleteRows, Mark
  <2> HIDE DEF S
  <2>2. new \in Seq(ProfRow) /\ DOMAIN new = DOMAIN rows
        /\ \A j \in DOMAIN rows : /\ new[j].key = rows[j].key
                                  /\ new[j].a = rows[j].a /\ new[j].b = rows[j].b
    BY <1>3, RowsMarked
  <2> HIDE DEF new
  <2>4. AddressesOK(new)
    BY <1>3, <2>2 DEF AddressesOK, Whole
  <2>5. TablesOK'
    BY <1>1, <2>1, <2>4, AddressWrite
  <2>6. tables'["address"] = new /\ tables'["user"] = tables["user"]
    BY <1>1, <2>1, ProfTableWrite DEF TableNames
  <2>7. CallsOK'
    BY <1>1, <2>1, <2>2, <2>6, CallsKept
  <2>8. QED
    BY <2>5, <2>7, PartsNext
<1>7. QED
  BY <1>2, <1>4, <1>5, <1>6

LEMMA FavouriteHolds ==
  ASSUME ProfInv, NEW c \in Callers, Favourite(c)
  PROVE  ProfInv'
<1>1. TablesOK /\ CallsOK
  BY Parts
<1>2. PICK u \in Users, g \in FavGoods :
        \/ AddUserFav(c, u, g) \/ AddUserFavFail(c, u, g)
        \/ DeleteUserFav(c, u, g) \/ DeleteUserFavNone(c, u, g)
        \/ DeleteUserFavFail(c, u, g)
  BY DEF Favourite
<1> DEFINE rows == tables["userfav"]
           k == <<u, g>>
<1>3. rows \in Seq(ProfRow) /\ FavsOK(rows, wanted, failed)
  BY <1>1 DEF TablesOK, FavsOK
<1>4. CASE AddUserFav(c, u, g)
  <2> DEFINE r == NewRow(k, Empty, Empty)
             new == IF Clash("userfav", 0, k) THEN rows ELSE Append(rows, r)
  <2>1. r \in ProfRow /\ r.key = k /\ r.st = "live"
    BY DEF NewRow, ProfRow, ProfKeys, ProfCols
  <2>2. /\ Write("userfav", new) /\ UNCHANGED call
        /\ wanted' = wanted \cup {k} /\ failed' = failed \ {k}
    BY <1>4, <2>1 DEF AddUserFav, Insert
  <2> HIDE DEF r
  <2>3. LiveKeys(new) = LiveKeys(rows) \cup {k} /\ new \in Seq(ProfRow)
        /\ \A i \in DOMAIN new : new[i].st # "deleted"
    <3>1. CASE Clash("userfav", 0, k)
      <4>1. PICK j \in DOMAIN rows : rows[j].key = k /\ rows[j].st # "gone"
        BY <3>1 DEF Clash
      <4>2. rows[j].st = "live"
        <5>1. PICK x \in ProfRow : x = rows[j]
          BY <1>3
        <5>2. x.st \in {"live", "deleted", "gone"} /\ x.st # "deleted" /\ x.st # "gone"
          BY <1>3, <4>1, <5>1 DEF FavsOK, ProfRow
        <5>3. QED
          BY <5>1, <5>2
      <4>3. k \in LiveKeys(rows)
        BY <4>1, <4>2 DEF LiveKeys
      <4>4. QED
        BY <1>3, <3>1, <4>3 DEF FavsOK
    <3>2. CASE ~Clash("userfav", 0, k)
      <4> DEFINE app == Append(rows, r)
      <4>1. /\ app \in Seq(ProfRow) /\ DOMAIN app = DOMAIN rows \cup {Len(rows) + 1}
            /\ app[Len(rows) + 1] = r /\ Len(rows) + 1 \notin DOMAIN rows
            /\ \A i \in DOMAIN rows : app[i] = rows[i]
        BY <1>3, <2>1, RowAppended
      <4>2. new = app
        BY <3>2
      <4> HIDE DEF app, rows, new
      <4>3. LiveKeys(app) = LiveKeys(rows) \cup {k}
        <5>1. r.key = k /\ r.st = "live"
          BY <2>1
        <5>2. k \in LiveKeys(app)
          BY <4>1, <5>1 DEF LiveKeys
        <5>3. ASSUME NEW x \in LiveKeys(rows) PROVE x \in LiveKeys(app)
          BY <4>1, <5>3 DEF LiveKeys
        <5>4. ASSUME NEW x \in LiveKeys(app), x # k PROVE x \in LiveKeys(rows)
          BY <4>1, <5>1, <5>4 DEF LiveKeys
        <5>5. QED
          BY <5>2, <5>3, <5>4
      <4>4. \A i \in DOMAIN app : app[i].st # "deleted"
        BY <1>3, <2>1, <4>1 DEF FavsOK
      <4>5. QED
        BY <4>1, <4>2, <4>3, <4>4
    <3>3. QED
      BY <3>1, <3>2
  <2> HIDE DEF new, rows
  <2>4. FavsOK(new, wanted', failed')
    BY <1>3, <2>2, <2>3 DEF FavsOK
  <2>5. TablesOK' /\ CallsOK'
    BY <1>1, <2>2, <2>4, FavWrite, CallsKept
  <2>6. QED
    BY <2>5, PartsNext
<1>5. CASE AddUserFavFail(c, u, g)
  <2>1. /\ UNCHANGED <<tables, call>>
        /\ wanted' = wanted \cup {k} /\ failed' = failed \cup {k}
    BY <1>5 DEF AddUserFavFail
  <2>2. FavsOK(rows, wanted', failed')
    BY <1>3, <2>1 DEF FavsOK
  <2>3. TablesOK'
    BY <1>1, <2>1, <2>2 DEF TablesOK
  <2>4. CallsOK'
    BY <1>1, <2>1, CallsKept
  <2>5. QED
    BY <2>3, <2>4, PartsNext
<1>6. CASE DeleteUserFav(c, u, g)
  <2> DEFINE S == WithKey("userfav", k)
             new == Mark(rows, S, "gone")
  <2>1. /\ Write("userfav", new) /\ UNCHANGED call
        /\ wanted' = wanted \ {k} /\ failed' = failed \ {k}
    BY <1>6 DEF DeleteUserFav, DeleteRows, Mark
  <2>2. \A i : i \in S <=> i \in DOMAIN rows /\ rows[i].key = k /\ rows[i].st = "live"
    BY DEF WithKey, LiveRows
  <2> HIDE DEF S
  <2>3. /\ new \in Seq(ProfRow) /\ DOMAIN new = DOMAIN rows
        /\ \A i \in DOMAIN rows : /\ new[i].key = rows[i].key
                                  /\ new[i].st = IF i \in S THEN "gone" ELSE rows[i].st
    BY <1>3, RowsMarked
  <2> HIDE DEF new, rows, k
  <2>4. LiveKeys(new) = LiveKeys(rows) \ {k}
    BY <2>2, <2>3 DEF LiveKeys
  <2>5. FavsOK(new, wanted', failed')
    BY <1>3, <2>1, <2>3, <2>4 DEF FavsOK
  <2>6. TablesOK' /\ CallsOK'
    BY <1>1, <2>1, <2>5, FavWrite, CallsKept
  <2>7. QED
    BY <2>6, PartsNext
<1>7. CASE DeleteUserFavNone(c, u, g) \/ DeleteUserFavFail(c, u, g)
  <2>1. /\ UNCHANGED <<tables, call>> /\ wanted' = wanted \ {k}
        /\ \/ failed' = failed \cup {k}
           \/ failed' = failed \ {k} /\ WithKey("userfav", k) = {}
    BY <1>7 DEF DeleteUserFavNone, DeleteUserFavFail
  <2>2. WithKey("userfav", k) = {} => k \notin LiveKeys(rows)
    BY DEF WithKey, LiveRows, LiveKeys
  <2> HIDE DEF k
  <2>3. FavsOK(rows, wanted', failed')
    BY <1>3, <2>1, <2>2 DEF FavsOK
  <2>4. TablesOK'
    BY <1>1, <2>1, <2>3 DEF TablesOK
  <2>5. CallsOK'
    BY <1>1, <2>1, CallsKept
  <2>6. QED
    BY <2>4, <2>5, PartsNext
<1>8. QED
  BY <1>2, <1>4, <1>5, <1>6, <1>7

LEMMA MessageHolds ==
  ASSUME ProfInv, NEW c \in Callers, NEW u \in Users, CreateMessage(c, u)
  PROVE  ProfInv'
<1>1. TablesOK /\ CallsOK
  BY Parts
<1> DEFINE rows == tables["messages"]
           r == NewRow(u, Empty, Empty)
           new == IF Clash("messages", 0, r.key) THEN rows ELSE Append(rows, r)
<1>2. r \in ProfRow /\ rows \in Seq(ProfRow)
  BY <1>1 DEF NewRow, ProfRow, ProfKeys, ProfCols, TablesOK
<1>3. Write("messages", new) /\ UNCHANGED <<call, profVars>>
  BY DEF CreateMessage, Insert
<1> HIDE DEF r
<1>4. new \in Seq(ProfRow)
  BY <1>2
<1> HIDE DEF new
<1>5. /\ tables' = [t \in TableNames |-> tables'[t]] /\ tables'["messages"] = new
      /\ \A t \in {"user", "address", "userfav"} : tables'[t] = tables[t]
  BY <1>1, <1>3, ProfTableWrite DEF TableNames
<1>6. TablesOK'
  BY <1>1, <1>3, <1>4, <1>5 DEF TablesOK, profVars
<1>7. CallsOK'
  BY <1>1, <1>3, <1>5, CallsKept
<1>8. QED
  BY <1>6, <1>7, PartsNext

\* Save writes one whole row: at the end of its table, or over row i.
LEMMA SaveRow ==
  ASSUME ProfInv, NEW t \in {"user", "address"}, NEW r \in ProfRow,
         r.st = "live", Whole(r), NEW i, NEW new, Write(t, new), UNCHANGED profVars,
         \/ new = tables[t]
         \/ ~Clash(t, 0, r.key) /\ new = Append(tables[t], r)
         \/ i \in DOMAIN tables[t] /\ ~Clash(t, i, r.key) /\ new = [tables[t] EXCEPT ![i] = r]
  PROVE  /\ TablesOK'
         /\ \A u \in {"user", "address"} : DOMAIN tables[u] \subseteq DOMAIN tables'[u]
<1> DEFINE rows == tables[t]
<1>1. TablesOK
  BY Parts
<1>2. rows \in Seq(ProfRow) /\ (t = "user" => UsersOK(rows))
      /\ (t = "address" => AddressesOK(rows))
  BY <1>1 DEF TablesOK, UsersOK, AddressesOK
<1>3. CASE new = rows
  <2>1. tables' = tables
    BY <1>1, <1>3 DEF TablesOK, Write, TableNames
  <2>2. QED
    BY <1>1, <2>1 DEF TablesOK, profVars
<1>4. CASE new # rows
  <2>1. PICK k :
          /\ new \in Seq(ProfRow) /\ DOMAIN new = DOMAIN rows \cup {k} /\ new[k] = r
          /\ \A j \in DOMAIN rows : j # k => new[j] = rows[j]
          /\ ~Clash(t, 0, r.key) \/ (k \in DOMAIN rows /\ ~Clash(t, k, r.key))
    <3> HIDE DEF rows
    <3>1. CASE ~Clash(t, 0, r.key) /\ new = Append(rows, r)
      BY <1>2, <3>1, RowAppended
    <3>2. CASE i \in DOMAIN rows /\ ~Clash(t, i, r.key) /\ new = [rows EXCEPT ![i] = r]
      <4>1. /\ new \in Seq(ProfRow) /\ DOMAIN new = DOMAIN rows /\ new[i] = r
            /\ \A j \in DOMAIN rows : j # i => new[j] = rows[j]
        BY <1>2, <3>2, RowSet
      <4>2. DOMAIN new = DOMAIN rows \cup {i}
        BY <3>2, <4>1
      <4>3. QED
        BY <3>2, <4>1, <4>2
    <3>3. QED
      BY <1>4, <3>1, <3>2 DEF rows
  <2>2. CASE t = "user"
    <3>1. ASSUME NEW j \in DOMAIN rows, j # k PROVE rows[j].key # r.key
      <4>1. rows[j].st # "gone" /\ j # 0
        BY <1>2, <2>2 DEF UsersOK
      <4>2. QED
        BY <2>1, <2>2, <3>1, <4>1 DEF Clash, UniqueTables
    <3> HIDE DEF rows
    <3>2. UsersOK(new)
      BY <1>2, <2>1, <2>2, <3>1, UserRow
    <3>3. TablesOK'
      BY <1>1, <2>2, <3>2, UserWrite
    <3>4. tables'["user"] = new /\ tables'["address"] = tables["address"]
      BY <1>1, <2>2, ProfTableWrite DEF TableNames
    <3>5. QED
      BY <2>1, <2>2, <3>3, <3>4 DEF rows
  <2>3. CASE t = "address"
    <3> HIDE DEF rows
    <3>1. AddressesOK(new)
      BY <1>2, <2>1, <2>3, AddressRow
    <3>2. TablesOK'
      BY <1>1, <2>3, <3>1, AddressWrite
    <3>3. tables'["address"] = new /\ tables'["user"] = tables["user"]
      BY <1>1, <2>3, ProfTableWrite DEF TableNames
    <3>4. QED
      BY <2>1, <2>3, <3>2, <3>3 DEF rows
  <2>4. QED
    BY <2>2, <2>3
<1>5. QED
  BY <1>3, <1>4

LEMMA ProfSaveHolds ==
  ASSUME ProfInv, NEW c \in Callers, Save(c), UNCHANGED profVars
  PROVE  ProfInv'
<1> DEFINE t == call[c].table
           r == call[c].row
           i == call[c].id
<1>1. TablesOK /\ CallsOK
  BY Parts
<1>2. call[c] \in ProfCall /\ HoldsOK(call[c])
  BY <1>1 DEF CallsOK
<1>3. call[c].pc # "rest"
  BY DEF Save, SaveInsert, SaveUpdate, SaveMiss, SaveUpsert, StatementFail, AtSave
<1>4. /\ t \in {"user", "address"} /\ r \in ProfRow /\ r.st = "live" /\ Whole(r)
      /\ i = 0 \/ i \in DOMAIN tables[t]
  BY <1>2, <1>3 DEF HoldsOK, ProfCall
<1>5. Rest \in ProfCall /\ HoldsOK(Rest)
  BY DEF Rest, NewRow, ProfCall, ProfRow, ProfKeys, ProfCols, HoldsOK
<1>6. ASSUME NEW new, Write(t, new), Done(c),
             \/ new = tables[t]
             \/ ~Clash(t, 0, r.key) /\ new = Append(tables[t], r)
             \/ i \in DOMAIN tables[t] /\ ~Clash(t, i, r.key)
                /\ new = [tables[t] EXCEPT ![i] = r]
      PROVE  ProfInv'
  <2> HIDE DEF t, r, i
  <2>1. /\ TablesOK'
        /\ \A u \in {"user", "address"} : DOMAIN tables[u] \subseteq DOMAIN tables'[u]
    BY <1>4, <1>6, SaveRow
  <2>2. CallsOK'
    BY <1>1, <1>5, <1>6, <2>1, ProfCallStep DEF Done
  <2>3. QED
    BY <2>1, <2>2, PartsNext
<1>7. CASE SaveInsert(c)
  <2> DEFINE new == IF Clash(t, 0, r.key) THEN tables[t] ELSE Append(tables[t], r)
  <2>1. Write(t, new) /\ Done(c)
    BY <1>7 DEF SaveInsert
  <2>2. new = tables[t] \/ (~Clash(t, 0, r.key) /\ new = Append(tables[t], r))
    OBVIOUS
  <2> HIDE DEF new, t, r, i
  <2>3. QED
    BY <1>6, <2>1, <2>2
<1>8. CASE SaveUpdate(c) \/ SaveUpsert(c)
  <2> DEFINE new == IF Clash(t, i, r.key) THEN tables[t] ELSE [tables[t] EXCEPT ![i] = r]
  <2>1. Write(t, new) /\ Done(c)
    BY <1>8 DEF SaveUpdate, SaveUpsert, Overwrite
  <2>2. \/ new = tables[t]
        \/ i \in DOMAIN tables[t] /\ ~Clash(t, i, r.key)
           /\ new = [tables[t] EXCEPT ![i] = r]
    <3>1. CASE i \in DOMAIN tables[t]
      BY <3>1
    <3>2. CASE i \notin DOMAIN tables[t]
      <4>1. tables[t] \in Seq(ProfRow)
        BY <1>1, <1>4 DEF TablesOK, UsersOK, AddressesOK
      <4>2. [tables[t] EXCEPT ![i] = r] = tables[t]
        BY <3>2, <4>1
      <4>3. QED
        BY <4>2
    <3>3. QED
      BY <3>1, <3>2
  <2> HIDE DEF new, t, r, i
  <2>3. QED
    BY <1>6, <2>1, <2>2
<1>9. CASE SaveMiss(c) \/ StatementFail(c)
  <2>1. PICK x \in {Rest, [call[c] EXCEPT !.pc = "upsert"]} :
          call' = [call EXCEPT ![c] = x] /\ UNCHANGED tables
    BY <1>9 DEF SaveMiss, StatementFail, Done
  <2>2. x \in ProfCall /\ HoldsOK(x)
    BY <1>2, <1>3, <1>5, <2>1 DEF HoldsOK, ProfCall
  <2>3. CallsOK'
    BY <1>1, <2>1, <2>2, ProfCallStep
  <2>4. TablesOK'
    BY <1>1, <2>1 DEF TablesOK, profVars
  <2>5. QED
    BY <2>3, <2>4, PartsNext
<1>10. QED
  BY <1>7, <1>8, <1>9 DEF Save

LEMMA ProfInitHolds == ASSUME GormInit, ProfInit PROVE ProfInv
<1>1. TablesOK
  <2>1. tables = InitialRows /\ wanted = {} /\ failed = {}
    BY DEF GormInit, ProfInit
  <2>2. tables = [t \in TableNames |-> tables[t]]
    BY <2>1, ProfilesAssumption
  <2>3. \A t \in {"user", "address", "userfav", "messages"} : tables[t] \in Seq(ProfRow)
    BY <2>1, ProfilesAssumption DEF ProfTables
  <2>4. UsersOK(tables["user"])
    BY <2>1, <2>3, ProfilesAssumption DEF UsersOK
  <2>5. AddressesOK(tables["address"])
    BY <2>1, <2>3, ProfilesAssumption DEF AddressesOK
  <2>6. tables["userfav"] = <<>>
    BY <2>1, ProfilesAssumption
  <2>7. FavsOK(tables["userfav"], wanted, failed)
    BY <2>1, <2>3, <2>6 DEF FavsOK, LiveKeys
  <2>8. QED
    BY <2>2, <2>3, <2>4, <2>5, <2>7 DEF TablesOK
<1>2. CallsOK
  BY DEF GormInit, CallsOK, Rest, NewRow, ProfCall, ProfRow, ProfKeys, ProfCols, HoldsOK
<1>3. QED
  BY <1>1, <1>2, Parts

LEMMA ProfNextHolds == ASSUME ProfInv, ProfNext PROVE ProfInv'
BY AccountHolds, AddressHolds, FavouriteHolds, MessageHolds, ProfSaveHolds DEF ProfNext

LEMMA ProfRests == ASSUME ProfInv, UNCHANGED <<gormVars, profVars>> PROVE ProfInv'
<1>1. TablesOK /\ CallsOK /\ UNCHANGED <<tables, call, wanted, failed>>
  BY Parts DEF gormVars, profVars
<1>2. CallsOK'
  BY <1>1, CallsKept
<1>3. TablesOK'
  BY <1>1 DEF TablesOK
<1>4. QED
  BY <1>2, <1>3, PartsNext

-----------------------------------------------------------------------------
\* Theorems about users, addresses and favourites

\* The inductive invariant: rows are well-formed and whole, mobiles distinct,
\* favourites as asked for, and what a handler is about to save is whole.
THEOREM ProfilesInvariant == ProfSpec => []ProfInv
BY ProfInitHolds, ProfNextHolds, ProfRests, PTL DEF ProfSpec

\* A mobile belongs to one user, whatever calls of CreateUser and UpdateUser
\* overlap (the unique index of user_srv/model/user.go).
THEOREM MobilesAreUnique == ProfSpec => []MobileOnce
<1>1. ProfInv => MobileOnce
  BY DEF ProfInv
<1>2. QED
  BY <1>1, ProfilesInvariant, PTL

\* Profiles and addresses are never a mixture of two requests (UpdateUser,
\* UpdateAddress).
THEOREM RowsStayWhole == ProfSpec => []RowsWhole
<1>1. ProfInv => RowsWhole
  BY DEF ProfInv
<1>2. QED
  BY <1>1, ProfilesInvariant, PTL

\* Favourites are there if and only if asked for last, but for those whose last
\* INSERT or DELETE failed (AddUserFav, DeleteUserFav).
THEOREM FavouritesAsAsked == ProfSpec => []FavAsAsked
<1>1. ProfInv => FavAsAsked
  BY DEF ProfInv
<1>2. QED
  BY <1>1, ProfilesInvariant, PTL

-----------------------------------------------------------------------------
\* Rows of the stock

StockCall == [pc : {"rest", "save"}, table : {"brands", "inventories"},
              id : Nat, row : StockRow \cup {Rest.row}]
Sale == [goods : StockGoods \cup {Empty}, num : Nat, status : 0..2]

LEMMA LeastNumber ==
  ASSUME NEW S \in SUBSET Nat, S # {}
  PROVE  \E i \in S : \A j \in S : i <= j
<1> DEFINE R == OpToRel(<, Nat)
<1>1. IsWellFoundedOn(R, Nat)
  BY NatLessThanWellFounded
<1>2. \A i, j \in Nat : i < j => <<i, j>> \in R
  BY DEF OpToRel
<1> HIDE DEF R
<1>3. PICK i \in S : \A j \in S : <<j, i>> \notin R
  BY <1>1, WFMin
<1>4. \A j \in S : i <= j
  <2> SUFFICES ASSUME NEW j \in S PROVE i <= j
    OBVIOUS
  <2>1. i \in Nat /\ j \in Nat /\ ~(j < i)
    BY <1>2, <1>3
  <2>2. QED
    BY <2>1
<1>5. QED
  BY <1>4

LEMMA StockFacts ==
  ASSUME StockTypeOK
  PROVE  /\ Len(tables["inventories"]) \in Nat
         /\ DOMAIN tables["inventories"] = 1..Len(tables["inventories"])
         /\ \A i \in DOMAIN tables["inventories"] : tables["inventories"][i] \in StockRow
         /\ \A g : RowsOf(g) = {i \in DOMAIN tables["inventories"] : tables["inventories"][i].key = g}
<1>1. tables["inventories"] \in Seq(StockRow)
  BY DEF StockTypeOK
<1> DEFINE rows == tables["inventories"]
<1>2. /\ Len(rows) \in Nat /\ DOMAIN rows = 1..Len(rows)
      /\ \A i \in DOMAIN rows : rows[i] \in StockRow
  BY <1>1
<1>3. \A r \in StockRow : r.st = "live"
  BY DEF StockRow
<1>4. QED
  BY <1>2, <1>3 DEF RowsOf, WithKey, LiveRows

LEMMA StockFactsNext ==
  ASSUME StockTypeOK'
  PROVE  \A g : RowsOf(g)' = {i \in DOMAIN tables'["inventories"] : tables'["inventories"][i].key = g}
<1>1. \A i \in DOMAIN tables'["inventories"] : tables'["inventories"][i].st = "live"
  <2>1. tables'["inventories"] \in Seq(StockRow)
    BY DEF StockTypeOK, StockRow
  <2>2. \A i \in DOMAIN tables'["inventories"] : tables'["inventories"][i] \in StockRow
    BY <2>1
  <2>3. \A r \in StockRow : r.st = "live"
    BY DEF StockRow
  <2>4. QED
    BY <2>2, <2>3
<1>2. QED
  BY <1>1 DEF RowsOf, WithKey, LiveRows

LEMMA FirstRowFacts ==
  ASSUME StockTypeOK, NEW g
  PROVE  /\ RowsOf(g) = {} => FirstRow(g) = 0
         /\ RowsOf(g) # {} => FirstRow(g) \in RowsOf(g)
         /\ FirstRow(g) \in Nat
<1>1. RowsOf(g) \in SUBSET Nat
  BY StockFacts
<1>2. RowsOf(g) # {} => FirstRow(g) \in RowsOf(g)
  BY <1>1, LeastNumber DEF FirstRow
<1>3. RowsOf(g) = {} => FirstRow(g) = 0
  BY DEF FirstRow
<1>4. QED
  BY <1>1, <1>2, <1>3

\* Sales and returns: n pieces of g, on rows S.
LEMMA CountHolds ==
  ASSUME StockRowsInv, NEW g \in StockGoods, NEW S \in SUBSET RowsOf(g), NEW n \in Int,
         AddTo(S, n), Count(g, n), \A i \in S : StockOf(i) + n \in Nat,
         calm => S = RowsOf(g), UNCHANGED <<call, calm>>,
         sale' \in [Callers -> Sale],
         \A c \in Callers : sale'[c].status = 1 => sale'[c].goods \in StockGoods
  PROVE  StockRowsInv'
<1> DEFINE rows == tables["inventories"]
           next == tables'["inventories"]
<1>1. StockTypeOK
  BY DEF StockRowsInv
<1>2. /\ next = [i \in DOMAIN rows |-> IF i \in S THEN [rows[i] EXCEPT !.a = @ + n] ELSE rows[i]]
      /\ tables' = [t \in TableNames |-> tables'[t]]
  BY <1>1 DEF AddTo, Write, StockTypeOK, TableNames
<1>3. Len(rows) \in Nat /\ DOMAIN rows = 1..Len(rows)
  BY <1>1, StockFacts
<1>4. ASSUME NEW i \in DOMAIN rows
      PROVE  /\ next[i] \in StockRow /\ next[i].key = rows[i].key
             /\ next[i].a = IF i \in S THEN rows[i].a + n ELSE rows[i].a
  <2>1. PICK r \in StockRow : r = rows[i]
    BY <1>1, StockFacts
  <2>2. next[i] = IF i \in S THEN [r EXCEPT !.a = @ + n] ELSE r
    BY <1>2, <2>1
  <2>3. i \in S => r.a + n \in Nat
    BY <2>1 DEF StockOf
  <2>4. QED
    BY <2>1, <2>2, <2>3 DEF StockRow
<1>5. DOMAIN next = DOMAIN rows
  BY <1>2
<1>6. next \in Seq(StockRow)
  <2>1. next \in [1..Len(rows) -> StockRow]
    <3>1. next = [i \in 1..Len(rows) |-> next[i]]
      BY <1>2, <1>3
    <3>2. QED
      BY <1>3, <1>4, <3>1
  <2>2. QED
    BY <1>3, <2>1, SeqDef
<1>7. counted' \in [StockGoods -> Int] /\ counted'[g] = counted[g] + n
      /\ \A h \in StockGoods : h # g => counted'[h] = counted[h]
  BY <1>1 DEF Count, StockTypeOK
<1>8. StockTypeOK'
  BY <1>1, <1>2, <1>6, <1>7 DEF StockTypeOK, Rest, NewRow, StockRow, Sale
<1>9. ASSUME NEW h PROVE RowsOf(h)' = RowsOf(h)
  <2>1. RowsOf(h) = {i \in DOMAIN rows : rows[i].key = h}
    BY <1>1, StockFacts
  <2>2. RowsOf(h)' = {i \in DOMAIN next : next[i].key = h}
    BY <1>8, StockFactsNext
  <2>3. \A i \in DOMAIN rows : next[i].key = rows[i].key
    BY <1>4
  <2>4. QED
    BY <1>5, <2>1, <2>2, <2>3
<1>10. \A c \in Callers : SetInvOK(call[c])' /\ (call'[c].pc = "rest" => call'[c] = Rest)
  BY <1>9 DEF StockRowsInv, SetInvOK
<1>11. ASSUME calm' PROVE SetInvAlone'
  <2>1. SetInvAlone /\ S = RowsOf(g)
    BY <1>11 DEF StockRowsInv
  <2>2. ASSUME NEW h \in StockGoods, NEW i \in RowsOf(h), NEW j \in RowsOf(h)
        PROVE  i = j /\ next[i].a = counted'[h]
    <3>1. i = j /\ rows[i].a = counted[h] /\ i \in DOMAIN rows /\ rows[i].key = h
      BY <1>1, <2>1, StockFacts DEF SetInvAlone, StockOf
    <3>2. i \in S <=> h = g
      BY <1>1, <2>1, <3>1, StockFacts
    <3>3. next[i].a = IF i \in S THEN rows[i].a + n ELSE rows[i].a
      BY <1>4, <3>1
    <3>4. QED
      BY <1>7, <3>1, <3>2, <3>3
  <2>3. QED
    BY <1>9, <2>1, <2>2 DEF SetInvAlone, StockOf
<1>12. QED
  BY <1>8, <1>10, <1>11 DEF StockRowsInv, Rest, NewRow

LEMMA SellHolds ==
  ASSUME StockRowsInv, NEW c \in Callers, NEW g \in StockGoods, NEW n \in Amounts, Sell(c, g, n)
  PROVE  StockRowsInv'
<1> DEFINE S == {i \in RowsOf(g) : StockOf(i) - n > 0}
<1>1. StockTypeOK /\ n \in Nat /\ -n \in Int
  BY StockRowsAssumption DEF StockRowsInv
<1>2. /\ S # {} /\ AddTo(S, -n) /\ Count(g, -n) /\ UNCHANGED <<call, calm>>
      /\ sale' = [sale EXCEPT ![c] = [goods |-> g, num |-> n, status |-> 1]]
  BY DEF Sell
<1>3. \A i \in S : StockOf(i) + (-n) \in Nat
  <2>1. \A i \in S : StockOf(i) \in Nat /\ StockOf(i) - n > 0
    BY <1>1, StockFacts DEF StockOf, StockRow
  <2>2. QED
    BY <1>1, <2>1
<1>4. calm => S = RowsOf(g)
  BY <1>2 DEF StockRowsInv, SetInvAlone
<1>5. sale' \in [Callers -> Sale] /\ S \in SUBSET RowsOf(g)
  BY <1>1, <1>2 DEF StockTypeOK, Sale
<1>6. \A d \in Callers : sale'[d].status = 1 => sale'[d].goods \in StockGoods
  BY <1>1, <1>2 DEF StockRowsInv, StockTypeOK
<1> HIDE DEF S
<1>7. QED
  BY <1>1, <1>2, <1>3, <1>4, <1>5, <1>6, CountHolds

LEMMA AutoRebackHolds ==
  ASSUME StockRowsInv, NEW c \in Callers, AutoReback(c)
  PROVE  StockRowsInv'
<1> DEFINE g == sale[c].goods
           n == sale[c].num
           S == RowsOf(g)
<1>1. StockTypeOK /\ g \in StockGoods /\ n \in Nat /\ n \in Int
  BY DEF StockRowsInv, AutoReback, StockTypeOK
<1>2. /\ AddTo(S, n) /\ Count(g, n) /\ UNCHANGED <<call, calm>>
      /\ sale' = [sale EXCEPT ![c].status = 2]
  BY DEF AutoReback
<1>3. \A i \in S : StockOf(i) + n \in Nat
  <2>1. \A i \in S : StockOf(i) \in Nat
    BY <1>1, StockFacts DEF StockOf, StockRow
  <2>2. QED
    BY <1>1, <2>1
<1>4. sale' \in [Callers -> Sale]
      /\ \A d \in Callers : sale'[d].status = 1 => sale'[d].goods \in StockGoods
  <2>1. PICK x \in Sale : x = sale[c]
    BY <1>1 DEF StockTypeOK, Sale
  <2>2. PICK y \in Sale : y = [x EXCEPT !.status = 2]
    <3>1. 2 \in 0..2
      OBVIOUS
    <3>2. [x EXCEPT !.status = 2] \in Sale
      BY <3>1 DEF Sale
    <3>3. QED
      BY <3>2
  <2>3. sale' = [sale EXCEPT ![c] = y] /\ y.status = 2 /\ sale \in [Callers -> Sale]
    BY <1>1, <1>2, <2>1, <2>2 DEF StockTypeOK, Sale
  <2>4. QED
    BY <2>3 DEF StockRowsInv
<1>5. S \in SUBSET RowsOf(g) /\ S = RowsOf(g)
  OBVIOUS
<1> HIDE DEF g, n, S
<1>6. QED
  BY <1>1, <1>2, <1>3, <1>4, <1>5, CountHolds

LEMMA RebackHolds ==
  ASSUME StockRowsInv, NEW g \in StockGoods, NEW n \in Amounts, Reback(g, n)
  PROVE  StockRowsInv'
<1> DEFINE S == {FirstRow(g)}
<1>1. StockTypeOK /\ n \in Nat /\ n \in Int
  BY StockRowsAssumption DEF StockRowsInv
<1>2. /\ RowsOf(g) # {} /\ AddTo(S, n) /\ Count(g, n) /\ UNCHANGED <<call, calm, sale>>
  BY DEF Reback
<1>3. S \in SUBSET RowsOf(g)
  BY <1>1, <1>2, FirstRowFacts
<1>4. \A i \in S : StockOf(i) + n \in Nat
  <2>1. \A i \in S : StockOf(i) \in Nat
    BY <1>1, <1>3, StockFacts DEF StockOf, StockRow
  <2>2. QED
    BY <1>1, <2>1
<1>5. calm => S = RowsOf(g)
  BY <1>1, <1>2, FirstRowFacts DEF StockRowsInv, SetInvAlone
<1>6. sale' \in [Callers -> Sale]
      /\ \A d \in Callers : sale'[d].status = 1 => sale'[d].goods \in StockGoods
  BY <1>1, <1>2 DEF StockRowsInv, StockTypeOK, Sale
<1> HIDE DEF S
<1>7. QED
  BY <1>1, <1>2, <1>3, <1>4, <1>5, <1>6, CountHolds

LEMMA RestFacts ==
  /\ Rest.pc = "rest" /\ Rest \in StockCall /\ Rest' = Rest
  /\ \A x : x.pc = "rest" => SetInvOK(x)'
BY DEF Rest, NewRow, StockCall, SetInvOK

\* SetInv has looked for the row.
LEMMA FoundHolds ==
  ASSUME StockRowsInv, NEW c \in Callers, NEW r \in StockRow, NEW i \in Nat,
         i # 0 => i \in RowsOf(r.key), Hold(c, "save", "inventories", i, r),
         UNCHANGED <<tables, stockRowVars>>,
         calm' => /\ calm /\ \A d \in Callers : call[d] = Rest
                  /\ i = 0 => RowsOf(r.key) = {}
  PROVE  StockRowsInv'
<1> DEFINE x == [pc |-> "save", table |-> "inventories", id |-> i, row |-> r]
<1>1. StockTypeOK /\ UNCHANGED <<tables, counted, sale>>
  BY DEF StockRowsInv, stockRowVars
<1>2. /\ x \in StockCall /\ x.pc = "save" /\ x.table = "inventories" /\ x.id = i /\ x.row = r
      /\ call' = [call EXCEPT ![c] = x]
  BY DEF StockCall, Hold
<1> HIDE DEF x
<1>3. call \in [Callers -> StockCall]
  BY <1>1 DEF StockTypeOK, StockCall
<1>4. /\ call' \in [Callers -> StockCall] /\ call'[c] = x
      /\ \A d \in Callers : d # c => call'[d] = call[d]
  BY <1>2, <1>3
<1>5. StockTypeOK'
  BY <1>1, <1>4 DEF StockTypeOK, StockCall, Rest, NewRow, StockRow
<1>6. \A h : RowsOf(h)' = RowsOf(h)
  BY <1>1 DEF RowsOf, WithKey, LiveRows
<1>7. ASSUME NEW d \in Callers
      PROVE  (call'[d].pc = "rest" => call'[d] = Rest) /\ SetInvOK(call[d])'
  <2>1. CASE d = c
    BY <1>2, <1>4, <1>6, <2>1 DEF SetInvOK
  <2>2. CASE d # c
    BY <1>4, <1>6, <2>2 DEF SetInvOK, StockRowsInv
  <2>3. QED
    BY <2>1, <2>2
<1>8. ASSUME calm' PROVE SetInvAlone'
  <2>1. SetInvAlone /\ \A d \in Callers : d # c => call'[d] = Rest
    BY <1>4, <1>8 DEF StockRowsInv
  <2>2. \A d, e \in Callers : call'[d] # Rest /\ call'[e] # Rest => d = e
    BY <2>1
  <2>3. \A d \in Callers : call'[d].pc = "save" /\ call'[d].id = 0 => RowsOf(call'[d].row.key) = {}
    BY <1>2, <1>4, <1>8, <2>1, RestFacts
  <2>4. \A h \in StockGoods : \A k, l \in RowsOf(h) : k = l /\ StockOf(k)' = counted'[h]
    BY <1>1, <2>1 DEF SetInvAlone, StockOf
  <2>5. QED
    BY <1>6, <2>2, <2>3, <2>4, RestFacts DEF SetInvAlone
<1>9. QED
  BY <1>1, <1>5, <1>7, <1>8, RestFacts DEF StockRowsInv

LEMMA SetInvHolds ==
  ASSUME StockRowsInv, NEW c \in Callers, NEW g \in StockGoods, NEW n \in Amounts,
         SetInvFind(c, g, n) \/ SetInvFindFail(c, g, n)
  PROVE  StockRowsInv'
<1>1. PICK r \in StockRow : r = NewRow(g, n, Empty)
  BY StockRowsAssumption DEF NewRow, StockRow
<1>2. r.key = g
  BY <1>1 DEF NewRow
<1>3. StockTypeOK
  BY DEF StockRowsInv
<1>4. CASE SetInvFind(c, g, n)
  <2>1. /\ Hold(c, "save", "inventories", FirstRow(g), r) /\ UNCHANGED <<tables, stockRowVars>>
        /\ calm' = (calm /\ \A d \in Callers : call[d] = Rest)
    BY <1>1, <1>4 DEF SetInvFind, Request
  <2>2. calm' => calm /\ \A d \in Callers : call[d] = Rest
    BY <2>1, Zenon
  <2>3. PICK i \in Nat : i = FirstRow(g)
    BY <1>3, FirstRowFacts
  <2>4. /\ i # 0 => i \in RowsOf(r.key)
        /\ i = 0 => RowsOf(r.key) = {}
    <3>1. ~(0 \in RowsOf(g))
      BY <1>3, StockFacts
    <3>2. QED
      BY <1>2, <1>3, <2>3, <3>1, FirstRowFacts
  <2>5. QED
    BY <2>1, <2>2, <2>3, <2>4, FoundHolds
<1>5. CASE SetInvFindFail(c, g, n)
  <2>1. /\ Hold(c, "save", "inventories", 0, r) /\ UNCHANGED <<tables, stockRowVars>>
        /\ ~calm' /\ 0 \in Nat
    BY <1>1, <1>5 DEF SetInvFindFail, Failure
  <2>2. QED
    BY <2>1, FoundHolds
<1>6. QED
  BY <1>4, <1>5

\* A call that ends leaves the others as they were.
LEMMA CallsOfOthers ==
  ASSUME StockRowsInv, NEW c \in Callers, Done(c), \A h : RowsOf(h) \subseteq RowsOf(h)'
  PROVE  /\ call' \in [Callers -> StockCall] /\ call'[c] = Rest
         /\ \A d \in Callers : d # c => call'[d] = call[d]
         /\ \A d \in Callers : (call'[d].pc = "rest" => call'[d] = Rest) /\ SetInvOK(call[d])'
<1>1. call \in [Callers -> StockCall] /\ call' = [call EXCEPT ![c] = Rest]
  BY DEF StockRowsInv, StockTypeOK, StockCall, Done
<1>2. /\ call' \in [Callers -> StockCall] /\ call'[c] = Rest
      /\ \A d \in Callers : d # c => call'[d] = call[d]
  BY <1>1, RestFacts
<1>3. ASSUME NEW d \in Callers
      PROVE  (call'[d].pc = "rest" => call'[d] = Rest) /\ SetInvOK(call[d])'
  <2>1. CASE d = c
    BY <1>2, <2>1, RestFacts DEF SetInvOK
  <2>2. CASE d # c
    BY <1>2, <2>2 DEF SetInvOK, StockRowsInv
  <2>3. QED
    BY <2>1, <2>2
<1>4. QED
  BY <1>2, <1>3

\* SetInv writes r as row i.
Writes(c, i, r, next) ==
  /\ Done(c) /\ UNCHANGED <<calm, sale>>
  /\ counted' = [counted EXCEPT ![r.key] = r.a]
  /\ tables' = [tables EXCEPT !["inventories"] = next]
  /\ DOMAIN next = DOMAIN tables["inventories"] \cup {i} /\ next[i] = r
  /\ i \in DOMAIN tables["inventories"] => tables["inventories"][i].key = r.key
  /\ \A j \in DOMAIN tables["inventories"] : j # i => next[j] = tables["inventories"][j]
  /\ calm => call[c] # Rest /\ RowsOf(r.key) \subseteq {i}

LEMMA WriteHolds ==
  ASSUME StockRowsInv, NEW c \in Callers, NEW r \in StockRow, NEW next \in Seq(StockRow),
         NEW i, Writes(c, i, r, next)
  PROVE  StockRowsInv'
<1> DEFINE rows == tables["inventories"]
<1>0. /\ Done(c) /\ UNCHANGED <<calm, sale>>
      /\ counted' = [counted EXCEPT ![r.key] = r.a]
      /\ tables' = [tables EXCEPT !["inventories"] = next]
      /\ DOMAIN next = DOMAIN rows \cup {i} /\ next[i] = r
      /\ i \in DOMAIN rows => rows[i].key = r.key
      /\ \A j \in DOMAIN rows : j # i => next[j] = rows[j]
      /\ calm => call[c] # Rest /\ RowsOf(r.key) \subseteq {i}
  BY DEF Writes
<1>1. /\ StockTypeOK /\ r.key \in StockGoods /\ r.a \in Nat
  BY DEF StockRowsInv, StockRow
<1>2. tables' = [t \in TableNames |-> tables'[t]] /\ tables'["inventories"] = next
  BY <1>0, <1>1 DEF StockTypeOK, TableNames
<1>3. /\ counted' \in [StockGoods -> Int] /\ counted'[r.key] = r.a
      /\ \A h \in StockGoods : h # r.key => counted'[h] = counted[h]
  BY <1>0, <1>1 DEF StockTypeOK
<1>4. \A h : RowsOf(h) = {j \in DOMAIN rows : rows[j].key = h}
  BY <1>1, StockFacts
<1>5. \A h : {j \in DOMAIN rows : rows[j].key = h} \subseteq {j \in DOMAIN next : next[j].key = h}
  BY <1>0
<1>6. \A h : RowsOf(h)' = {j \in DOMAIN next : next[j].key = h}
  <2>1. \A j \in DOMAIN next : next[j] \in StockRow
    OBVIOUS
  <2>2. \A x \in StockRow : x.st = "live"
    BY DEF StockRow
  <2>3. QED
    BY <1>2, <2>1, <2>2 DEF RowsOf, WithKey, LiveRows
<1>7. \A h : RowsOf(h) \subseteq RowsOf(h)'
  BY <1>4, <1>5, <1>6
<1>8. /\ call' \in [Callers -> StockCall] /\ call'[c] = Rest
      /\ \A d \in Callers : d # c => call'[d] = call[d]
      /\ \A d \in Callers : (call'[d].pc = "rest" => call'[d] = Rest) /\ SetInvOK(call[d])'
  BY <1>0, <1>7, CallsOfOthers
<1>9. StockTypeOK'
  BY <1>0, <1>1, <1>2, <1>3, <1>8 DEF StockTypeOK, StockCall, Rest, NewRow, StockRow
<1>10. ASSUME calm' PROVE SetInvAlone'
  <2>1. SetInvAlone /\ RowsOf(r.key) \subseteq {i} /\ call[c] # Rest
    BY <1>0, <1>10 DEF StockRowsInv
  <2>2. \A d \in Callers : call'[d] = Rest
    BY <1>8, <2>1 DEF SetInvAlone
  <2>3. ASSUME NEW h \in StockGoods, NEW k \in RowsOf(h)', NEW l \in RowsOf(h)'
        PROVE  k = l /\ StockOf(k)' = counted'[h]
    <3>1. k \in DOMAIN next /\ next[k].key = h /\ l \in DOMAIN next /\ next[l].key = h
      BY <1>6
    <3>2. CASE h = r.key
      <4>1. k = i /\ l = i
        BY <1>0, <1>4, <2>1, <3>1, <3>2
      <4>2. QED
        BY <1>0, <1>2, <1>3, <3>2, <4>1 DEF StockOf
    <3>3. CASE h # r.key
      <4>1. k # i /\ l # i /\ next[k] = rows[k] /\ next[l] = rows[l]
        BY <1>0, <3>1, <3>3
      <4>2. k \in RowsOf(h) /\ l \in RowsOf(h)
        BY <1>0, <1>4, <3>1, <4>1
      <4>3. k = l /\ rows[k].a = counted[h]
        BY <2>1, <4>2 DEF SetInvAlone, StockOf
      <4>4. QED
        BY <1>2, <1>3, <3>3, <4>1, <4>3 DEF StockOf
    <3>4. QED
      BY <3>2, <3>3
  <2>4. QED
    BY <2>2, <2>3, RestFacts DEF SetInvAlone
<1>11. QED
  BY <1>0, <1>8, <1>9, <1>10, RestFacts DEF StockRowsInv

LEMMA SetInvSaveHolds ==
  ASSUME StockRowsInv, NEW c \in Callers, SetInvSave(c)
  PROVE  StockRowsInv'
<1> DEFINE r == call[c].row
           i == call[c].id
           rows == tables["inventories"]
<1>1. StockTypeOK
  BY DEF StockRowsInv
<1>2. /\ Len(rows) \in Nat /\ DOMAIN rows = 1..Len(rows) /\ rows \in Seq(StockRow)
  BY <1>1, StockFacts DEF StockTypeOK
<1>3. ASSUME AtSave(c)
      PROVE  /\ call[c].table = "inventories" /\ r \in StockRow /\ call[c] # Rest
             /\ i # 0 => i \in DOMAIN rows /\ rows[i].key = r.key
             /\ \A k, key : ~Clash("inventories", k, key)
             /\ calm => RowsOf(r.key) \subseteq {IF i = 0 THEN Len(rows) + 1 ELSE i}
  <2>1. /\ call[c].table = "inventories" /\ r \in StockRow
        /\ i # 0 => i \in RowsOf(r.key)
    BY <1>3 DEF AtSave, StockRowsInv, SetInvOK
  <2>2. call[c] # Rest
    BY <1>3, RestFacts DEF AtSave
  <2>3. i # 0 => i \in DOMAIN rows /\ rows[i].key = r.key
    BY <1>1, <2>1, StockFacts
  <2>4. \A k, key : ~Clash("inventories", k, key)
    BY DEF Clash, UniqueTables
  <2>5. calm => RowsOf(r.key) \subseteq {IF i = 0 THEN Len(rows) + 1 ELSE i}
    <3> SUFFICES ASSUME calm PROVE RowsOf(r.key) \subseteq {IF i = 0 THEN Len(rows) + 1 ELSE i}
      OBVIOUS
    <3>1. SetInvAlone /\ r.key \in StockGoods
      BY <2>1 DEF StockRowsInv, StockRow
    <3>2. CASE i = 0
      BY <1>3, <3>1, <3>2 DEF SetInvAlone, AtSave
    <3>3. CASE i # 0
      BY <2>1, <3>1, <3>3 DEF SetInvAlone
    <3>4. QED
      BY <3>2, <3>3
  <2>6. QED
    BY <2>1, <2>2, <2>3, <2>4, <2>5
<1>4. CASE SaveInsert(c) /\ counted' = [counted EXCEPT ![r.key] = r.a]
  <2>1. AtSave(c) /\ i = 0 /\ Done(c) /\ UNCHANGED calm
    BY <1>4 DEF SaveInsert
  <2> DEFINE next == Append(rows, r)
             m == Len(rows) + 1
  <2>2. tables' = [tables EXCEPT !["inventories"] = next]
    BY <1>3, <1>4, <2>1 DEF SaveInsert, Write
  <2>3. UNCHANGED sale /\ counted' = [counted EXCEPT ![r.key] = r.a]
    BY <1>4 DEF SetInvSave
  <2> HIDE DEF r
  <2>4. /\ next \in Seq(StockRow) /\ DOMAIN next = DOMAIN rows \cup {m} /\ next[m] = r
        /\ \A j \in DOMAIN rows : j # m => next[j] = rows[j]
        /\ m \notin DOMAIN rows /\ r \in StockRow
    BY <1>2, <1>3, <2>1
  <2>5. calm => call[c] # Rest /\ RowsOf(r.key) \subseteq {m}
    BY <1>3, <2>1
  <2>6. Writes(c, m, r, next)
    BY <2>1, <2>2, <2>3, <2>4, <2>5 DEF Writes
  <2> HIDE DEF rows, next, m
  <2>7. QED
    BY <2>4, <2>6, WriteHolds
<1>5. CASE SaveUpdate(c) /\ counted' = [counted EXCEPT ![r.key] = r.a]
  <2>1. AtSave(c) /\ Done(c) /\ UNCHANGED calm
    BY <1>5 DEF SaveUpdate
  <2>2. i \in DOMAIN rows /\ i # 0
    BY <1>2, <1>3, <1>5, <2>1 DEF SaveUpdate, LiveRows
  <2> DEFINE next == [rows EXCEPT ![i] = r]
  <2>3. tables' = [tables EXCEPT !["inventories"] = next]
    BY <1>3, <1>5, <2>1 DEF SaveUpdate, Overwrite, Write
  <2>4. UNCHANGED sale /\ counted' = [counted EXCEPT ![r.key] = r.a]
    BY <1>5 DEF SetInvSave
  <2> HIDE DEF r, i
  <2>5. /\ next \in Seq(StockRow) /\ DOMAIN next = DOMAIN rows \cup {i} /\ next[i] = r
        /\ \A j \in DOMAIN rows : j # i => next[j] = rows[j]
        /\ rows[i].key = r.key /\ r \in StockRow
    BY <1>2, <1>3, <2>1, <2>2
  <2>6. calm => call[c] # Rest /\ RowsOf(r.key) \subseteq {i}
    BY <1>3, <2>1, <2>2
  <2>7. Writes(c, i, r, next)
    BY <2>1, <2>3, <2>4, <2>5, <2>6 DEF Writes
  <2> HIDE DEF rows, next
  <2>8. QED
    BY <2>5, <2>7, WriteHolds
<1>6. CASE StatementFail(c) /\ UNCHANGED counted
  <2>1. Done(c) /\ ~calm' /\ UNCHANGED <<tables, counted, sale>>
    BY <1>6 DEF StatementFail, Failure, SetInvSave
  <2>2. \A h : RowsOf(h)' = RowsOf(h)
    BY <2>1 DEF RowsOf, WithKey, LiveRows
  <2>3. /\ call' \in [Callers -> StockCall]
        /\ \A d \in Callers : (call'[d].pc = "rest" => call'[d] = Rest) /\ SetInvOK(call[d])'
    BY <2>1, <2>2, CallsOfOthers
  <2>4. StockTypeOK'
    BY <1>1, <2>1, <2>3 DEF StockTypeOK, StockCall, Rest, NewRow, StockRow
  <2>5. QED
    BY <2>1, <2>3, <2>4, RestFacts DEF StockRowsInv
<1>7. QED
  BY <1>4, <1>5, <1>6 DEF SetInvSave

LEMMA StockInitHolds == ASSUME GormInit, StockInit PROVE StockRowsInv
<1>1. tables["inventories"] = <<>> /\ tables = [t \in TableNames |-> tables[t]]
  BY StockRowsAssumption DEF GormInit
<1>2. tables["inventories"] \in Seq(StockRow) /\ DOMAIN tables["inventories"] = {}
  BY <1>1
<1>3. \A h : RowsOf(h) = {}
  BY <1>2 DEF RowsOf, WithKey, LiveRows
<1>4. call \in [Callers -> StockCall] /\ \A c \in Callers : call[c] = Rest
  BY RestFacts DEF GormInit
<1>5. /\ counted \in [StockGoods -> Int]
      /\ sale \in [Callers -> [goods : StockGoods \cup {Empty}, num : Nat, status : 0..2]]
      /\ \A c \in Callers : sale[c].status = 0
  BY DEF StockInit, NoSale
<1>6. StockTypeOK
  BY <1>1, <1>2, <1>4, <1>5 DEF StockTypeOK, StockCall
<1>7. SetInvAlone
  BY <1>3, <1>4, RestFacts DEF SetInvAlone
<1>8. \A c \in Callers : SetInvOK(call[c])
  BY <1>4, RestFacts DEF SetInvOK
<1>9. QED
  BY <1>4, <1>5, <1>6, <1>7, <1>8 DEF StockRowsInv

LEMMA StockNextHolds == ASSUME StockRowsInv, StockNext PROVE StockRowsInv'
BY SetInvHolds, SetInvSaveHolds, SellHolds, AutoRebackHolds, RebackHolds DEF StockNext

LEMMA StockRests ==
  ASSUME StockRowsInv, UNCHANGED <<gormVars, stockRowVars>>
  PROVE  StockRowsInv'
<1>1. UNCHANGED <<tables, call, calm, counted, sale>>
  BY DEF gormVars, stockRowVars
<1>2. \A h : RowsOf(h)' = RowsOf(h)
  BY <1>1 DEF RowsOf, WithKey, LiveRows
<1>3. StockTypeOK'
  BY <1>1 DEF StockRowsInv, StockTypeOK, Rest, NewRow, StockRow
<1>4. SetInvAlone => SetInvAlone'
  BY <1>1, <1>2, RestFacts DEF SetInvAlone, StockOf
<1>5. QED
  BY <1>1, <1>2, <1>3, <1>4, RestFacts DEF StockRowsInv, SetInvOK

\* The inductive invariant: as long as SetInv calls do not overlap, what one of
\* them has looked up is still so when it saves, whatever is sold and returned
\* in between.
THEOREM StockRowsInvariant == StockSpec => []StockRowsInv
BY StockInitHolds, StockNextHolds, StockRests, PTL DEF StockSpec

\* As long as SetInv calls do not overlap a product has one row, whose stock is
\* what was set, less what was sold and not returned; and no row ever has less
\* than 0 (inventory_srv/handler/inventory.go, SetInv, Sell, Reback, AutoReback).
THEOREM StockIsAsCounted == StockSpec => []StockAsCounted
<1>1. StockRowsInv => StockAsCounted
  <2> SUFFICES ASSUME StockRowsInv PROVE StockAsCounted
    OBVIOUS
  <2>1. StockTypeOK
    BY DEF StockRowsInv
  <2>2. \A i \in DOMAIN tables["inventories"] : StockOf(i) >= 0
    BY <2>1, StockFacts DEF StockOf, StockRow
  <2>3. ASSUME NEW g \in StockGoods, calm
        PROVE  Cardinality(RowsOf(g)) <= 1 /\ \A i \in RowsOf(g) : StockOf(i) = counted[g]
    <3>1. \A i, j \in RowsOf(g) : i = j /\ StockOf(i) = counted[g]
      BY <2>3 DEF StockRowsInv, SetInvAlone
    <3>2. CASE RowsOf(g) = {}
      BY <3>2, FS_EmptySet
    <3>3. CASE RowsOf(g) # {}
      <4>1. PICK i \in RowsOf(g) : RowsOf(g) = {i}
        BY <3>1, <3>3
      <4>2. Cardinality({i}) = 1
        BY FS_Singleton
      <4>3. QED
        BY <3>1, <4>1, <4>2
    <3>4. QED
      BY <3>2, <3>3
  <2>4. QED
    BY <2>2, <2>3 DEF StockAsCounted
<1>2. QED
  BY <1>1, StockRowsInvariant, PTL
=============================================================================
