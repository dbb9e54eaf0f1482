------------------------------ MODULE Profiles ------------------------------
(***************************************************************************)
(* Accounts of user_srv (handler/user.go) and the favourites, addresses    *)
(* and messages of userop_srv (handler/userfav.go, address.go, message.go).*)
(*                                                                         *)
(* The key of a user is the mobile, that of an address or message the      *)
(* user it belongs to, that of a favourite <<user, product>>.  Columns a   *)
(* and b are two of those a request fills; to tell requests apart a column *)
(* holds <<who sent it, value>>.                                           *)
(***************************************************************************)
EXTENDS Gorm

CONSTANTS Users, Mobiles, FavGoods

VARIABLES wanted,  \* history: the favourites asked for and not removed since
          failed   \* history: those whose last INSERT or DELETE failed

profVars == <<wanted, failed>>

\* A field of a request: filled in, or empty.
Field(who, v) == {Empty, <<who, v>>}

\* A row filled in with one request of the user it belongs to.
Whole(r) == \E v \in Values : r.a \in Field(r.key, v) /\ r.b \in Field(r.key, v)

ProfTables == {"user", "address", "userfav", "messages"}
ProfKeys == Mobiles \cup Users \cup {Empty} \cup (Users \X FavGoods)
ProfCols == {Empty} \cup (ProfKeys \X Values)
ProfRow == [key : ProfKeys, a : ProfCols, b : ProfCols, st : {"live", "deleted", "gone"}]

ASSUME ProfilesAssumption ==
  /\ InitialRows = [t \in TableNames |-> InitialRows[t]]
  /\ \A t \in ProfTables : InitialRows[t] \in Seq(ProfRow)
  /\ \A t \in {"user", "address"} : \A i \in DOMAIN InitialRows[t] :
       Whole(InitialRows[t][i])
  /\ \A i, j \in DOMAIN InitialRows["user"] :
       /\ InitialRows["user"][i].st = "live"
       /\ InitialRows["user"][i].key = InitialRows["user"][j].key => i = j
  /\ InitialRows["userfav"] = <<>>

ProfInit ==
  /\ wanted = {}
  /\ failed = {}

-----------------------------------------------------------------------------
\* Accounts

\* First with a mobile; gorm leaves an empty one out of the condition.
UsersFound(m) == IF m = Empty THEN LiveRows("user") ELSE WithKey("user", m)

CreateUserFind(c, m, v) ==
  /\ UsersFound(m) = {}
  /\ Request(c)
  /\ Hold(c, "save", "user", 0, NewRow(m, <<m, v>>, Empty))
  /\ UNCHANGED <<tables, failures, profVars>>

\* A query that fails counts as no user.
CreateUserFindFail(c, m, v) ==
  /\ call[c] = Rest /\ requests < MaxRequests
  /\ requests' = requests + 1
  /\ Failure
  /\ Hold(c, "save", "user", 0, NewRow(m, <<m, v>>, Empty))
  /\ UNCHANGED <<tables, profVars>>

\* Mutant: empty fields are left as they are, as Updates of a struct does.
UpdateUserFindFilled(c, i, a, b) ==
  /\ i \in LiveRows("user")
  /\ Request(c)
  /\ Hold(c, "save", "user", i,
          [tables["user"][i] EXCEPT !.a = IF a = Empty THEN @ ELSE a,
                                    !.b = IF b = Empty THEN @ ELSE b])
  /\ UNCHANGED <<tables, failures, profVars>>

\* UpdateUser takes nickname, birthday and gender over as they are.
UpdateUserFind(c, i, a, b) ==
  /\ i \in LiveRows("user")
  /\ Request(c)
  /\ Hold(c, "save", "user", i, [tables["user"][i] EXCEPT !.a = a, !.b = b])
  /\ UNCHANGED <<tables, failures, profVars>>

-----------------------------------------------------------------------------
\* Addresses

CreateAddress(c, u, a, b) ==
  Insert(c, "address", NewRow(u, a, b)) /\ UNCHANGED profVars

\* UpdateAddress looks at the row's fields where one would expect the
\* request's: what is empty stays empty.
UpdateAddressFind(c, i, u, a, b) ==
  /\ i \in WithKey("address", u)
  /\ Request(c)
  /\ Hold(c, "save", "address", i,
          [tables["address"][i] EXCEPT !.a = IF @ # Empty THEN a ELSE @,
                                       !.b = IF @ # Empty THEN b ELSE @])
  /\ UNCHANGED <<tables, failures, profVars>>

DeleteAddress(c, i, u) ==
  /\ DeleteRows(c, "address", {i} \cap WithKey("address", u), "deleted")
  /\ UNCHANGED profVars

-----------------------------------------------------------------------------
\* Favourites and messages

\* AddUserFav; the unique index refuses a second row, which nobody notices.
AddUserFav(c, u, g) ==
  /\ Insert(c, "userfav", NewRow(<<u, g>>, Empty, Empty))
  /\ wanted' = wanted \cup {<<u, g>>}
  /\ failed' = failed \ {<<u, g>>}

\* Nor does anybody notice that the INSERT failed.
AddUserFavFail(c, u, g) ==
  /\ call[c] = Rest /\ requests < MaxRequests
  /\ requests' = requests + 1
  /\ Failure
  /\ wanted' = wanted \cup {<<u, g>>}
  /\ failed' = failed \cup {<<u, g>>}
  /\ UNCHANGED <<tables, call>>

\* Mutant: a soft delete.
DeleteUserFavSoft(c, u, g) ==
  /\ DeleteRows(c, "userfav", WithKey("userfav", <<u, g>>), "deleted")
  /\ wanted' = wanted \ {<<u, g>>}
  /\ failed' = failed \ {<<u, g>>}

\* DeleteUserFav is Unscoped: the row is gone, from the index too.
DeleteUserFav(c, u, g) ==
  /\ DeleteRows(c, "userfav", WithKey("userfav", <<u, g>>), "gone")
  /\ wanted' = wanted \ {<<u, g>>}
  /\ failed' = failed \ {<<u, g>>}

\* No row of it: NotFound.
DeleteUserFavNone(c, u, g) ==
  /\ WithKey("userfav", <<u, g>>) = {}
  /\ Request(c)
  /\ wanted' = wanted \ {<<u, g>>}
  /\ failed' = failed \ {<<u, g>>}
  /\ UNCHANGED <<tables, call, failures>>

\* A DELETE that fails is answered the same.
DeleteUserFavFail(c, u, g) ==
  /\ call[c] = Rest /\ requests < MaxRequests
  /\ requests' = requests + 1
  /\ Failure
  /\ wanted' = wanted \ {<<u, g>>}
  /\ failed' = failed \cup {<<u, g>>}
  /\ UNCHANGED <<tables, call>>

CreateMessage(c, u) ==
  Insert(c, "messages", NewRow(u, Empty, Empty)) /\ UNCHANGED profVars

-----------------------------------------------------------------------------
Account(c) ==
  \/ \E m \in Mobiles \cup {Empty}, v \in Values :
       CreateUserFind(c, m, v) \/ CreateUserFindFail(c, m, v)
  \/ \E i \in DOMAIN tables["user"], v \in Values :
       LET f == Field(tables["user"][i].key, v)
       IN \E a \in f, b \in f : UpdateUserFind(c, i, a, b)

Address(c) ==
  \E u \in Users :
    \/ \E v \in Values : \E a \in Field(u, v), b \in Field(u, v) :
         \/ CreateAddress(c, u, a, b)
         \/ \E i \in DOMAIN tables["address"] : UpdateAddressFind(c, i, u, a, b)
    \/ \E i \in DOMAIN tables["address"] : DeleteAddress(c, i, u)

Favourite(c) ==
  \E u \in Users, g \in FavGoods :
    \/ AddUserFav(c, u, g) \/ AddUserFavFail(c, u, g)
    \/ DeleteUserFav(c, u, g) \/ DeleteUserFavNone(c, u, g)
    \/ DeleteUserFavFail(c, u, g)

ProfNext ==
  \E c \in Callers :
    \/ Account(c) \/ Address(c) \/ Favourite(c)
    \/ \E u \in Users : CreateMessage(c, u)
    \/ Save(c) /\ UNCHANGED profVars

ProfSpec == GormInit /\ ProfInit /\ [][ProfNext]_<<gormVars, profVars>>

-----------------------------------------------------------------------------
\* Properties

\* A mobile belongs to one user, although CreateUser looks for it in one
\* statement and inserts in another: the unique index refuses the later of
\* two calls that both found none.
MobileOnce ==
  \A i, j \in DOMAIN tables["user"] :
    tables["user"][i].key = tables["user"][j].key => i = j

\* What is filled in of a profile or an address came with one request, of the
\* user it belongs to: concurrent updates overwrite one another whole, and
\* are never mixed.
RowsWhole ==
  \A t \in {"user", "address"} : \A i \in DOMAIN tables[t] : Whole(tables[t][i])

\* A favourite is there if and only if the last call about it asked for it,
\* unless a statement of that call failed: AddUserFav answers a failed INSERT
\* with OK, DeleteUserFav a failed DELETE with NotFound.
FavAsAsked ==
  {tables["userfav"][i].key : i \in LiveRows("userfav")} \ failed = wanted \ failed

-----------------------------------------------------------------------------
\* The inductive invariant behind these properties

ProfTypeOK ==
  /\ tables = [t \in TableNames |-> tables[t]]
  /\ \A t \in ProfTables : tables[t] \in Seq(ProfRow)
  /\ call \in [Callers -> [pc : {"rest", "save", "upsert"},
                          table : {"brands", "user", "address"},
                          id : Nat, row : ProfRow]]

\* A handler is about to write a whole, live row.
HoldsOK(x) ==
  x.pc # "rest" =>
    /\ x.table \in {"user", "address"}
    /\ x.id = 0 \/ x.id \in DOMAIN tables[x.table]
    /\ x.row.st = "live" /\ Whole(x.row)

\* Users are never deleted, favourites never softly.
ProfInv ==
  /\ ProfTypeOK
  /\ \A c \in Callers : HoldsOK(call[c])
  /\ \A i \in DOMAIN tables["user"] : tables["user"][i].st = "live"
  /\ \A i \in DOMAIN tables["userfav"] : tables["userfav"][i].st # "deleted"
  /\ MobileOnce /\ RowsWhole /\ FavAsAsked
=============================================================================
