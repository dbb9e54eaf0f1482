--------------------------- MODULE TaxonomyProofs ---------------------------
(***************************************************************************)
(* Brand names, pairs and deleted rows as long as calls come one after the *)
(* other, for any tables at the start and any number of calls.             *)
(***************************************************************************)
EXTENDS Taxonomy, SequenceTheorems, FiniteSetTheorems, TLAPS

NamesDiffer ==
  \A n \in Values \ updated : \A i, j \in Named(n) : i = j
CalmInv ==
  /\ \A c, d \in Callers : call[c].pc # "rest" /\ call[d].pc # "rest" => c = d
  /\ \A c \in Callers : Known(call[c])
  /\ NamesDiffer

\* What a step does under DeletedStays and PairsOfLive.
DeletedStep ==
  calm' => \A t \in TableNames : \A i \in DOMAIN tables[t] :
    tables[t][i].st \in {"deleted", "gone"} => tables'[t][i] = tables[t][i]
PairStep ==
  calm' => \A p \in DOMAIN tables'["category_brand"] :
    LET key == tables'["category_brand"][p].key IN
    \/ p \in DOMAIN tables["category_brand"] /\ key = tables["category_brand"][p].key
    \/ key[1] \in LiveRows("categories") /\ key[2] \in LiveRows("brands")
Good == TaxInv' /\ DeletedStep /\ PairStep

LEMMA InvNow == TaxInv <=> TaxTypeOK /\ (calm => CalmInv)
BY DEF TaxInv, CalmInv, NamesDiffer

LEMMA InvNext == TaxTypeOK' /\ (calm' => CalmInv') => TaxInv'
BY InvNow, PTL

-----------------------------------------------------------------------------
\* Tables

LEMMA TableWrite ==
  ASSUME TaxTypeOK, NEW t \in TableNames, NEW rows, Write(t, rows)
  PROVE  /\ tables' = [u \in TableNames |-> tables'[u]]
         /\ tables'[t] = rows
         /\ \A u \in TableNames : u # t => tables'[u] = tables[u]
BY DEF TaxTypeOK, Write

LEMMA AppendRow ==
  ASSUME NEW rows \in Seq(TaxRow), NEW r \in TaxRow
  PROVE  /\ Append(rows, r) \in Seq(TaxRow)
         /\ DOMAIN Append(rows, r) = DOMAIN rows \cup {Len(rows) + 1}
         /\ Len(rows) + 1 \notin DOMAIN rows
         /\ Append(rows, r)[Len(rows) + 1] = r
         /\ \A i \in DOMAIN rows : Append(rows, r)[i] = rows[i]
OBVIOUS

LEMMA SetRow ==
  ASSUME NEW rows \in Seq(TaxRow), NEW r \in TaxRow, NEW i
  PROVE  /\ [rows EXCEPT ![i] = r] \in Seq(TaxRow)
         /\ DOMAIN [rows EXCEPT ![i] = r] = DOMAIN rows
         /\ i \in DOMAIN rows => [rows EXCEPT ![i] = r][i] = r
         /\ \A j \in DOMAIN rows : j # i => [rows EXCEPT ![i] = r][j] = rows[j]
<1>1. CASE i \in DOMAIN rows
  BY <1>1
<1>2. CASE i \notin DOMAIN rows
  <2>1. [rows EXCEPT ![i] = r] = rows
    BY <1>2
  <2>2. QED
    BY <1>2, <2>1
<1>3. QED
  BY <1>1, <1>2

\* What DeleteRows writes.
Marked(rows, S) ==
  [i \in DOMAIN rows |-> IF i \in S THEN [rows[i] EXCEPT !.st = "deleted"] ELSE rows[i]]

LEMMA MarkRows ==
  ASSUME NEW rows \in Seq(TaxRow), NEW S, NEW new, new = Marked(rows, S)
  PROVE  /\ new \in Seq(TaxRow) /\ DOMAIN new = DOMAIN rows
         /\ \A i \in DOMAIN rows :
              /\ new[i].key = rows[i].key /\ new[i].a = rows[i].a
              /\ new[i].st = IF i \in S THEN "deleted" ELSE rows[i].st
              /\ i \notin S => new[i] = rows[i]
<1>1. ASSUME NEW i \in DOMAIN rows
      PROVE  /\ new[i] \in TaxRow
             /\ new[i].key = rows[i].key /\ new[i].a = rows[i].a
             /\ new[i].st = IF i \in S THEN "deleted" ELSE rows[i].st
             /\ i \notin S => new[i] = rows[i]
  <2>1. PICK r \in TaxRow : r = rows[i]
    OBVIOUS
  <2>2. new[i] = IF i \in S THEN [r EXCEPT !.st = "deleted"] ELSE r
    BY <2>1 DEF Marked
  <2>3. QED
    BY <2>1, <2>2 DEF TaxRow
<1>2. DOMAIN rows = 1..Len(rows) /\ Len(rows) \in Nat /\ DOMAIN new = DOMAIN rows
  BY DEF Marked
<1>3. new \in [1..Len(rows) -> TaxRow]
  BY <1>1, <1>2 DEF Marked
<1>4. new \in Seq(TaxRow)
  BY <1>2, <1>3, SeqDef
<1>5. QED
  BY <1>1, <1>2, <1>4

-----------------------------------------------------------------------------
\* A step of caller c that writes table t and leaves c with x.

\* The new rows of table t keep deleted rows, names and pairs in order.
RowsOK(t, new) ==
  /\ \A i \in DOMAIN tables[t] :
       tables[t][i].st \in {"deleted", "gone"} => new[i] = tables[t][i]
  /\ t = "brands" => \A n \in Values \ updated' :
       \A i, j \in {k \in DOMAIN new : new[k].st = "live" /\ new[k].a = n} : i = j
  /\ t = "category_brand" => \A p \in DOMAIN new :
       \/ p \in DOMAIN tables[t] /\ new[p].key = tables[t][p].key
       \/ new[p].key[1] \in LiveRows("categories") /\ new[p].key[2] \in LiveRows("brands")

LEMMA CallerStep ==
  ASSUME TaxInv, NEW c \in Callers, NEW t \in TaxTables, NEW new \in Seq(TaxRow),
         NEW x \in TaxCall, Write(t, new), call' = [call EXCEPT ![c] = x],
         calm' => /\ calm /\ \A d \in Callers : d # c => call[d].pc = "rest"
                  /\ Known(x)' /\ updated \subseteq updated' /\ RowsOK(t, new)
  PROVE  Good
<1>1. TaxTypeOK /\ (calm => CalmInv)
  BY InvNow
<1>2. t \in TableNames /\ TaxTables \subseteq TableNames
  BY DEF TaxTables, TableNames
<1>3. /\ tables' = [u \in TableNames |-> tables'[u]] /\ tables'[t] = new
      /\ \A u \in TableNames : u # t => tables'[u] = tables[u]
  BY <1>1, <1>2, TableWrite
<1>4. call' \in [Callers -> TaxCall]
  BY <1>1 DEF TaxTypeOK
<1>5. \A u \in TaxTables : tables'[u] \in Seq(TaxRow)
  BY <1>1, <1>2, <1>3 DEF TaxTypeOK
<1>6. TaxTypeOK'
  BY <1>3, <1>4, <1>5 DEF TaxTypeOK
<1>7. ASSUME calm' PROVE CalmInv'
  <2>1. /\ \A d \in Callers : d # c => call'[d].pc = "rest"
        /\ call'[c] = x
    BY <1>1, <1>7 DEF TaxTypeOK
  <2>2. ASSUME NEW d \in Callers PROVE Known(call[d])'
    <3>1. CASE d = c
      BY <1>7, <2>1, <3>1 DEF Known
    <3>2. CASE d # c
      BY <2>1, <3>2 DEF Known
    <3>3. QED
      BY <3>1, <3>2
  <2>3. NamesDiffer'
    <3>1. CASE t = "brands"
      BY <1>3, <1>7, <3>1 DEF NamesDiffer, Named, LiveRows, RowsOK
    <3>2. CASE t # "brands"
      <4>1. tables'["brands"] = tables["brands"] /\ NamesDiffer
        BY <1>1, <1>3, <1>7, <3>2 DEF TableNames, CalmInv
      <4>2. QED
        BY <1>7, <4>1 DEF NamesDiffer, Named, LiveRows
    <3>3. QED
      BY <3>1, <3>2
  <2>4. QED
    BY <2>1, <2>2, <2>3 DEF CalmInv
<1>8. DeletedStep
  BY <1>3 DEF DeletedStep, RowsOK
<1>9. PairStep
  <2>1. CASE t = "category_brand"
    BY <1>3, <2>1 DEF PairStep, RowsOK
  <2>2. CASE t # "category_brand"
    <3>1. tables'["category_brand"] = tables["category_brand"]
      BY <1>3, <2>2 DEF TableNames
    <3>2. QED
      BY <3>1 DEF PairStep
  <2>3. QED
    BY <2>1, <2>2
<1>10. QED
  BY <1>6, <1>7, <1>8, <1>9, InvNext DEF Good

\* The same for a step that changes no table.
LEMMA LookStep ==
  ASSUME TaxInv, NEW c \in Callers, NEW x \in TaxCall, UNCHANGED tables,
         call' = [call EXCEPT ![c] = x],
         calm' => /\ calm /\ \A d \in Callers : d # c => call[d].pc = "rest"
                  /\ Known(x)' /\ updated \subseteq updated'
  PROVE  Good
<1>1. TaxTypeOK
  BY InvNow
<1>2. "banner" \in TaxTables /\ tables["banner"] \in Seq(TaxRow)
  BY <1>1 DEF TaxTypeOK, TaxTables
<1>3. Write("banner", tables["banner"])
  BY <1>1 DEF TaxTypeOK, Write
<1>4. RowsOK("banner", tables["banner"])
  BY DEF RowsOK
<1>5. QED
  BY <1>2, <1>3, <1>4, CallerStep

LEMMA RequestFacts ==
  ASSUME TaxInv, NEW c \in Callers, Request(c)
  PROVE  /\ call[c].pc = "rest" /\ call[c] \in TaxCall
         /\ calm' => calm /\ \A d \in Callers : call[d].pc = "rest"
<1>1. call[c] = Rest /\ calm' = (calm /\ \A d \in Callers : call[d] = Rest)
  BY DEF Request
<1>2. call[c] \in TaxCall
  BY DEF TaxInv, TaxTypeOK
<1>3. calm' => calm /\ \A d \in Callers : call[d] = Rest
  BY <1>1, Zenon
<1>4. Rest.pc = "rest"
  BY DEF Rest
<1>5. QED
  BY <1>1, <1>2, <1>3, <1>4

LEMMA RequestWrite ==
  ASSUME TaxInv, NEW c \in Callers, NEW t \in TaxTables, NEW new \in Seq(TaxRow),
         Write(t, new), Request(c), UNCHANGED <<call, updated>>,
         calm' => RowsOK(t, new)
  PROVE  Good
<1>1. PICK x \in TaxCall : x = call[c] /\ x.pc = "rest"
  BY RequestFacts
<1>2. call' = [call EXCEPT ![c] = x] /\ Known(x)'
  BY <1>1 DEF Known, TaxInv, TaxTypeOK
<1>3. QED
  BY <1>2, RequestFacts, CallerStep

LEMMA RequestHold ==
  ASSUME TaxInv, NEW c \in Callers, NEW x \in TaxCall, UNCHANGED tables,
         call' = [call EXCEPT ![c] = x], updated \subseteq updated',
         calm' => Request(c) /\ Known(x)'
  PROVE  Good
<1>1. calm' => calm /\ \A d \in Callers : d # c => call[d].pc = "rest"
  BY RequestFacts
<1>2. QED
  BY <1>1, LookStep

\* Inserts of what is neither a brand nor a pair, and soft deletes.
LEMMA InsertHolds ==
  ASSUME TaxInv, NEW c \in Callers, NEW t \in {"categories", "banner"}, NEW r \in TaxRow,
         Insert(c, t, r), UNCHANGED taxVars
  PROVE  Good
<1> DEFINE rows == tables[t]
           new == IF Clash(t, 0, r.key) THEN rows ELSE Append(rows, r)
<1>1. t \in TaxTables /\ rows \in Seq(TaxRow)
  BY DEF TaxInv, TaxTypeOK, TaxTables
<1>2. /\ Write(t, new) /\ Request(c) /\ UNCHANGED <<call, updated>>
  BY DEF Insert, taxVars
<1>3. new \in Seq(TaxRow) /\ \A i \in DOMAIN rows : new[i] = rows[i]
  BY <1>1, AppendRow
<1> HIDE DEF new
<1>4. RowsOK(t, new)
  BY <1>3 DEF RowsOK
<1>5. QED
  BY <1>1, <1>2, <1>3, <1>4, RequestWrite

LEMMA DeleteHolds ==
  ASSUME TaxInv, NEW c \in Callers, NEW t \in TaxTables, NEW S, S \subseteq LiveRows(t),
         DeleteRows(c, t, S, "deleted"), UNCHANGED updated
  PROVE  Good
<1> DEFINE rows == tables[t]
           new == Marked(rows, S)
<1>1. rows \in Seq(TaxRow)
  BY DEF TaxInv, TaxTypeOK
<1>2. /\ Write(t, new) /\ Request(c) /\ UNCHANGED <<call, updated>>
  BY DEF DeleteRows, Marked
<1>3. /\ new \in Seq(TaxRow) /\ DOMAIN new = DOMAIN rows
      /\ \A i \in DOMAIN rows :
           /\ new[i].key = rows[i].key /\ new[i].a = rows[i].a
           /\ new[i].st = IF i \in S THEN "deleted" ELSE rows[i].st
           /\ i \notin S => new[i] = rows[i]
  BY <1>1, MarkRows
<1> HIDE DEF new
<1>4. ASSUME calm' PROVE RowsOK(t, new)
  <2>1. \A i \in DOMAIN rows : rows[i].st \in {"deleted", "gone"} => new[i] = rows[i]
    BY <1>3 DEF LiveRows
  <2>2. NamesDiffer
    BY <1>2, <1>4, RequestFacts DEF TaxInv, NamesDiffer
  <2>3. ASSUME t = "brands", NEW n \in Values \ updated',
               NEW i \in DOMAIN new, NEW j \in DOMAIN new,
               new[i].st = "live", new[i].a = n, new[j].st = "live", new[j].a = n
        PROVE  i = j
    <3>1. i \in Named(n) /\ j \in Named(n)
      BY <1>3, <2>3 DEF Named, LiveRows
    <3>2. QED
      BY <1>2, <2>2, <2>3, <3>1 DEF NamesDiffer
  <2>4. QED
    BY <1>3, <2>1, <2>3 DEF RowsOK
<1>5. QED
  BY <1>1, <1>2, <1>3, <1>4, RequestWrite

-----------------------------------------------------------------------------
\* The handlers

\* A step of a call under way, which is the only one as long as it is calm.
LEMMA FollowUp ==
  ASSUME TaxInv, NEW c \in Callers, call[c].pc # "rest"
  PROVE  /\ call[c] \in TaxCall
         /\ calm => /\ \A d \in Callers : d # c => call[d].pc = "rest"
                    /\ Known(call[c]) /\ NamesDiffer
BY DEF TaxInv, TaxTypeOK, NamesDiffer

LEMMA RestKnown == Rest \in TaxCall /\ Rest.pc = "rest" /\ Known(Rest) /\ Known(Rest)'
BY DEF Rest, NewRow, TaxCall, TaxTables, TaxRow, TaxCols, Known

LEMMA BrandInsertHolds == ASSUME TaxInv, NEW c \in Callers, BrandInsert(c) PROVE Good
<1> DEFINE rows == tables["brands"]
           r == call[c].row
           hidden == [r EXCEPT !.st = "unseen"]
           new == Append(rows, hidden)
           m == Len(rows) + 1
           held == [pc |-> "commit", table |-> "brands", id |-> m, row |-> r]
<1>1. /\ call[c].pc = "insert" /\ Write("brands", new) /\ UNCHANGED <<calm, updated>>
      /\ call' = [call EXCEPT ![c] = held]
  BY DEF BrandInsert, Hold, taxVars
<1>2. /\ call[c] \in TaxCall
      /\ calm => /\ \A d \in Callers : d # c => call[d].pc = "rest"
                 /\ Known(call[c]) /\ NamesDiffer
  BY <1>1, FollowUp
<1>3. rows \in Seq(TaxRow) /\ r \in TaxRow /\ "brands" \in TaxTables
  BY <1>2 DEF TaxInv, TaxTypeOK, TaxTables, TaxCall
<1>4. hidden \in TaxRow /\ hidden.st = "unseen"
  BY <1>3 DEF TaxRow
<1>5. /\ new \in Seq(TaxRow) /\ DOMAIN new = DOMAIN rows \cup {m}
      /\ m \notin DOMAIN rows /\ new[m].st = "unseen"
      /\ \A i \in DOMAIN rows : new[i] = rows[i]
  <2> HIDE DEF hidden
  <2>1. QED
    BY <1>3, <1>4, AppendRow
<1>6. m \in Nat
  BY <1>3
<1> HIDE DEF hidden, new, m
<1>7. held \in TaxCall
  BY <1>3, <1>6 DEF TaxCall, TaxTables
<1>8. PICK x \in TaxCall :
        /\ call' = [call EXCEPT ![c] = x]
        /\ x.pc = "commit" /\ x.table = "brands" /\ x.id = m /\ x.row = r
  BY <1>1, <1>7
<1>9. tables'["brands"] = new
  BY <1>1, TableWrite DEF TableNames, TaxInv
<1>10. ASSUME calm PROVE Known(x)' /\ RowsOK("brands", new)
  <2>1. Named(r.a) = {} \/ r.a \in updated
    BY <1>1, <1>2, <1>10 DEF Known
  <2>2. \A n : Named(n)' = Named(n)
    BY <1>5, <1>9 DEF Named, LiveRows
  <2>3. Named(r.a)' = {} \/ r.a \in updated'
    BY <1>1, <2>1, <2>2
  <2>4. Known(x)'
    BY <1>5, <1>8, <1>9, <2>3 DEF Known
  <2>5. ASSUME NEW n \in Values \ updated', NEW i \in DOMAIN new, NEW j \in DOMAIN new,
               new[i].st = "live", new[i].a = n, new[j].st = "live", new[j].a = n
        PROVE  i = j
    <3>1. i \in Named(n) /\ j \in Named(n)
      BY <1>5, <2>5 DEF Named, LiveRows
    <3>2. QED
      BY <1>1, <1>2, <1>10, <2>5, <3>1 DEF NamesDiffer
  <2>6. RowsOK("brands", new)
    BY <1>5, <2>5 DEF RowsOK
  <2>7. QED
    BY <2>4, <2>6
<1>11. QED
  BY <1>1, <1>2, <1>3, <1>5, <1>8, <1>10, CallerStep

LEMMA BrandCommitHolds == ASSUME TaxInv, NEW c \in Callers, BrandCommit(c) PROVE Good
<1> DEFINE rows == tables["brands"]
           r == call[c].row
           i == call[c].id
           new == [rows EXCEPT ![i] = r]
<1>1. /\ call[c].pc = "commit" /\ Write("brands", new) /\ UNCHANGED <<calm, updated>>
      /\ call' = [call EXCEPT ![c] = Rest]
  BY DEF BrandCommit, Done
<1>2. /\ call[c] \in TaxCall
      /\ calm => /\ \A d \in Callers : d # c => call[d].pc = "rest"
                 /\ Known(call[c]) /\ NamesDiffer
  BY <1>1, FollowUp
<1>3. rows \in Seq(TaxRow) /\ r \in TaxRow /\ "brands" \in TaxTables
  BY <1>2 DEF TaxInv, TaxTypeOK, TaxTables, TaxCall
<1>4. /\ new \in Seq(TaxRow) /\ DOMAIN new = DOMAIN rows
      /\ i \in DOMAIN rows => new[i] = r
      /\ \A j \in DOMAIN rows : j # i => new[j] = rows[j]
  BY <1>3, SetRow
<1> HIDE DEF new
<1>5. ASSUME calm PROVE RowsOK("brands", new)
  <2>1. (Named(r.a) = {} \/ r.a \in updated) /\ rows[i].st = "unseen" /\ NamesDiffer
    BY <1>1, <1>2, <1>5 DEF Known
  <2>2. ASSUME NEW n \in Values \ updated', NEW j \in DOMAIN new, NEW k \in DOMAIN new,
               new[j].st = "live", new[j].a = n, new[k].st = "live", new[k].a = n
        PROVE  j = k
    <3>1. CASE j # i /\ k # i
      <4>1. j \in Named(n) /\ k \in Named(n)
        BY <1>4, <2>2, <3>1 DEF Named, LiveRows
      <4>2. QED
        BY <1>1, <2>1, <2>2, <4>1 DEF NamesDiffer
    <3>2. CASE (j = i /\ k # i) \/ (j # i /\ k = i)
      <4>1. r.a = n
        BY <1>4, <2>2, <3>2
      <4>2. Named(n) # {}
        BY <1>4, <2>2, <3>2 DEF Named, LiveRows
      <4>3. QED
        BY <1>1, <2>1, <2>2, <4>1, <4>2
    <3>3. QED
      BY <3>1, <3>2
  <2>3. \A j \in DOMAIN rows : rows[j].st \in {"deleted", "gone"} => new[j] = rows[j]
    BY <1>4, <2>1
  <2>4. QED
    BY <2>2, <2>3 DEF RowsOK
<1>6. QED
  BY <1>1, <1>2, <1>3, <1>4, <1>5, RestKnown, CallerStep

LEMMA BrandHolds == ASSUME TaxInv, NEW c \in Callers, Brand(c) PROVE Good
<1>1. ASSUME NEW n \in Values,
             CreateBrandFind(c, n) \/ CreateBrandFindFail(c, n) \/ UpdateBrandFind(c, n)
      PROVE  Good
  <2> DEFINE x == [pc |-> "insert", table |-> "brands", id |-> 0, row |-> NewRow(Empty, n, Empty)]
  <2>1. /\ x \in TaxCall /\ x.pc = "insert" /\ x.table = "brands" /\ x.id = 0
        /\ x.row.a = n
    BY DEF NewRow, TaxCall, TaxTables, TaxRow, TaxCols
  <2>2. /\ call' = [call EXCEPT ![c] = x] /\ UNCHANGED tables
        /\ updated \subseteq updated'
    BY <1>1 DEF CreateBrandFind, CreateBrandFindFail, UpdateBrandFind, NewBrand, Hold, taxVars
  <2>3. calm' => Request(c) /\ (Named(n) = {} \/ n \in updated')
    BY <1>1 DEF CreateBrandFind, CreateBrandFindFail, UpdateBrandFind, Failure
  <2> HIDE DEF x
  <2>4. calm' => Known(x)'
    BY <2>1, <2>2, <2>3 DEF Known, Named, LiveRows
  <2>5. QED
    BY <2>1, <2>2, <2>3, <2>4, RequestHold
<1>2. ASSUME NEW i \in DOMAIN tables["brands"], DeleteBrand(c, i) PROVE Good
  BY <1>2, DeleteHolds DEF DeleteBrand, TaxTables
<1>3. CASE BrandInsert(c)
  BY <1>3, BrandInsertHolds
<1>4. CASE BrandCommit(c)
  BY <1>4, BrandCommitHolds
<1>5. QED
  BY <1>1, <1>2, <1>3, <1>4 DEF Brand

LEMMA CategoryHolds == ASSUME TaxInv, NEW c \in Callers, Category(c) PROVE Good
<1>1. ASSUME NEW n \in Values, CreateCategory(c, n) PROVE Good
  <2>1. NewRow(Empty, n, Empty) \in TaxRow
    BY DEF NewRow, TaxRow, TaxCols
  <2>2. QED
    BY <1>1, <2>1, InsertHolds DEF CreateCategory
<1>2. ASSUME NEW i \in DOMAIN tables["categories"], DeleteCategory(c, i) PROVE Good
  BY <1>2, DeleteHolds DEF DeleteCategory, TaxTables, taxVars
<1>3. ASSUME NEW i \in DOMAIN tables["categories"], NEW n \in Values \cup {Empty},
             UpdateCategoryFind(c, i, n)
      PROVE  Good
  <2> DEFINE old == tables["categories"][i]
             r == [old EXCEPT !.a = IF n = Empty THEN @ ELSE n]
             held == [pc |-> "updates", table |-> "categories", id |-> i, row |-> r]
  <2>1. i \in Nat /\ old \in TaxRow
    BY DEF TaxInv, TaxTypeOK, TaxTables
  <2>2. r \in TaxRow
    BY <2>1 DEF TaxRow, TaxCols
  <2>3. /\ call' = [call EXCEPT ![c] = held] /\ UNCHANGED <<tables, updated>>
        /\ Request(c) /\ i \in LiveRows("categories")
    BY <1>3 DEF UpdateCategoryFind, Hold, taxVars
  <2> HIDE DEF r
  <2>4. held \in TaxCall
    BY <2>1, <2>2 DEF TaxCall, TaxTables
  <2>5. PICK x \in TaxCall :
          /\ call' = [call EXCEPT ![c] = x]
          /\ x.pc = "updates" /\ x.table = "categories" /\ x.id = i
    BY <2>3, <2>4
  <2>6. Known(x)'
    BY <2>3, <2>5 DEF Known, LiveRows
  <2>7. QED
    BY <2>3, <2>5, <2>6, RequestHold
<1>4. CASE UpdateCategoryWrite(c)
  <2> DEFINE rows == tables["categories"]
             i == call[c].id
             r == call[c].row
             new == IF i \in LiveRows("categories") THEN [rows EXCEPT ![i] = r] ELSE rows
  <2>1. /\ call[c].pc = "updates" /\ Write("categories", new) /\ UNCHANGED <<calm, updated>>
        /\ call' = [call EXCEPT ![c] = Rest]
    BY <1>4 DEF UpdateCategoryWrite, Done, taxVars
  <2>2. rows \in Seq(TaxRow) /\ r \in TaxRow /\ "categories" \in TaxTables
    BY <2>1, FollowUp DEF TaxInv, TaxTypeOK, TaxTables, TaxCall
  <2>3. /\ new \in Seq(TaxRow)
        /\ \A j \in DOMAIN rows : rows[j].st \in {"deleted", "gone"} => new[j] = rows[j]
    BY <2>2, SetRow DEF LiveRows
  <2> HIDE DEF new
  <2>4. RowsOK("categories", new)
    BY <2>3 DEF RowsOK
  <2>5. QED
    BY <2>1, <2>2, <2>3, <2>4, FollowUp, RestKnown, CallerStep
<1>5. QED
  BY <1>1, <1>2, <1>3, <1>4 DEF Category

LEMMA PairHolds == ASSUME TaxInv, NEW c \in Callers, Pair(c) PROVE Good
<1>1. ASSUME NEW k \in DOMAIN tables["categories"], NEW b \in DOMAIN tables["brands"],
             NEW p,
             \/ p = 0 /\ CreatePairFind(c, k, b)
             \/ p \in DOMAIN tables["category_brand"] /\ UpdatePairFind(c, p, k, b)
      PROVE  Good
  <2> DEFINE r == NewRow(<<k, b>>, Empty, Empty)
             x == [pc |-> "category", table |-> "category_brand", id |-> p, row |-> r]
  <2>1. k \in Nat /\ b \in Nat /\ p \in Nat
    BY <1>1 DEF TaxInv, TaxTypeOK, TaxTables
  <2>2. r \in TaxRow
    BY <2>1 DEF NewRow, TaxRow, TaxCols
  <2>3. /\ call' = [call EXCEPT ![c] = x] /\ UNCHANGED <<tables, updated>>
        /\ Request(c) /\ (p = 0 \/ p \in LiveRows("category_brand"))
    BY <1>1 DEF CreatePairFind, UpdatePairFind, Hold, taxVars
  <2> HIDE DEF r
  <2>4. /\ x \in TaxCall /\ x.pc = "category" /\ x.table = "category_brand" /\ x.id = p
    BY <2>1, <2>2 DEF TaxCall, TaxTables
  <2> HIDE DEF x
  <2>5. Known(x)'
    BY <2>3, <2>4 DEF Known, LiveRows
  <2>6. QED
    BY <2>3, <2>4, <2>5, RequestHold
<1>2. CASE PairCategory(c) \/ PairBrand(c)
  <2>1. /\ call[c].pc \in {"category", "brand"} /\ UNCHANGED <<tables, calm, updated>>
    BY <1>2 DEF PairCategory, PairBrand, taxVars
  <2>2. call[c] \in TaxCall
    BY <2>1, FollowUp
  <2>3. PICK x \in TaxCall :
          /\ call' = [call EXCEPT ![c] = x]
          /\ \/ x = Rest
             \/ /\ x.table = call[c].table /\ x.id = call[c].id /\ x.row = call[c].row
                /\ \/ /\ call[c].pc = "category" /\ x.pc = "brand"
                      /\ x.row.key[1] \in LiveRows("categories")
                   \/ /\ call[c].pc = "brand" /\ x.pc = "save"
                      /\ x.row.key[2] \in LiveRows("brands")
    <3>1. CASE call' = [call EXCEPT ![c] = Rest]
      BY <3>1, RestKnown
    <3>2. CASE PairCategory(c) /\ call' # [call EXCEPT ![c] = Rest]
      <4> DEFINE x == [call[c] EXCEPT !.pc = "brand"]
      <4>1. /\ call' = [call EXCEPT ![c] = x] /\ call[c].pc = "category"
            /\ call[c].row.key[1] \in LiveRows("categories")
        BY <3>2 DEF PairCategory, Done
      <4>2. /\ x \in TaxCall /\ x.pc = "brand" /\ x.table = call[c].table
            /\ x.id = call[c].id /\ x.row = call[c].row
        BY <2>2 DEF TaxCall
      <4> HIDE DEF x
      <4>3. QED
        BY <4>1, <4>2
    <3>3. CASE PairBrand(c) /\ call' # [call EXCEPT ![c] = Rest]
      <4> DEFINE x == [call[c] EXCEPT !.pc = "save"]
      <4>1. /\ call' = [call EXCEPT ![c] = x] /\ call[c].pc = "brand"
            /\ call[c].row.key[2] \in LiveRows("brands")
        BY <3>3 DEF PairBrand, Done
      <4>2. /\ x \in TaxCall /\ x.pc = "save" /\ x.table = call[c].table
            /\ x.id = call[c].id /\ x.row = call[c].row
        BY <2>2 DEF TaxCall
      <4> HIDE DEF x
      <4>3. QED
        BY <4>1, <4>2
    <3>4. QED
      BY <1>2, <3>1, <3>2, <3>3
  <2>4. ASSUME calm PROVE Known(x)'
    <3>1. Known(call[c])
      BY <2>1, <2>4, FollowUp
    <3>2. CASE x = Rest
      BY <3>2, RestKnown
    <3>3. CASE x # Rest
      <4>1. call[c].table = "category_brand"
        BY <2>1, <3>1 DEF Known
      <4>2. /\ x.pc \in {"brand", "save"} /\ x.table = "category_brand"
            /\ x.id \in LiveRows("category_brand") \/ x.id = 0
            /\ x.row.key[1] \in LiveRows("categories")
            /\ x.pc = "save" => x.row.key[2] \in LiveRows("brands")
        BY <2>1, <2>3, <3>1, <3>3, <4>1 DEF Known
      <4>3. QED
        BY <2>1, <4>2 DEF Known, LiveRows
    <3>4. QED
      BY <3>2, <3>3
  <2>5. QED
    BY <2>1, <2>3, <2>4, FollowUp, LookStep
<1>3. ASSUME NEW p \in DOMAIN tables["category_brand"], DeletePair(c, p) PROVE Good
  BY <1>3, DeleteHolds DEF DeletePair, TaxTables, taxVars
<1>4. QED
  BY <1>1, <1>2, <1>3 DEF Pair

LEMMA BannerHolds == ASSUME TaxInv, NEW c \in Callers, Banner(c) PROVE Good
<1>1. ASSUME NEW v \in Values, CreateBanner(c, v) PROVE Good
  <2>1. NewRow(Empty, v, Empty) \in TaxRow
    BY DEF NewRow, TaxRow, TaxCols
  <2>2. QED
    BY <1>1, <2>1, InsertHolds DEF CreateBanner
<1>2. ASSUME NEW i \in DOMAIN tables["banner"], DeleteBanner(c, i) PROVE Good
  BY <1>2, DeleteHolds DEF DeleteBanner, TaxTables, taxVars
<1>3. ASSUME NEW i \in DOMAIN tables["banner"], NEW v \in Values \cup {Empty},
             UpdateBannerFind(c, i, v)
      PROVE  Good
  <2> DEFINE old == tables["banner"][i]
             r == [old EXCEPT !.a = IF v = Empty THEN @ ELSE v]
             held == [pc |-> "save", table |-> "banner", id |-> i, row |-> r]
  <2>1. i \in Nat /\ old \in TaxRow
    BY DEF TaxInv, TaxTypeOK, TaxTables
  <2>2. r \in TaxRow
    BY <2>1 DEF TaxRow, TaxCols
  <2>3. /\ call' = [call EXCEPT ![c] = held] /\ UNCHANGED <<tables, updated>>
        /\ Request(c) /\ i \in LiveRows("banner")
    BY <1>3 DEF UpdateBannerFind, Hold, taxVars
  <2> HIDE DEF r
  <2>4. held \in TaxCall
    BY <2>1, <2>2 DEF TaxCall, TaxTables
  <2>5. PICK x \in TaxCall :
          /\ call' = [call EXCEPT ![c] = x]
          /\ x.pc = "save" /\ x.table = "banner" /\ x.id = i
    BY <2>3, <2>4
  <2>6. Known(x)'
    BY <2>3, <2>5 DEF Known, LiveRows
  <2>7. QED
    BY <2>3, <2>5, <2>6, RequestHold
<1>4. QED
  BY <1>1, <1>2, <1>3 DEF Banner

LEMMA SaveHolds ==
  ASSUME TaxInv, NEW c \in Callers, Save(c), UNCHANGED taxVars
  PROVE  Good
<1> DEFINE t == call[c].table
           r == call[c].row
           i == call[c].id
           rows == tables[t]
<1>1. call[c].pc # "rest" /\ UNCHANGED updated
  BY DEF Save, SaveInsert, SaveUpdate, SaveMiss, SaveUpsert, StatementFail, AtSave, taxVars
<1>2. /\ call[c] \in TaxCall
      /\ calm => /\ \A d \in Callers : d # c => call[d].pc = "rest"
                 /\ Known(call[c]) /\ NamesDiffer
  BY <1>1, FollowUp
<1>3. t \in TaxTables /\ r \in TaxRow /\ i \in Nat
  BY <1>2 DEF TaxCall
<1>4. rows \in Seq(TaxRow)
  BY <1>3 DEF TaxInv, TaxTypeOK
<1>5. CASE SaveInsert(c)
  <2> DEFINE new == IF Clash(t, 0, r.key) THEN rows ELSE Append(rows, r)
  <2>1. /\ i = 0 /\ call[c].pc = "save" /\ Write(t, new) /\ UNCHANGED calm
        /\ call' = [call EXCEPT ![c] = Rest]
    BY <1>5 DEF SaveInsert, AtSave, Done
  <2>2. /\ new \in Seq(TaxRow)
        /\ DOMAIN new = DOMAIN rows \/ DOMAIN new = DOMAIN rows \cup {Len(rows) + 1}
        /\ Len(rows) + 1 \notin DOMAIN rows
        /\ \A j \in DOMAIN rows : new[j] = rows[j]
        /\ Len(rows) + 1 \in DOMAIN new => new[Len(rows) + 1] = r
    BY <1>3, <1>4, AppendRow
  <2> HIDE DEF new
  <2>3. ASSUME calm PROVE RowsOK(t, new)
    <3>1. Known(call[c]) /\ NamesDiffer
      BY <1>2, <2>3
    <3>2. t # "brands"
      BY <2>1, <3>1 DEF Known
    <3>3. ASSUME t = "category_brand", NEW p \in DOMAIN new, p \notin DOMAIN rows
          PROVE  new[p].key[1] \in LiveRows("categories") /\ new[p].key[2] \in LiveRows("brands")
      BY <2>1, <2>2, <3>1, <3>3 DEF Known
    <3>4. QED
      BY <2>2, <3>2, <3>3 DEF RowsOK
  <2>4. QED
    BY <1>1, <1>2, <1>3, <2>1, <2>2, <2>3, RestKnown, CallerStep
<1>6. CASE SaveUpdate(c) \/ SaveUpsert(c)
  <2> DEFINE new == IF Clash(t, i, r.key) THEN rows ELSE [rows EXCEPT ![i] = r]
  <2>1. /\ Write(t, new) /\ UNCHANGED calm /\ call' = [call EXCEPT ![c] = Rest]
        /\ call[c].pc = "upsert" \/ (call[c].pc = "save" /\ i \in LiveRows(t))
    BY <1>6 DEF SaveUpdate, SaveUpsert, Overwrite, AtSave, Done
  <2>2. /\ new \in Seq(TaxRow) /\ DOMAIN new = DOMAIN rows
        /\ new[i] = rows[i] \/ new[i] = r \/ i \notin DOMAIN rows
        /\ \A j \in DOMAIN rows : j # i => new[j] = rows[j]
    BY <1>3, <1>4, SetRow
  <2> HIDE DEF new
  <2>3. ASSUME calm PROVE RowsOK(t, new)
    <3>1. Known(call[c]) /\ call[c].pc = "save" /\ i \in LiveRows(t)
      BY <1>2, <2>1, <2>3 DEF Known
    <3>2. i # 0 /\ i \in DOMAIN rows /\ rows[i].st = "live"
      BY <1>4, <3>1 DEF LiveRows
    <3>3. t # "brands"
      BY <3>1 DEF Known
    <3>4. t = "category_brand" =>
            r.key[1] \in LiveRows("categories") /\ r.key[2] \in LiveRows("brands")
      BY <3>1 DEF Known
    <3>5. QED
      BY <2>2, <3>2, <3>3, <3>4 DEF RowsOK
  <2>4. QED
    BY <1>1, <1>2, <1>3, <2>1, <2>2, <2>3, RestKnown, CallerStep
<1>7. CASE SaveMiss(c)
  <2> DEFINE held == [call[c] EXCEPT !.pc = "upsert"]
  <2>1. /\ call[c].pc = "save" /\ i \in DOMAIN rows \ LiveRows(t)
        /\ call' = [call EXCEPT ![c] = held] /\ UNCHANGED <<tables, calm>>
    BY <1>7 DEF SaveMiss, AtSave
  <2>2. held \in TaxCall
    BY <1>2 DEF TaxCall
  <2>3. i # 0
    BY <1>4, <2>1
  <2>4. ~calm
    BY <1>2, <2>1, <2>3 DEF Known
  <2> HIDE DEF held
  <2>5. PICK x \in TaxCall : x = held
    BY <2>2
  <2>6. QED
    BY <2>1, <2>4, <2>5, LookStep
<1>8. CASE StatementFail(c)
  BY <1>8, RestKnown, LookStep DEF StatementFail, Failure, Done
<1>9. QED
  BY <1>5, <1>6, <1>7, <1>8 DEF Save

LEMMA WalkHolds ==
  ASSUME TaxInv, UNCHANGED <<gormVars, updated>>
  PROVE  Good
<1>1. /\ TaxTypeOK /\ (calm => CalmInv)
      /\ UNCHANGED <<tables, call, calm, updated>>
  BY InvNow DEF gormVars
<1>2. TaxTypeOK'
  BY <1>1 DEF TaxTypeOK
<1>3. \A c \in Callers : calm => Known(call[c])'
  BY <1>1 DEF CalmInv, Known, Named, LiveRows
<1>4. calm' => CalmInv'
  BY <1>1, <1>3 DEF CalmInv, NamesDiffer, Named, LiveRows
<1>5. QED
  BY <1>1, <1>2, <1>4, InvNext DEF Good, DeletedStep, PairStep

LEMMA NextHolds == ASSUME TaxInv, TaxNext PROVE Good
<1>1. ASSUME NEW c \in Callers,
             \/ Brand(c) \/ Category(c) \/ Pair(c) \/ Banner(c)
             \/ Save(c) /\ UNCHANGED taxVars
      PROVE  Good
  BY <1>1, BrandHolds, CategoryHolds, PairHolds, BannerHolds, SaveHolds
<1>2. ASSUME NEW size \in WalkSizes, WalkPage(size) PROVE Good
  BY <1>2, WalkHolds DEF WalkPage
<1>3. QED
  BY <1>1, <1>2 DEF TaxNext, BrandNext, CallNext

LEMMA InitHolds == ASSUME GormInit, TaxInit PROVE TaxInv
<1>1. tables = InitialRows /\ call = [c \in Callers |-> Rest]
  BY DEF GormInit
<1>2. TaxTypeOK
  BY <1>1, TaxonomyAssumption, RestKnown DEF TaxTypeOK
<1>3. \A c \in Callers : Known(call[c]) /\ call[c].pc = "rest"
  BY <1>1, RestKnown
<1>4. NamesDiffer
  <2>1. ASSUME NEW n, NEW i \in Named(n), NEW j \in Named(n) PROVE i = j
    <3>1. /\ i \in DOMAIN InitialRows["brands"] /\ j \in DOMAIN InitialRows["brands"]
          /\ InitialRows["brands"][i].a = InitialRows["brands"][j].a
      BY <1>1 DEF Named, LiveRows
    <3>2. QED
      BY <3>1, TaxonomyAssumption
  <2>2. QED
    BY <2>1 DEF NamesDiffer
<1>5. QED
  BY <1>2, <1>3, <1>4, InvNow DEF CalmInv

-----------------------------------------------------------------------------
\* Theorems

\* The inductive invariant: as long as calls come one after the other, what a
\* handler has looked up is still so when it writes.
THEOREM Invariant == TaxSpec => []TaxInv
<1>1. ASSUME TaxInv, TaxNext PROVE TaxInv'
  BY <1>1, NextHolds DEF Good
<1>2. ASSUME TaxInv, UNCHANGED <<gormVars, taxVars>> PROVE TaxInv'
  BY <1>2, WalkHolds DEF Good, taxVars
<1>3. QED
  BY <1>1, <1>2, InitHolds, PTL DEF TaxSpec

\* Two live brands have one name only if calls overlapped, one failed, or
\* UpdateBrand inserted the second (CreateBrand, UpdateBrand).
THEOREM NamesAreUnique == TaxSpec => []NameOnce
<1>1. TaxInv => NameOnce
  <2> SUFFICES ASSUME TaxInv, calm, NEW n \in Values \ updated
               PROVE  Cardinality(Named(n)) <= 1
    BY DEF NameOnce
  <2>1. \A i, j \in Named(n) : i = j
    BY DEF TaxInv
  <2>2. CASE Named(n) = {}
    BY <2>2, FS_EmptySet
  <2>3. CASE Named(n) # {}
    <3>1. PICK i : Named(n) = {i}
      BY <2>1, <2>3
    <3>2. QED
      BY <3>1, FS_Singleton
  <2>4. QED
    BY <2>2, <2>3
<1>2. QED
  BY <1>1, Invariant, PTL

\* Deleted brands, categories, pairs and banners stay deleted as long as calls
\* come one after the other (Save's fallback to an insert).
THEOREM DeletedRowsStay == TaxSpec => DeletedStays
<1>1. ASSUME TaxInv, [TaxNext]_<<gormVars, taxVars>>
      PROVE  [DeletedStep]_gormVars
  <2>1. CASE TaxNext
    BY <1>1, <2>1, NextHolds DEF Good
  <2>2. CASE UNCHANGED <<gormVars, taxVars>>
    BY <2>2
  <2>3. QED
    BY <1>1, <2>1, <2>2
<1>2. QED
  BY <1>1, Invariant, PTL DEF TaxSpec, DeletedStays, DeletedStep

\* As long as calls come one after the other, CreateCategoryBrand and
\* UpdateCategoryBrand write pairs of what exists only.
THEOREM PairsStayOfLive == TaxSpec => PairsOfLive
<1>1. ASSUME TaxInv, [TaxNext]_<<gormVars, taxVars>>
      PROVE  [PairStep]_gormVars
  <2>1. CASE TaxNext
    BY <1>1, <2>1, NextHolds DEF Good
  <2>2. CASE UNCHANGED <<gormVars, taxVars>>
    BY <2>2
  <2>3. QED
    BY <1>1, <2>1, <2>2
<1>2. QED
  BY <1>1, Invariant, PTL DEF TaxSpec, PairsOfLive, PairStep
=============================================================================
