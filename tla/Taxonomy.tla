------------------------------ MODULE Taxonomy ------------------------------
(***************************************************************************)
(* Categories, brands, the pairs of both and the banners of goods_srv      *)
(* (handler/category.go, brands.go, category_brand.go, banner.go), and a   *)
(* client that walks the pages of BrandList meanwhile.                     *)
(*                                                                         *)
(* Brands, categories and banners have their name (image) in column a; the *)
(* key of a pair is <<category id, brand id>>.  Logos, levels and parents  *)
(* are left out: no handler looks at them again.                           *)
(***************************************************************************)
EXTENDS Gorm, Paging

CONSTANT WalkSizes  \* page sizes a client may ask for

VARIABLES walk,    \* the client's walk through the brands
          updated  \* history: the names UpdateBrand was called with

taxVars == <<walk, updated>>

TaxTables == {"brands", "categories", "category_brand", "banner"}

\* The names there were, and those in requests
TaxCols == Values \cup {Empty} \cup
  UNION {{InitialRows[t][i].a : i \in DOMAIN InitialRows[t]} : t \in TaxTables}
TaxRow == [key : {Empty} \cup (Nat \X Nat), a : TaxCols, b : {Empty},
           st : {"live", "deleted", "unseen"}]

ASSUME TaxonomyAssumption ==
  /\ WalkSizes \subseteq Int
  /\ InitialRows = [t \in TableNames |-> InitialRows[t]]
  /\ \A t \in TaxTables : InitialRows[t] \in Seq(TaxRow)
  /\ \A i, j \in DOMAIN InitialRows["brands"] :
       InitialRows["brands"][i].a = InitialRows["brands"][j].a => i = j

TaxInit ==
  /\ walk = [page |-> 0, size |-> 0, seen |-> {}, stay |-> {},
             twice |-> FALSE, cut |-> FALSE, late |-> FALSE, done |-> FALSE]
  /\ updated = {}

-----------------------------------------------------------------------------
\* Brands

Named(n) == {i \in LiveRows("brands") : tables["brands"][i].a = n}
NewBrand(c, n) == Hold(c, "insert", "brands", 0, NewRow(Empty, n, Empty))

\* Mutant: nothing is looked up.
CreateBrandFindNot(c, n) ==
  /\ Request(c)
  /\ NewBrand(c, n)
  /\ UNCHANGED <<tables, failures, taxVars>>

\* CreateBrand; no index keeps names apart.
CreateBrandFind(c, n) ==
  /\ Named(n) = {}
  /\ Request(c)
  /\ NewBrand(c, n)
  /\ UNCHANGED <<tables, failures, taxVars>>

\* A query that fails counts as no brand.
CreateBrandFindFail(c, n) ==
  /\ call[c] = Rest /\ requests < MaxRequests
  /\ requests' = requests + 1
  /\ Failure
  /\ NewBrand(c, n)
  /\ UNCHANGED <<tables, taxVars>>

\* UpdateBrand looks for the brand, and then saves a new row.
UpdateBrandFind(c, n) ==
  /\ Named(n) # {}
  /\ Request(c)
  /\ NewBrand(c, n)
  /\ updated' = updated \cup {n}
  /\ UNCHANGED <<tables, failures, walk>>

\* Save's INSERT takes the next id, with a row nobody sees before its COMMIT,
BrandInsert(c) ==
  /\ call[c].pc = "insert"
  /\ Write("brands", Append(tables["brands"], [call[c].row EXCEPT !.st = "unseen"]))
  /\ Hold(c, "commit", "brands", Len(tables["brands"]) + 1, call[c].row)
  /\ UNCHANGED <<calm, requests, failures, taxVars>>

\* which may come after that of a higher id.
BrandCommit(c) ==
  /\ call[c].pc = "commit"
  /\ Write("brands", [tables["brands"] EXCEPT ![call[c].id] = call[c].row])
  /\ Done(c)
  /\ walk' = [walk EXCEPT !.late = @ \/ \E i \in walk.seen : i >= call[c].id]
  /\ UNCHANGED <<calm, requests, failures, updated>>

DeleteBrand(c, i) ==
  /\ DeleteRows(c, "brands", {i} \cap LiveRows("brands"), "deleted")
  /\ walk' = [walk EXCEPT !.stay = @ \ {i}, !.cut = @ \/ i \in walk.seen]
  /\ UNCHANGED updated

\* BrandList, one page after the other, until one is not full.
WalkPage(size) ==
  /\ ~walk.done
  /\ walk.page = 0 \/ walk.size = size
  /\ LET page == walk.page + 1
         live == LiveRows("brands")
         got == PageOf(live, page, size)
     IN walk' = [page |-> page, size |-> size, seen |-> walk.seen \cup got,
                 stay |-> IF page = 1 THEN live ELSE walk.stay,
                 twice |-> walk.twice \/ walk.seen \cap got # {},
                 cut |-> walk.cut, late |-> walk.late,
                 done |-> Cardinality(got) < PageSize(size)]
  /\ UNCHANGED <<gormVars, updated>>

-----------------------------------------------------------------------------
\* Categories

CreateCategory(c, n) ==
  Insert(c, "categories", NewRow(Empty, n, Empty)) /\ UNCHANGED taxVars

DeleteCategory(c, i) ==
  /\ DeleteRows(c, "categories", {i} \cap LiveRows("categories"), "deleted")
  /\ UNCHANGED taxVars

\* UpdateCategory keeps the name it read if the request has none,
UpdateCategoryFind(c, i, n) ==
  /\ i \in LiveRows("categories")
  /\ Request(c)
  /\ LET old == tables["categories"][i]
     IN Hold(c, "updates", "categories", i,
             [old EXCEPT !.a = IF n = Empty THEN @ ELSE n])
  /\ UNCHANGED <<tables, failures, taxVars>>

\* and writes with Updates, which changes live rows only.
UpdateCategoryWrite(c) ==
  /\ call[c].pc = "updates"
  /\ Write("categories", IF call[c].id \in LiveRows("categories")
                         THEN [tables["categories"] EXCEPT ![call[c].id] = call[c].row]
                         ELSE tables["categories"])
  /\ Done(c)
  /\ UNCHANGED <<calm, requests, failures, taxVars>>

-----------------------------------------------------------------------------
\* Pairs

\* UpdateCategoryBrand finds the pair first,
UpdatePairFind(c, p, k, b) ==
  /\ p \in LiveRows("category_brand")
  /\ Request(c)
  /\ Hold(c, "category", "category_brand", p, NewRow(<<k, b>>, Empty, Empty))
  /\ UNCHANGED <<tables, failures, taxVars>>

\* then, as CreateCategoryBrand does, the category
CreatePairFind(c, k, b) ==
  /\ Request(c)
  /\ Hold(c, "category", "category_brand", 0, NewRow(<<k, b>>, Empty, Empty))
  /\ UNCHANGED <<tables, failures, taxVars>>

PairCategory(c) ==
  /\ call[c].pc = "category"
  /\ IF call[c].row.key[1] \in LiveRows("categories")
     THEN call' = [call EXCEPT ![c].pc = "brand"] ELSE Done(c)
  /\ UNCHANGED <<tables, calm, requests, failures, taxVars>>

\* Mutant: the brand is not looked up.
PairBrandNot(c) ==
  /\ call[c].pc = "brand"
  /\ call' = [call EXCEPT ![c].pc = "save"]
  /\ UNCHANGED <<tables, calm, requests, failures, taxVars>>

\* and the brand.
PairBrand(c) ==
  /\ call[c].pc = "brand"
  /\ IF call[c].row.key[2] \in LiveRows("brands")
     THEN call' = [call EXCEPT ![c].pc = "save"] ELSE Done(c)
  /\ UNCHANGED <<tables, calm, requests, failures, taxVars>>

DeletePair(c, p) ==
  /\ DeleteRows(c, "category_brand", {p} \cap LiveRows("category_brand"), "deleted")
  /\ UNCHANGED taxVars

-----------------------------------------------------------------------------
\* Banners

CreateBanner(c, v) ==
  Insert(c, "banner", NewRow(Empty, v, Empty)) /\ UNCHANGED taxVars

\* Mutant: a deleted banner is found as well.
UpdateBannerFindDeleted(c, i, v) ==
  /\ i \in DOMAIN tables["banner"]
  /\ Request(c)
  /\ Hold(c, "save", "banner", i,
          [tables["banner"][i] EXCEPT !.a = IF v = Empty THEN @ ELSE v, !.st = "live"])
  /\ UNCHANGED <<tables, failures, taxVars>>

UpdateBannerFind(c, i, v) ==
  /\ i \in LiveRows("banner")
  /\ Request(c)
  /\ Hold(c, "save", "banner", i,
          [tables["banner"][i] EXCEPT !.a = IF v = Empty THEN @ ELSE v])
  /\ UNCHANGED <<tables, failures, taxVars>>

DeleteBanner(c, i) ==
  /\ DeleteRows(c, "banner", {i} \cap LiveRows("banner"), "deleted")
  /\ UNCHANGED taxVars

-----------------------------------------------------------------------------
Brand(c) ==
  \/ \E n \in Values :
       CreateBrandFind(c, n) \/ CreateBrandFindFail(c, n) \/ UpdateBrandFind(c, n)
  \/ BrandInsert(c) \/ BrandCommit(c)
  \/ \E i \in DOMAIN tables["brands"] : DeleteBrand(c, i)

Category(c) ==
  \/ \E n \in Values : CreateCategory(c, n)
  \/ \E i \in DOMAIN tables["categories"] :
       DeleteCategory(c, i) \/ \E n \in Values \cup {Empty} : UpdateCategoryFind(c, i, n)
  \/ UpdateCategoryWrite(c)

Pair(c) ==
  \/ \E k \in DOMAIN tables["categories"], b \in DOMAIN tables["brands"] :
       \/ CreatePairFind(c, k, b)
       \/ \E p \in DOMAIN tables["category_brand"] : UpdatePairFind(c, p, k, b)
  \/ PairCategory(c) \/ PairBrand(c)
  \/ \E p \in DOMAIN tables["category_brand"] : DeletePair(c, p)

Banner(c) ==
  \/ \E v \in Values : CreateBanner(c, v)
  \/ \E i \in DOMAIN tables["banner"] :
       DeleteBanner(c, i) \/ \E v \in Values \cup {Empty} : UpdateBannerFind(c, i, v)

\* Brands, and a walk through them
BrandNext ==
  \/ \E c \in Callers : Brand(c) \/ (Save(c) /\ UNCHANGED taxVars)
  \/ \E size \in WalkSizes : WalkPage(size)

CallNext ==
  \E c \in Callers :
    \/ Brand(c) \/ Category(c) \/ Pair(c) \/ Banner(c)
    \/ Save(c) /\ UNCHANGED taxVars

TaxNext == BrandNext \/ CallNext

TaxSpec == GormInit /\ TaxInit /\ [][TaxNext]_<<gormVars, taxVars>>

-----------------------------------------------------------------------------
\* Properties

\* CreateBrand refuses a name that is there.  As long as calls come one after
\* the other that keeps names apart, but for those UpdateBrand inserts again.
NameOnce ==
  calm => \A n \in Values \ updated : Cardinality(Named(n)) <= 1

\* A walk through the pages of BrandList, with brands coming and going
\* between two pages: none is listed twice, and one that was there all the
\* time is missed only if a brand listed before was deleted meanwhile.  Both
\* are promised as long as no INSERT commits after the page its id belongs to.
WalkExact ==
  ~walk.late => /\ ~walk.twice
                /\ walk.done /\ ~walk.cut => walk.stay \subseteq walk.seen

\* As long as calls come one after the other, a pair is written only for a
\* category and a brand that exist.
PairsOfLive ==
  [][calm' => \A p \in DOMAIN tables'["category_brand"] :
       LET key == tables'["category_brand"][p].key IN
       \/ p \in DOMAIN tables["category_brand"] /\ key = tables["category_brand"][p].key
       \/ key[1] \in LiveRows("categories") /\ key[2] \in LiveRows("brands")]_gormVars

-----------------------------------------------------------------------------
\* The inductive invariant behind NameOnce, PairsOfLive and DeletedStays

TaxCall == [pc : {"rest", "save", "upsert", "updates", "category", "brand",
                    "insert", "commit"},
            table : TaxTables, id : Nat, row : TaxRow]

TaxTypeOK ==
  /\ tables = [t \in TableNames |-> tables[t]]
  /\ \A t \in TaxTables : tables[t] \in Seq(TaxRow)
  /\ call \in [Callers -> TaxCall]

\* What a handler has looked up and relies on.
Known(x) ==
  /\ x.pc # "upsert"
  /\ x.pc = "updates" => x.table = "categories"
  /\ x.pc \in {"category", "brand"} => x.table = "category_brand"
  /\ \/ x.pc \in {"rest", "commit"} \/ x.id \in LiveRows(x.table)
     \/ x.id = 0 /\ x.pc # "updates"
  /\ x.table = "brands" => x.pc \in {"rest", "insert", "commit"}
  /\ x.pc \in {"insert", "commit"} => Named(x.row.a) = {} \/ x.row.a \in updated
  /\ x.pc = "commit" => tables["brands"][x.id].st = "unseen"
  /\ x.table = "category_brand" =>
       /\ x.pc \in {"brand", "save"} => x.row.key[1] \in LiveRows("categories")
       /\ x.pc = "save" => x.row.key[2] \in LiveRows("brands")

\* As long as calls come one after the other, one is under way at most, and
\* what it relies on is still so.
TaxInv ==
  /\ TaxTypeOK
  /\ calm =>
       /\ \A c, d \in Callers : call[c].pc # "rest" /\ call[d].pc # "rest" => c = d
       /\ \A c \in Callers : Known(call[c])
       /\ \A n \in Values \ updated : \A i, j \in Named(n) : i = j

-----------------------------------------------------------------------------
\* The inductive invariant behind WalkExact: a brand is only ever inserted or
\* deleted.  Unless one turns up late, the listed brands that are left are
\* within the pages read; until one of them is deleted they are all there is
\* on those pages, and enough to fill them.
WalkState == [page : Nat, size : Int, seen : SUBSET DOMAIN tables["brands"],
              stay : SUBSET DOMAIN tables["brands"],
              twice : BOOLEAN, cut : BOOLEAN, late : BOOLEAN, done : BOOLEAN]

PagesRead == walk.page * PageSize(walk.size)

WalkPages ==
  LET live == LiveRows("brands") IN
  /\ \A i \in walk.seen \cap live : Rank(live, i) <= PagesRead
  /\ ~walk.done /\ ~walk.cut =>
       /\ walk.stay \subseteq live
       /\ PagesRead <= Cardinality(walk.seen \cap live)
       /\ \A i \in live : Rank(live, i) <= PagesRead => i \in walk.seen
  /\ walk.done /\ ~walk.cut => walk.stay \subseteq walk.seen

WalkInv ==
  /\ \A c \in Callers :
       /\ call[c].table = "brands" => call[c].pc \in {"rest", "insert", "commit"}
       /\ call[c].pc \in {"insert", "commit"} => call[c].row.st = "live"
  /\ walk \in WalkState
  /\ ~walk.late => ~walk.twice /\ WalkPages
=============================================================================
