----------------------------- MODULE GoodsSearch -----------------------------
(***************************************************************************)
(* GoodsList (goods_srv/handler/goods.go) beside the writers of Catalog:   *)
(* it asks Elasticsearch for the documents of a page and then MySQL for    *)
(* the rows with their ids.  Which documents match a request and how they  *)
(* are ranked is left open.                                                *)
(***************************************************************************)
EXTENDS Catalog, Paging

CONSTANTS Pages, Sizes  \* what a request asks for

VARIABLES hits,  \* the ids Elasticsearch answered with, None before it did
          shown  \* what the last GoodsList answered

searchVars == <<hits, shown>>

SearchInit ==
  /\ hits = None
  /\ shown = {}

Documents == {p \in Ids : doc[p] # None}
LiveGoods == {p \in Ids : row[p] \in Contents}

\* Of n matching documents, how many are on the page.
HitsOnPage(n, page, size) == Cardinality({rank \in 1..n : OnHitPage(rank, page, size)})

Search(page, size) ==
  /\ hits = None
  /\ \E matching \in SUBSET Documents :
       /\ hits' \in SUBSET matching
       /\ Cardinality(hits') = HitsOnPage(Cardinality(matching), page, size)
  /\ UNCHANGED <<vars, shown>>

\* An error of Elasticsearch, and one of MySQL, is GoodsList's answer.
ListFail ==
  /\ hits # None
  /\ hits' = None
  /\ UNCHANGED <<vars, shown>>

\* Find with ids; gorm leaves the condition out if there is none.
FindGoods ==
  /\ hits # None
  /\ shown' = IF hits = {} THEN LiveGoods ELSE hits \cap LiveGoods
  /\ hits' = None
  /\ UNCHANGED vars

SearchNext ==
  \/ Next /\ UNCHANGED searchVars
  \/ \E page \in Pages, size \in Sizes : Search(page, size)
  \/ ListFail \/ FindGoods

SearchSpec == Init /\ SearchInit /\ [][SearchNext]_<<vars, searchVars>>

-----------------------------------------------------------------------------
\* GoodsList answers with the rows whose id is in the array it got from
\* Elasticsearch (comment, goods.go:132), and with no other.
ShowsOnlyHits == [][shown' # shown => shown' \subseteq hits]_<<vars, searchVars>>
=============================================================================
