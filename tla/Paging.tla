------------------------------- MODULE Paging -------------------------------
(***************************************************************************)
(* Pages of a list.  Paginate stands in handler/base.go of goods_srv,      *)
(* order_srv and userop_srv and in handler/user.go of user_srv, four times *)
(* the same; GoodsList (goods_srv/handler/goods.go) has a rule of its own. *)
(***************************************************************************)
EXTENDS Integers, FiniteSets

CONSTANTS PageCap,     \* 100
          PageDefault  \* 10

ASSUME PagingAssumption ==
  /\ PageCap \in Nat \ {0} /\ PageDefault \in 1..PageCap

PageNumber(page) == IF page = 0 THEN 1 ELSE page
PageSize(size) ==
  IF size > PageCap THEN PageCap ELSE IF size <= 0 THEN PageDefault ELSE size

\* Mutant: the offset is reckoned with the size as it was asked for.
OffsetAsked(page, size) == (PageNumber(page) - 1) * size

Offset(page, size) == (PageNumber(page) - 1) * PageSize(size)

\* gorm leaves an OFFSET that is not positive out of the statement.
OnPage(rank, page, size) ==
  LET from == IF Offset(page, size) > 0 THEN Offset(page, size) ELSE 0
  IN from < rank /\ rank <= from + PageSize(size)

\* The place of id i among the ids S, which MySQL reads in order.
Rank(S, i) == Cardinality({j \in S : j <= i})

PageOf(S, page, size) == {i \in S : OnPage(Rank(S, i), page, size)}

\* GoodsList hands its page number to Elasticsearch as the number of hits to
\* leave out.
OnHitPage(rank, page, size) ==
  LET from == PageNumber(page)
  IN from < rank /\ rank <= from + PageSize(size)
=============================================================================
