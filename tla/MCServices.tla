----------------------------- MODULE MCServices -----------------------------
(***************************************************************************)
(* What goods_srv, user_srv and userop_srv keep beside products, the rows  *)
(* of the stock, how a service starts and stops, and the spans of otgrpc.  *)
(* No step of one reads what another writes, so interleavings add nothing: *)
(* a behaviour is about one of them, the focus.  The walk through the      *)
(* pages of the brands reads nothing but brands and has a focus of its own.*)
(***************************************************************************)
EXTENDS Taxonomy, Profiles, StockRows, Registration, Tracing

VARIABLE focus

restVars == <<regVars, traceVars>>
servicesVars == <<focus, gormVars, taxVars, profVars, stockRowVars, restVars>>

\* Four brands make two pages or more of either size.
MCRow(key, a) == NewRow(key, a, Empty)
MCOne == CHOOSE v \in Values : TRUE
MCUser == CHOOSE u \in Users : TRUE
MCMobile == CHOOSE m \in Mobiles : TRUE
MCInitialRows ==
  [t \in TableNames |->
     CASE t = "brands" -> <<MCRow(Empty, MCOne), MCRow(Empty, "old2"),
                            MCRow(Empty, "old3"), MCRow(Empty, "old4")>>
       [] t = "categories" -> <<MCRow(Empty, MCOne)>>
       [] t = "banner" -> <<MCRow(Empty, MCOne)>>
       [] t = "user" -> <<MCRow(MCMobile, <<MCMobile, MCOne>>)>>
       [] t = "address" -> <<MCRow(MCUser, <<MCUser, MCOne>>)>>
       [] OTHER -> <<>>]

\* Instance 1 has a port of its own, the others look for one.
MCPortFlag == [i \in Instances |-> IF i = 1 THEN 7 ELSE 0]

MCInit ==
  /\ focus \in {"goods", "brands", "user", "stock", "start", "trace"}
  /\ GormInit /\ TaxInit /\ ProfInit /\ StockInit /\ RegInit /\ TraceInit

GoodsNext ==
  /\ focus = "goods" /\ CallNext
  /\ UNCHANGED <<focus, profVars, stockRowVars, restVars>>
WalkNext ==
  /\ focus = "brands" /\ BrandNext
  /\ UNCHANGED <<focus, profVars, stockRowVars, restVars>>
UserNext ==
  /\ focus = "user" /\ ProfNext
  /\ UNCHANGED <<focus, taxVars, stockRowVars, restVars>>
RowsNext ==
  /\ focus = "stock" /\ StockNext
  /\ UNCHANGED <<focus, taxVars, profVars, restVars>>
StartNext ==
  /\ focus = "start" /\ RegNext
  /\ UNCHANGED <<focus, gormVars, taxVars, profVars, stockRowVars, traceVars>>
SpanNext ==
  /\ focus = "trace" /\ TraceNext
  /\ UNCHANGED <<focus, gormVars, taxVars, profVars, stockRowVars, regVars>>

MCNext == GoodsNext \/ WalkNext \/ UserNext \/ RowsNext \/ StartNext \/ SpanNext

MCSpec ==
  /\ MCInit /\ [][MCNext]_servicesVars
  /\ RegFairness /\ TraceFairness

\* Types and the inductive invariants of the proofs
ServicesInv ==
  /\ focus \in {"goods", "brands"} => TaxInv /\ WalkInv
  /\ focus = "user" => ProfInv
  /\ focus = "stock" => StockRowsInv
  /\ RegInv /\ TraceInv
=============================================================================
