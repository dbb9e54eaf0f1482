---------------------------- MODULE PagingProofs ----------------------------
(***************************************************************************)
(* Paginate's pages divide a list; GoodsList's overlap and leave its first *)
(* hit out.  And a walk through the pages of the brands, for any number of *)
(* brands, any page sizes, and any calls between two pages.                *)
(***************************************************************************)
EXTENDS TaxonomyProofs, FunctionTheorems

LEMMA SizeIsPositive ==
  ASSUME NEW size \in Int PROVE PageSize(size) \in 1..PageCap
BY PagingAssumption DEF PageSize

\* What OnPage says of a page from 1 on, with its offset written out.
LEMMA PageBounds ==
  ASSUME NEW rank \in Nat \ {0}, NEW page \in Nat \ {0}, NEW size \in Int,
         NEW n \in Nat \ {0}, n = PageSize(size)
  PROVE  /\ (page - 1) * n \in Nat
         /\ OnPage(rank, page, size) <=> (page - 1) * n < rank /\ rank <= (page - 1) * n + n
<1>1. /\ page - 1 \in Nat /\ (page - 1) * n \in Nat
  OBVIOUS
<1>2. Offset(page, size) = (page - 1) * n
  BY DEF Offset, PageNumber
<1> DEFINE from == (page - 1) * n
<1>3. from \in Nat /\ Offset(page, size) = from
  BY <1>1, <1>2
<1> HIDE DEF from
<1>4. OnPage(rank, page, size) <=> from < rank /\ rank <= from + n
  BY <1>3 DEF OnPage
<1>5. QED
  BY <1>1, <1>4 DEF from

\* The pages from 1 on divide the list: every row is on one, and on no other,
\* whatever size was asked for, zero and negative ones included (Paginate in
\* handler/base.go).
THEOREM PagesDivideTheList ==
  ASSUME NEW rank \in Nat \ {0}, NEW size \in Int
  PROVE  /\ \E page \in Nat \ {0} : OnPage(rank, page, size)
         /\ \A p, q \in Nat \ {0} :
              OnPage(rank, p, size) /\ OnPage(rank, q, size) => p = q
<1> DEFINE n == PageSize(size)
<1>1. n \in Nat \ {0}
  BY SizeIsPositive, PagingAssumption
<1> HIDE DEF n
<1>2. \E page \in Nat \ {0} : OnPage(rank, page, size)
  <2> DEFINE k == (rank - 1) \div n
  <2>1. k \in Nat /\ k * n <= rank - 1 /\ rank - 1 < k * n + n
    BY <1>1, Z3
  <2> HIDE DEF k
  <2>2. k + 1 \in Nat \ {0} /\ (k + 1) - 1 = k
    BY <2>1
  <2>3. k * n \in Nat
    BY <1>1, <2>1
  <2>4. OnPage(rank, k + 1, size)
    <3>1. k * n < rank /\ rank <= k * n + n
      BY <1>1, <2>1, <2>3
    <3>2. QED
      BY <1>1, <2>2, <3>1, PageBounds DEF n
  <2>5. QED
    BY <2>2, <2>4
<1>3. ASSUME NEW p \in Nat \ {0}, NEW q \in Nat \ {0}, p < q,
             OnPage(rank, p, size), OnPage(rank, q, size)
      PROVE  FALSE
  <2>1. PICK d \in Nat : q - 1 = (p - 1) + 1 + d
    <3>1. q - p - 1 \in Nat /\ q - 1 = (p - 1) + 1 + (q - p - 1)
      BY <1>3
    <3>2. QED
      BY <3>1
  <2> DEFINE a == p - 1
  <2>2. a \in Nat /\ a * n \in Nat /\ d * n \in Nat
    BY <1>1
  <2>3. (q - 1) * n = (a + 1 + d) * n
    BY <2>1
  <2> HIDE DEF a
  <2>4. (a + 1 + d) * n = a * n + n + d * n
    BY <1>1, <2>2, Z3
  <2>5. rank <= a * n + n
    BY <1>1, <1>3, PageBounds DEF n, a
  <2>6. (q - 1) * n < rank
    BY <1>1, <1>3, PageBounds DEF n
  <2>7. QED
    BY <1>1, <2>2, <2>3, <2>4, <2>5, <2>6
<1>4. QED
  BY <1>2, <1>3

\* GoodsList leaves the page's number of hits out: the first hit is on no page
\* (From(Pages) in handler/goods.go).
THEOREM FirstHitOnNoPage ==
  ASSUME NEW page \in Nat, NEW size \in Int
  PROVE  ~OnHitPage(1, page, size)
BY DEF OnHitPage, PageNumber

\* And a page moves on by one hit only: all its hits but the first are on the
\* next page too, which has one that is new, the one behind its end.
THEOREM HitPagesOverlap ==
  ASSUME NEW page \in Nat \ {0}, NEW size \in Int, NEW rank \in Nat \ {0}
  PROVE  OnHitPage(rank, page + 1, size)
           <=> \/ OnHitPage(rank, page, size) /\ rank # page + 1
               \/ rank = page + PageSize(size) + 1
<1> DEFINE n == PageSize(size)
<1>1. n \in Nat /\ n >= 1
  BY SizeIsPositive, PagingAssumption
<1>2. PageNumber(page) = page /\ PageNumber(page + 1) = page + 1
  BY DEF PageNumber
<1> HIDE DEF n
<1>3. /\ OnHitPage(rank, page, size) <=> page < rank /\ rank <= page + n
      /\ OnHitPage(rank, page + 1, size) <=> page + 1 < rank /\ rank <= page + 1 + n
  BY <1>1, <1>2 DEF OnHitPage, n
<1>4. (page + 1 < rank /\ rank <= page + 1 + n)
        <=> \/ (page < rank /\ rank <= page + n) /\ rank # page + 1
            \/ rank = page + n + 1
  BY <1>1
<1>5. QED
  BY <1>3, <1>4 DEF n

-----------------------------------------------------------------------------
\* Ranks

LEMMA RankFacts ==
  ASSUME NEW S \in SUBSET Nat, IsFiniteSet(S)
  PROVE  /\ Cardinality(S) \in Nat
         /\ \A i \in S : Rank(S, i) \in 1..Cardinality(S)
         /\ \A i, j \in S : i < j => Rank(S, i) < Rank(S, j)
<1>1. Cardinality(S) \in Nat
  BY FS_CardinalityType
<1>2. ASSUME NEW i \in S
      PROVE  /\ IsFiniteSet({k \in S : k <= i}) /\ Rank(S, i) \in Nat
             /\ Rank(S, i) <= Cardinality(S) /\ Rank(S, i) # 0
  <2> DEFINE A == {k \in S : k <= i}
  <2>1. A \in SUBSET S /\ i \in A
    OBVIOUS
  <2>2. IsFiniteSet(A) /\ Cardinality(A) <= Cardinality(S)
    BY <2>1, FS_Subset
  <2>3. Cardinality(A) \in Nat /\ Cardinality(A) # 0
    BY <2>1, <2>2, FS_CardinalityType, FS_EmptySet
  <2>4. QED
    BY <2>2, <2>3 DEF Rank
<1>3. ASSUME NEW i \in S, NEW j \in S, i < j PROVE Rank(S, i) < Rank(S, j)
  <2>1. i \in Nat /\ j \in Nat /\ \A k \in S : k \in Nat
    OBVIOUS
  <2> DEFINE A == {k \in S : k <= i}
             B == {k \in S : k <= j}
  <2>2. ~(j <= i) /\ j <= j /\ \A k \in S : k <= i => k <= j
    BY <1>3, <2>1
  <2>3. A \in SUBSET B /\ A # B
    BY <2>2
  <2>4. IsFiniteSet(B)
    BY <1>2
  <2>5. Cardinality(A) <= Cardinality(B) /\ Cardinality(A) # Cardinality(B)
    BY <2>3, <2>4, FS_Subset
  <2>6. QED
    BY <1>2, <2>5 DEF Rank
<1>4. ASSUME NEW i \in S PROVE Rank(S, i) \in 1..Cardinality(S)
  <2>1. Rank(S, i) \in Nat /\ Rank(S, i) # 0 /\ Rank(S, i) <= Cardinality(S)
    BY <1>2
  <2>2. QED
    BY <1>1, <2>1
<1>5. QED
  BY <1>1, <1>3, <1>4

\* Ranks are 1, 2 and so on up to the size of the set.
LEMMA RankOnto ==
  ASSUME NEW S \in SUBSET Nat, IsFiniteSet(S), NEW r \in 1..Cardinality(S)
  PROVE  \E i \in S : Rank(S, i) = r
<1> DEFINE m == Cardinality(S)
           f == [i \in S |-> Rank(S, i)]
<1>1. m \in Nat /\ f \in [S -> 1..m]
  BY RankFacts
<1>2. \A i, j \in S : f[i] = f[j] => i = j
  <2> SUFFICES ASSUME NEW i \in S, NEW j \in S, f[i] = f[j] PROVE i = j
    OBVIOUS
  <2>1. i \in Nat /\ j \in Nat /\ Rank(S, i) = Rank(S, j)
    OBVIOUS
  <2>2. Rank(S, i) \in Nat /\ (i < j => Rank(S, i) < Rank(S, j))
        /\ (j < i => Rank(S, j) < Rank(S, i))
    BY RankFacts
  <2>3. QED
    BY <2>1, <2>2
<1>3. f \in Injection(S, 1..m)
  BY <1>1, <1>2, Fun_IsInj
<1>4. IsFiniteSet(1..m) /\ Cardinality(1..m) = m
  <2>1. IsFiniteSet(1..m) /\ Cardinality(1..m) = IF 1 > m THEN 0 ELSE m - 1 + 1
    BY <1>1, FS_Interval
  <2>2. QED
    BY <1>1, <2>1
<1> HIDE DEF f
<1>5. f \in Surjection(S, 1..m)
  BY <1>3, <1>4, FS_Injection
<1>6. \A t \in 1..m : \E i \in S : f[i] = t
  BY <1>5, Fun_SurjectionProperties
<1>7. QED
  BY <1>6 DEF f

LEMMA RankRemove ==
  ASSUME NEW S \in SUBSET Nat, IsFiniteSet(S), NEW d \in S, NEW i \in S, i # d
  PROVE  Rank(S \ {d}, i) = IF d < i THEN Rank(S, i) - 1 ELSE Rank(S, i)
<1> DEFINE A == {k \in S : k <= i}
<1>1. IsFiniteSet(A)
  BY FS_Subset
<1>2. {k \in S \ {d} : k <= i} = A \ {d}
  OBVIOUS
<1>3. d \in A <=> d < i
  BY i \in Nat, d \in Nat
<1> HIDE DEF A
<1>4. Cardinality(A \ {d}) = IF d \in A THEN Cardinality(A) - 1 ELSE Cardinality(A)
  BY <1>1, FS_RemoveElement
<1>5. QED
  BY <1>2, <1>3, <1>4 DEF Rank, A

LEMMA RankInsert ==
  ASSUME NEW S \in SUBSET Nat, IsFiniteSet(S), NEW m \in Nat \ S
  PROVE  /\ IsFiniteSet(S \cup {m})
         /\ Rank(S \cup {m}, m) = Cardinality({k \in S : k < m}) + 1
         /\ \A i \in S : /\ Rank(S, i) \in Nat /\ Rank(S \cup {m}, i) \in Nat
                         /\ Rank(S, i) <= Rank(S \cup {m}, i)
                         /\ i < m => Rank(S \cup {m}, i) = Rank(S, i)
<1> DEFINE T == S \cup {m}
           below == {k \in S : k < m}
<1>1. T \in SUBSET Nat /\ IsFiniteSet(T) /\ T \ {m} = S /\ m \in T
  BY FS_AddElement
<1>2. Rank(T, m) = Cardinality(below) + 1
  <2>1. /\ m \in Nat /\ m <= m /\ ~(m < m)
        /\ \A k \in S : k \in Nat /\ k # m /\ (k <= m <=> k < m)
    OBVIOUS
  <2>2. {k \in T : k <= m} = below \cup {m} /\ m \notin below
    BY <2>1
  <2>3. IsFiniteSet(below)
    BY FS_Subset
  <2>4. Cardinality(below \cup {m}) = Cardinality(below) + 1
    BY <2>2, <2>3, FS_AddElement
  <2>5. QED
    BY <2>2, <2>4 DEF Rank
<1>3. ASSUME NEW i \in S
      PROVE  /\ Rank(S, i) \in Nat /\ Rank(T, i) \in Nat
             /\ Rank(S, i) <= Rank(T, i)
             /\ i < m => Rank(T, i) = Rank(S, i)
  <2>1. i \in T /\ i # m /\ i \in Nat
    BY <1>1
  <2> HIDE DEF T
  <2>2. Rank(T \ {m}, i) = IF m < i THEN Rank(T, i) - 1 ELSE Rank(T, i)
    BY <1>1, <2>1, RankRemove
  <2>3. Rank(S, i) = IF m < i THEN Rank(T, i) - 1 ELSE Rank(T, i)
    BY <1>1, <2>2
  <2>4. Rank(S, i) \in 1..Cardinality(S) /\ Cardinality(S) \in Nat
    BY RankFacts
  <2>5. Rank(T, i) \in 1..Cardinality(T) /\ Cardinality(T) \in Nat
    BY <1>1, <2>1, RankFacts
  <2>6. QED
    BY <2>1, <2>3, <2>4, <2>5
<1>4. QED
  BY <1>1, <1>2, <1>3

\* A page with something behind it is full.
LEMMA FullPage ==
  ASSUME NEW S \in SUBSET Nat, IsFiniteSet(S), NEW from \in Nat, NEW n \in Nat,
         NEW i \in S, Rank(S, i) > from + n
  PROVE  n <= Cardinality({j \in S : from < Rank(S, j) /\ Rank(S, j) <= from + n})
<1> DEFINE got == {j \in S : from < Rank(S, j) /\ Rank(S, j) <= from + n}
           place == [j \in got |-> Rank(S, j)]
           T == (from + 1)..(from + n)
<1>1. IsFiniteSet(got) /\ \A j \in S : Rank(S, j) \in Nat \ {0} /\ Rank(S, j) <= Cardinality(S)
  BY FS_Subset, RankFacts
<1>2. place \in [got -> T]
  <2>1. ASSUME NEW j \in got PROVE Rank(S, j) \in T
    BY <1>1
  <2>2. QED
    BY <2>1
<1>3. ASSUME NEW r \in T PROVE \E j \in got : place[j] = r
  <2>1. r \in 1..Cardinality(S)
    BY <1>1, RankFacts
  <2>2. PICK j \in S : Rank(S, j) = r
    BY <2>1, RankOnto
  <2>3. j \in got
    BY <2>2
  <2>4. QED
    BY <2>2, <2>3
<1>4. place \in Surjection(got, T)
  BY <1>2, <1>3, Fun_IsSurj
<1>5. Cardinality(T) = n
  <2>1. Cardinality(T) = IF from + 1 > from + n THEN 0 ELSE from + n - (from + 1) + 1
    BY FS_Interval, from + 1 \in Int, from + n \in Int
  <2>2. QED
    BY <2>1
<1> HIDE DEF got, place, T
<1>6. Cardinality(T) <= Cardinality(got)
  BY <1>1, <1>4, FS_Surjection
<1>7. QED
  BY <1>5, <1>6 DEF got

-----------------------------------------------------------------------------
\* A walk through a list of brands

LEMMA LiveBrands ==
  ASSUME tables["brands"] \in Seq(TaxRow)
  PROVE  /\ DOMAIN tables["brands"] = 1..Len(tables["brands"])
         /\ Len(tables["brands"]) \in Nat
         /\ LiveRows("brands") \subseteq 1..Len(tables["brands"])
         /\ LiveRows("brands") \subseteq Nat /\ IsFiniteSet(LiveRows("brands"))
<1>1. /\ DOMAIN tables["brands"] = 1..Len(tables["brands"]) /\ Len(tables["brands"]) \in Nat
      /\ LiveRows("brands") \subseteq 1..Len(tables["brands"])
  BY DEF LiveRows
<1>2. IsFiniteSet(1..Len(tables["brands"]))
  BY <1>1, FS_Interval
<1>3. IsFiniteSet(LiveRows("brands"))
  BY <1>1, <1>2, FS_Subset
<1>4. QED
  BY <1>1, <1>3

LEMMA PagesReadFacts ==
  ASSUME WalkInv
  PROVE  /\ walk.page \in Nat /\ walk.size \in Int
         /\ PageSize(walk.size) \in Nat \ {0} /\ PagesRead \in Nat
<1>1. walk.page \in Nat /\ walk.size \in Int
  BY DEF WalkInv, WalkState
<1>2. PageSize(walk.size) \in Nat \ {0}
  BY <1>1, SizeIsPositive, PagingAssumption
<1>3. QED
  BY <1>1, <1>2 DEF PagesRead

\* The next page.
LEMMA PageStep ==
  ASSUME TaxTypeOK, WalkInv, NEW size \in WalkSizes, WalkPage(size)
  PROVE  WalkInv'
<1> DEFINE live == LiveRows("brands")
           n == PageSize(size)
           end == PagesRead
           page == walk.page + 1
           got == PageOf(live, page, size)
<1>1. /\ UNCHANGED <<tables, call>> /\ live' = live
  BY DEF WalkPage, gormVars, LiveRows
<1>2. /\ live \in SUBSET Nat /\ IsFiniteSet(live) /\ live \subseteq DOMAIN tables["brands"]
  BY LiveBrands DEF TaxTypeOK, TaxTables
<1>3. walk \in WalkState /\ (~walk.late => ~walk.twice /\ WalkPages) /\ ~walk.done
  BY DEF WalkInv, WalkPages, WalkPage
<1>4. size \in Int /\ n \in Nat \ {0} /\ page \in Nat \ {0} /\ end \in Nat
  BY TaxonomyAssumption, SizeIsPositive, PagingAssumption, PagesReadFacts
<1>5. (page - 1) * n = end
  <2>1. page - 1 = walk.page /\ (walk.page = 0 \/ walk.size = size)
    BY PagesReadFacts DEF WalkPage
  <2>2. CASE walk.page = 0
    BY <1>4, <2>1, <2>2, PagesReadFacts DEF PagesRead
  <2>3. CASE walk.size = size
    BY <2>1, <2>3 DEF PagesRead
  <2>4. QED
    BY <2>1, <2>2, <2>3
<1>6. page * n = end + n
  <2>1. page * n = (page - 1) * n + n
    BY <1>4, Z3
  <2>2. QED
    BY <1>5, <2>1
<1>7. walk' = [page |-> page, size |-> size, seen |-> walk.seen \cup got,
               stay |-> IF page = 1 THEN live ELSE walk.stay,
               twice |-> walk.twice \/ walk.seen \cap got # {},
               cut |-> walk.cut, late |-> walk.late, done |-> Cardinality(got) < n]
  BY DEF WalkPage
<1>8. got = {i \in live : end < Rank(live, i) /\ Rank(live, i) <= end + n}
  <2>1. \A i \in live : Rank(live, i) \in Nat \ {0}
    BY <1>2, RankFacts
  <2>2. ASSUME NEW i \in live
        PROVE  OnPage(Rank(live, i), page, size)
                 <=> end < Rank(live, i) /\ Rank(live, i) <= end + n
    BY <1>4, <1>5, <2>1, PageBounds
  <2>3. QED
    BY <2>2 DEF PageOf
<1>9. PagesRead' = end + n
  BY <1>6, <1>7 DEF PagesRead
<1> HIDE DEF live, n, end, page, got
<1>10. \A i \in live : Rank(live, i) \in Nat
  <2>1. \A i \in live : Rank(live, i) \in 1..Cardinality(live) /\ Cardinality(live) \in Nat
    BY <1>2, RankFacts
  <2>2. QED
    BY <2>1
<1>11. ASSUME ~walk.late PROVE walk.seen \cap got = {}
  <2>1. \A i \in walk.seen \cap live : Rank(live, i) <= end
    BY <1>3, <1>11 DEF WalkPages, live, end
  <2>2. QED
    BY <1>4, <1>8, <1>10, <2>1
<1>12. walk' \in WalkState'
  <2>1. got \subseteq live
    BY <1>8
  <2>2. /\ walk.seen \subseteq DOMAIN tables["brands"]
        /\ walk.stay \subseteq DOMAIN tables["brands"]
        /\ walk.cut \in BOOLEAN /\ walk.late \in BOOLEAN /\ walk.twice \in BOOLEAN
    BY <1>3 DEF WalkState
  <2>3. /\ walk.seen \cup got \in SUBSET DOMAIN tables["brands"]
        /\ (IF page = 1 THEN live ELSE walk.stay) \in SUBSET DOMAIN tables["brands"]
    BY <1>2, <2>1, <2>2
  <2>4. (walk.twice \/ walk.seen \cap got # {}) \in BOOLEAN
    OBVIOUS
  <2>5. (Cardinality(got) < n) \in BOOLEAN
    OBVIOUS
  <2>6. UNCHANGED tables
    BY <1>1
  <2>7. QED
    BY <1>4, <1>7, <2>2, <2>3, <2>4, <2>5, <2>6 DEF WalkState
<1>13. ASSUME ~walk.late PROVE ~walk'.twice /\ WalkPages'
  <2>0. WalkPages /\ ~walk.twice /\ walk.seen \cap got = {}
    BY <1>3, <1>11, <1>13
  <2>1. /\ walk'.seen = walk.seen \cup got /\ walk'.cut = walk.cut
        /\ walk'.twice = (walk.twice \/ walk.seen \cap got # {})
    BY <1>7
  <2>2. \A i \in walk'.seen \cap live : Rank(live, i) <= end + n
    <3>1. \A i \in walk.seen \cap live : Rank(live, i) <= end
      BY <2>0 DEF WalkPages, live, end
    <3>2. QED
      BY <1>4, <1>8, <1>10, <2>1, <3>1
  <2>3. ASSUME ~walk.cut
        PROVE  /\ walk'.stay \subseteq live
               /\ end <= Cardinality(walk.seen \cap live)
               /\ \A i \in live : Rank(live, i) <= end + n => i \in walk'.seen
    <3>1. /\ walk.stay \subseteq live /\ end <= Cardinality(walk.seen \cap live)
          /\ \A i \in live : Rank(live, i) <= end => i \in walk.seen
      BY <1>3, <2>0, <2>3 DEF WalkPages, live, end
    <3>2. walk'.stay \subseteq live
      BY <1>7, <3>1
    <3>3. \A i \in live : Rank(live, i) <= end + n => i \in walk'.seen
      BY <1>4, <1>8, <1>10, <2>1, <3>1
    <3>4. QED
      BY <3>1, <3>2, <3>3
  <2>4. ASSUME ~walk.cut, ~(Cardinality(got) < n)
        PROVE  end + n <= Cardinality(walk'.seen \cap live)
    <3>1. IsFiniteSet(got) /\ IsFiniteSet(walk.seen \cap live)
      BY <1>2, <1>8, FS_Subset, FS_Intersection
    <3>2. walk'.seen \cap live = (walk.seen \cap live) \cup got
      BY <1>8, <2>1
    <3>3. (walk.seen \cap live) \cap got = {}
      BY <2>0
    <3>4. Cardinality(walk'.seen \cap live)
            = Cardinality(walk.seen \cap live) + Cardinality(got) - 0
      BY <3>1, <3>2, <3>3, FS_Union, FS_EmptySet
    <3>5. Cardinality(got) \in Nat /\ Cardinality(walk.seen \cap live) \in Nat
      BY <3>1, FS_CardinalityType
    <3>6. QED
      BY <1>4, <2>3, <2>4, <3>4, <3>5
  <2>5. ASSUME ~walk.cut, Cardinality(got) < n
        PROVE  walk'.stay \subseteq walk'.seen
    <3>1. ASSUME NEW i \in live PROVE Rank(live, i) <= end + n
      <4>1. CASE Rank(live, i) > end + n
        <5>1. n <= Cardinality(got)
          BY <1>2, <1>4, <1>8, <4>1, FullPage
        <5>2. Cardinality(got) \in Nat
          BY <1>2, <1>8, FS_Subset, FS_CardinalityType
        <5>3. QED
          BY <1>4, <2>5, <5>1, <5>2
      <4>2. QED
        BY <1>4, <1>10, <4>1
    <3>2. QED
      BY <2>3, <2>5, <3>1
  <2>6. walk'.done = (Cardinality(got) < n)
    BY <1>7
  <2>7. live' = live
    BY <1>1 DEF live
  <2>8. WalkPages' <=>
          /\ \A i \in walk'.seen \cap live' : Rank(live', i) <= PagesRead'
          /\ ~walk'.done /\ ~walk'.cut =>
               /\ walk'.stay \subseteq live'
               /\ PagesRead' <= Cardinality(walk'.seen \cap live')
               /\ \A i \in live' : Rank(live', i) <= PagesRead' => i \in walk'.seen
          /\ walk'.done /\ ~walk'.cut => walk'.stay \subseteq walk'.seen
    BY DEF WalkPages, Rank, live
  <2>9. QED
    BY <1>9, <2>0, <2>1, <2>2, <2>3, <2>4, <2>5, <2>6, <2>7, <2>8
<1>14. walk'.late = walk.late
  BY <1>7
<1>15. QED
  BY <1>1, <1>12, <1>13, <1>14 DEF WalkInv, WalkPages, live

\* What the handlers hold of a brand is a row to insert or to commit.
BrandCall(x) ==
  /\ x.table = "brands" => x.pc \in {"rest", "insert", "commit"}
  /\ x.pc \in {"insert", "commit"} => x.row.st = "live"
BrandCalls == \A c \in Callers : BrandCall(call[c])

LEMMA CallStep ==
  ASSUME TaxTypeOK, BrandCalls, NEW c \in Callers, NEW x \in TaxCall, BrandCall(x),
         call' = [call EXCEPT ![c] = x]
  PROVE  BrandCalls'
BY DEF TaxTypeOK, BrandCalls, BrandCall

LEMMA SameBrands ==
  ASSUME WalkInv, BrandCalls', tables'["brands"] = tables["brands"], UNCHANGED walk
  PROVE  WalkInv'
BY DEF WalkInv, WalkState, WalkPages, PagesRead, LiveRows, BrandCalls, BrandCall

\* A row that nobody sees yet.
LEMMA BrandTaken ==
  ASSUME TaxTypeOK, WalkInv, BrandCalls', UNCHANGED walk, NEW r \in TaxRow,
         r.st = "unseen", tables'["brands"] = Append(tables["brands"], r)
  PROVE  WalkInv'
<1> DEFINE rows == tables["brands"]
           m == Len(rows) + 1
<1>1. rows \in Seq(TaxRow)
  BY DEF TaxTypeOK, TaxTables
<1>2. /\ DOMAIN tables'["brands"] = DOMAIN rows \cup {m} /\ m \notin DOMAIN rows
      /\ tables'["brands"][m] = r
      /\ \A i \in DOMAIN rows : tables'["brands"][i] = rows[i]
  BY <1>1, AppendRow
<1>3. LiveRows("brands")' = LiveRows("brands")
  BY <1>2 DEF LiveRows
<1>4. walk' \in WalkState'
  BY <1>2 DEF WalkInv, WalkState
<1>5. WalkPages' <=> WalkPages
  BY <1>3 DEF WalkPages, PagesRead
<1>6. QED
  BY <1>4, <1>5 DEF WalkInv, BrandCalls, BrandCall

\* A row that turns up, behind every brand that is listed or late.
LEMMA BrandSeen ==
  ASSUME TaxTypeOK, WalkInv, BrandCalls', NEW m \in Nat,
         DOMAIN tables'["brands"] = DOMAIN tables["brands"],
         LiveRows("brands")' = LiveRows("brands") \/
         LiveRows("brands")' = LiveRows("brands") \cup {m},
         walk' = [walk EXCEPT !.late = @ \/ \E i \in walk.seen : i >= m]
  PROVE  WalkInv'
<1> DEFINE rows == tables["brands"]
           live == LiveRows("brands")
<1>1. rows \in Seq(TaxRow)
  BY DEF TaxTypeOK, TaxTables
<1>2. live \in SUBSET Nat /\ IsFiniteSet(live)
  BY <1>1, LiveBrands
<1>3. walk \in WalkState /\ PagesRead \in Nat /\ walk.seen \in SUBSET Nat
  BY <1>1, PagesReadFacts DEF WalkInv, WalkState
<1>4. /\ walk'.page = walk.page /\ walk'.size = walk.size /\ walk'.seen = walk.seen
      /\ walk'.stay = walk.stay /\ walk'.twice = walk.twice /\ walk'.cut = walk.cut
      /\ walk'.done = walk.done /\ walk'.late = (walk.late \/ \E i \in walk.seen : i >= m)
  BY <1>3 DEF WalkState
<1>5. walk' \in WalkState'
  <2>1. (walk.late \/ \E i \in walk.seen : i >= m) \in BOOLEAN
    OBVIOUS
  <2>2. QED
    BY <1>3, <2>1 DEF WalkState
<1>6. PagesRead' = PagesRead
  BY <1>4 DEF PagesRead
<1>7. ASSUME ~walk'.late PROVE ~walk'.twice /\ WalkPages'
  <2>1. WalkPages /\ ~walk'.twice /\ \A i \in walk.seen : ~(i >= m)
    BY <1>4, <1>7 DEF WalkInv
  <2>2. CASE live' = live
    BY <1>4, <1>6, <2>1, <2>2 DEF WalkPages
  <2>3. CASE live' # live
    <3>0. PICK new : new = live'
      OBVIOUS
    <3>1. live' = live \cup {m} /\ new = live \cup {m} /\ m \in Nat \ live
      BY <2>3, <3>0
    <3>2. \A i \in walk.seen : i \in Nat /\ i < m
      BY <1>3, <2>1
    <3>3. /\ Rank(new, m) = Cardinality({k \in live : k < m}) + 1
          /\ \A i \in live : /\ Rank(live, i) \in Nat /\ Rank(new, i) \in Nat
                             /\ Rank(live, i) <= Rank(new, i)
                             /\ i < m => Rank(new, i) = Rank(live, i)
      <4> HIDE DEF live
      <4>1. QED
        BY <1>2, <3>1, RankInsert
    <3>4. walk.seen \cap new = walk.seen \cap live
      BY <3>1, <3>2
    <3>5. \A i \in walk.seen \cap new : Rank(new, i) <= PagesRead
      BY <2>1, <3>2, <3>3, <3>4 DEF WalkPages
    <3>6. ASSUME ~walk.done, ~walk.cut
          PROVE  /\ walk.stay \subseteq new
                 /\ PagesRead <= Cardinality(walk.seen \cap new)
                 /\ \A i \in new : Rank(new, i) <= PagesRead => i \in walk.seen
      <4> DEFINE below == {k \in live : k < m}
                 left == walk.seen \cap live
      <4>1. /\ walk.stay \subseteq live /\ PagesRead <= Cardinality(left)
            /\ \A i \in live : Rank(live, i) <= PagesRead => i \in walk.seen
        BY <2>1, <3>6 DEF WalkPages
      <4>2. left \in SUBSET below /\ IsFiniteSet(below) /\ IsFiniteSet(left)
        BY <1>2, <3>2, FS_Subset
      <4>3. /\ Cardinality(left) <= Cardinality(below)
            /\ Cardinality(left) \in Nat /\ Cardinality(below) \in Nat
        BY <4>2, FS_Subset, FS_CardinalityType
      <4>4. ~(Rank(new, m) <= PagesRead)
        BY <1>3, <3>3, <4>1, <4>3
      <4>5. ASSUME NEW i \in new, Rank(new, i) <= PagesRead PROVE i \in walk.seen
        <5>1. i \in live
          BY <3>1, <4>4, <4>5
        <5>2. Rank(live, i) <= PagesRead
          BY <1>3, <3>3, <4>5, <5>1
        <5>3. QED
          BY <4>1, <5>1, <5>2
      <4>6. QED
        BY <3>1, <3>4, <4>1, <4>5
    <3>7. walk.done /\ ~walk.cut => walk.stay \subseteq walk.seen
      BY <2>1 DEF WalkPages
    <3>8. WalkPages' <=>
            /\ \A i \in walk'.seen \cap live' : Rank(live', i) <= PagesRead'
            /\ ~walk'.done /\ ~walk'.cut =>
                 /\ walk'.stay \subseteq live'
                 /\ PagesRead' <= Cardinality(walk'.seen \cap live')
                 /\ \A i \in live' : Rank(live', i) <= PagesRead' => i \in walk'.seen
            /\ walk'.done /\ ~walk'.cut => walk'.stay \subseteq walk'.seen
      BY DEF WalkPages, Rank
    <3>9. QED
      BY <1>4, <1>6, <2>1, <3>0, <3>5, <3>6, <3>7, <3>8
  <2>4. QED
    BY <2>2, <2>3
<1>8. QED
  BY <1>5, <1>7 DEF WalkInv, BrandCalls, BrandCall

LEMMA BrandDeleted ==
  ASSUME TaxTypeOK, WalkInv, BrandCalls', NEW d \in LiveRows("brands"),
         DOMAIN tables'["brands"] = DOMAIN tables["brands"],
         LiveRows("brands")' = LiveRows("brands") \ {d},
         walk' = [walk EXCEPT !.stay = @ \ {d}, !.cut = @ \/ d \in walk.seen]
  PROVE  WalkInv'
<1> DEFINE live == LiveRows("brands")
           left == live \ {d}
<1>1. live \in SUBSET Nat /\ IsFiniteSet(live) /\ live' = left
  BY LiveBrands DEF TaxTypeOK, TaxTables
<1>2. walk \in WalkState /\ PagesRead \in Nat
  BY PagesReadFacts DEF WalkInv
<1>3. /\ walk'.page = walk.page /\ walk'.size = walk.size /\ walk'.seen = walk.seen
      /\ walk'.stay = walk.stay \ {d} /\ walk'.done = walk.done
      /\ walk'.late = walk.late /\ walk'.twice = walk.twice
      /\ walk'.cut = (walk.cut \/ d \in walk.seen)
  BY <1>2 DEF WalkState
<1>4. walk' \in WalkState'
  <2>1. (walk.cut \/ d \in walk.seen) \in BOOLEAN
    OBVIOUS
  <2>2. walk.stay \ {d} \in SUBSET DOMAIN tables["brands"]
    BY <1>2 DEF WalkState
  <2>3. QED
    BY <1>2, <2>1, <2>2 DEF WalkState
<1>5. PagesRead' = PagesRead
  BY <1>3 DEF PagesRead
<1>6. \A i \in left : /\ Rank(live, i) \in Nat /\ Rank(live, d) \in Nat
                      /\ Rank(left, i) = IF d < i THEN Rank(live, i) - 1 ELSE Rank(live, i)
                      /\ d < i => Rank(live, d) < Rank(live, i)
  <2> SUFFICES ASSUME NEW i \in left
               PROVE  /\ Rank(live, i) \in Nat /\ Rank(live, d) \in Nat
                      /\ Rank(left, i) = IF d < i THEN Rank(live, i) - 1 ELSE Rank(live, i)
                      /\ d < i => Rank(live, d) < Rank(live, i)
    OBVIOUS
  <2>1. Rank(live, i) \in 1..Cardinality(live) /\ Rank(live, d) \in 1..Cardinality(live)
    BY <1>1, RankFacts
  <2>2. Rank(left, i) = IF d < i THEN Rank(live, i) - 1 ELSE Rank(live, i)
    BY <1>1, RankRemove
  <2>3. d < i => Rank(live, d) < Rank(live, i)
    BY <1>1, RankFacts
  <2>4. QED
    BY <2>1, <2>2, <2>3
<1> HIDE DEF left
<1>7. ASSUME ~walk.late PROVE ~walk'.twice /\ WalkPages'
  <2>0. WalkPages /\ ~walk'.twice
    BY <1>3, <1>7 DEF WalkInv
  <2>1. \A i \in walk.seen \cap left : Rank(left, i) <= PagesRead
    <3>1. \A i \in walk.seen \cap live : Rank(live, i) <= PagesRead
      BY <2>0 DEF WalkPages
    <3>2. ASSUME NEW i \in walk.seen \cap left PROVE Rank(left, i) <= PagesRead
      <4>1. i \in left /\ i \in walk.seen \cap live
        BY DEF left
      <4>2. Rank(live, i) \in Nat /\ Rank(live, i) <= PagesRead
        BY <1>6, <3>1, <4>1
      <4>3. Rank(left, i) = IF d < i THEN Rank(live, i) - 1 ELSE Rank(live, i)
        BY <1>6, <4>1
      <4>4. QED
        BY <1>2, <4>2, <4>3
    <3>3. QED
      BY <3>2
  <2>2. ASSUME ~walk'.done, ~walk'.cut
        PROVE  /\ walk'.stay \subseteq left
               /\ PagesRead <= Cardinality(walk.seen \cap left)
               /\ \A i \in left : Rank(left, i) <= PagesRead => i \in walk.seen
    <3>1. /\ d \notin walk.seen /\ walk.stay \subseteq live
          /\ PagesRead <= Cardinality(walk.seen \cap live)
          /\ \A i \in live : Rank(live, i) <= PagesRead => i \in walk.seen
      BY <1>3, <2>0, <2>2 DEF WalkPages
    <3>2. walk.seen \cap left = walk.seen \cap live
      BY <3>1 DEF left
    <3>3. ASSUME NEW i \in left, Rank(left, i) <= PagesRead PROVE i \in walk.seen
      <4>1. i \in live /\ ~(Rank(live, d) <= PagesRead)
        BY <3>1 DEF left
      <4>2. Rank(live, i) <= PagesRead
        BY <1>2, <1>6, <3>3, <4>1
      <4>3. QED
        BY <3>1, <4>1, <4>2
    <3>4. QED
      BY <1>3, <3>1, <3>2, <3>3 DEF left
  <2>3. walk'.done /\ ~walk'.cut => walk'.stay \subseteq walk'.seen
    BY <1>3, <2>0 DEF WalkPages
  <2>4. QED
    BY <1>1, <1>3, <1>5, <2>0, <2>1, <2>2, <2>3 DEF WalkPages
<1>8. QED
  BY <1>3, <1>4, <1>7 DEF WalkInv, BrandCalls, BrandCall

-----------------------------------------------------------------------------
\* The steps of callers

\* A write to another table, or none.
LEMMA OtherTable ==
  ASSUME TaxTypeOK, WalkInv, BrandCalls', UNCHANGED walk,
         NEW t \in TableNames \ {"brands"}, NEW rows,
         Write(t, rows) \/ UNCHANGED tables
  PROVE  WalkInv'
<1>1. tables'["brands"] = tables["brands"]
  BY TableWrite DEF TableNames
<1>2. QED
  BY <1>1, SameBrands

LEMMA BrandWalk == ASSUME TaxTypeOK, WalkInv, NEW c \in Callers, Brand(c) PROVE WalkInv'
<1>1. BrandCalls
  BY DEF WalkInv, BrandCalls, BrandCall
<1>2. ASSUME NEW n \in Values,
             CreateBrandFind(c, n) \/ CreateBrandFindFail(c, n) \/ UpdateBrandFind(c, n)
      PROVE  WalkInv'
  <2> DEFINE x == [pc |-> "insert", table |-> "brands", id |-> 0, row |-> NewRow(Empty, n, Empty)]
  <2>1. x \in TaxCall /\ BrandCall(x)
    BY DEF NewRow, TaxCall, TaxTables, TaxRow, TaxCols, BrandCall
  <2>2. call' = [call EXCEPT ![c] = x] /\ UNCHANGED <<tables, walk>>
    BY <1>2 DEF CreateBrandFind, CreateBrandFindFail, UpdateBrandFind, NewBrand, Hold, taxVars
  <2>3. QED
    BY <1>1, <2>1, <2>2, CallStep, SameBrands
<1>3. ASSUME NEW d \in DOMAIN tables["brands"], DeleteBrand(c, d) PROVE WalkInv'
  <2> DEFINE rows == tables["brands"]
             S == {d} \cap LiveRows("brands")
             new == Marked(rows, S)
  <2>1. /\ Write("brands", new) /\ UNCHANGED call /\ S # {}
        /\ walk' = [walk EXCEPT !.stay = @ \ {d}, !.cut = @ \/ d \in walk.seen]
    BY <1>3 DEF DeleteBrand, DeleteRows, Marked
  <2>2. rows \in Seq(TaxRow) /\ d \in LiveRows("brands") /\ S = {d}
    BY <2>1 DEF TaxTypeOK, TaxTables
  <2>3. /\ DOMAIN new = DOMAIN rows
        /\ \A i \in DOMAIN rows : new[i].st = IF i \in S THEN "deleted" ELSE rows[i].st
    BY <2>2, MarkRows
  <2> HIDE DEF new
  <2>4. tables'["brands"] = new
    BY <2>1, TableWrite DEF TableNames
  <2>5. LiveRows("brands")' = LiveRows("brands") \ {d}
    BY <2>2, <2>3, <2>4 DEF LiveRows
  <2>6. BrandCalls'
    BY <1>1, <2>1 DEF BrandCalls
  <2>7. QED
    BY <2>1, <2>2, <2>3, <2>4, <2>5, <2>6, BrandDeleted
<1>4. call[c] \in TaxCall /\ tables["brands"] \in Seq(TaxRow)
  BY DEF TaxTypeOK, TaxTables
<1>5. CASE BrandInsert(c)
  <2> DEFINE rows == tables["brands"]
             r == call[c].row
             hidden == [r EXCEPT !.st = "unseen"]
             x == [pc |-> "commit", table |-> "brands", id |-> Len(rows) + 1, row |-> r]
  <2>1. /\ call[c].pc = "insert" /\ Write("brands", Append(rows, hidden))
        /\ call' = [call EXCEPT ![c] = x] /\ UNCHANGED walk
    BY <1>5 DEF BrandInsert, Hold, taxVars
  <2>2. r \in TaxRow /\ Len(rows) + 1 \in Nat
    BY <1>4 DEF TaxCall
  <2>3. hidden \in TaxRow /\ hidden.st = "unseen"
    BY <2>2 DEF TaxRow
  <2>4. r.st = "live"
    BY <1>1, <2>1 DEF BrandCalls, BrandCall
  <2>5. x \in TaxCall /\ BrandCall(x)
    BY <2>2, <2>4 DEF TaxCall, TaxTables, BrandCall
  <2> HIDE DEF hidden, x
  <2>6. BrandCalls'
    BY <1>1, <2>1, <2>5, CallStep
  <2>7. tables'["brands"] = Append(rows, hidden)
    BY <2>1, TableWrite DEF TableNames
  <2>8. QED
    BY <2>1, <2>3, <2>6, <2>7, BrandTaken
<1>6. CASE BrandCommit(c)
  <2> DEFINE rows == tables["brands"]
             r == call[c].row
             m == call[c].id
  <2>1. /\ call[c].pc = "commit" /\ Write("brands", [rows EXCEPT ![m] = r])
        /\ call' = [call EXCEPT ![c] = Rest]
        /\ walk' = [walk EXCEPT !.late = @ \/ \E i \in walk.seen : i >= m]
    BY <1>6 DEF BrandCommit, Done
  <2>2. r \in TaxRow /\ m \in Nat
    BY <1>4 DEF TaxCall
  <2>3. r.st = "live"
    BY <1>1, <2>1 DEF BrandCalls, BrandCall
  <2>4. tables'["brands"] = [rows EXCEPT ![m] = r]
    BY <2>1, TableWrite DEF TableNames
  <2>5. /\ DOMAIN tables'["brands"] = DOMAIN rows
        /\ m \in DOMAIN rows => tables'["brands"][m] = r
        /\ \A j \in DOMAIN rows : j # m => tables'["brands"][j] = rows[j]
    BY <1>4, <2>2, <2>4, SetRow
  <2>6. \/ LiveRows("brands")' = LiveRows("brands")
        \/ LiveRows("brands")' = LiveRows("brands") \cup {m}
    BY <2>3, <2>5 DEF LiveRows
  <2>7. BrandCall(Rest)
    BY DEF Rest, NewRow, BrandCall
  <2>8. BrandCalls'
    BY <1>1, <2>1, <2>7, RestKnown, CallStep
  <2>9. QED
    BY <2>1, <2>2, <2>5, <2>6, <2>8, BrandSeen
<1>7. QED
  BY <1>2, <1>3, <1>5, <1>6 DEF Brand

LEMMA CategoryWalk ==
  ASSUME TaxTypeOK, WalkInv, NEW c \in Callers, Category(c) PROVE WalkInv'
<1>1. BrandCalls
  BY DEF WalkInv, BrandCalls, BrandCall
<1>2. "categories" \in TableNames \ {"brands"} /\ UNCHANGED walk
  BY DEF TableNames, Category, CreateCategory, DeleteCategory, UpdateCategoryFind,
         UpdateCategoryWrite, taxVars
<1>3. ASSUME NEW n \in Values, CreateCategory(c, n) PROVE WalkInv'
  <2>1. BrandCalls'
    BY <1>1, <1>3 DEF CreateCategory, Insert, BrandCalls
  <2>2. QED
    BY <1>2, <1>3, <2>1, OtherTable DEF CreateCategory, Insert
<1>4. ASSUME NEW i, DeleteCategory(c, i) PROVE WalkInv'
  <2>1. BrandCalls'
    BY <1>1, <1>4 DEF DeleteCategory, DeleteRows, BrandCalls
  <2>2. QED
    BY <1>2, <1>4, <2>1, OtherTable DEF DeleteCategory, DeleteRows
<1>5. ASSUME NEW i \in DOMAIN tables["categories"], NEW n \in Values \cup {Empty},
             UpdateCategoryFind(c, i, n)
      PROVE  WalkInv'
  <2> DEFINE r == [tables["categories"][i] EXCEPT !.a = IF n = Empty THEN @ ELSE n]
             x == [pc |-> "updates", table |-> "categories", id |-> i, row |-> r]
  <2>1. UNCHANGED tables /\ call' = [call EXCEPT ![c] = x]
    BY <1>5 DEF UpdateCategoryFind, Hold
  <2>2. i \in Nat /\ tables["categories"][i] \in TaxRow
    BY DEF TaxTypeOK, TaxTables
  <2>3. r \in TaxRow
    BY <2>2 DEF TaxRow, TaxCols
  <2> HIDE DEF r
  <2>4. x \in TaxCall /\ BrandCall(x)
    BY <2>2, <2>3 DEF TaxCall, TaxTables, BrandCall
  <2>5. QED
    BY <1>1, <1>2, <2>1, <2>4, CallStep, SameBrands
<1>6. CASE UpdateCategoryWrite(c)
  <2>1. call' = [call EXCEPT ![c] = Rest]
    BY <1>6 DEF UpdateCategoryWrite, Done
  <2>2. BrandCall(Rest)
    BY DEF Rest, BrandCall
  <2>3. BrandCalls'
    BY <1>1, <2>1, <2>2, RestKnown, CallStep
  <2>4. QED
    BY <1>2, <1>6, <2>3, OtherTable DEF UpdateCategoryWrite
<1>7. QED
  BY <1>3, <1>4, <1>5, <1>6 DEF Category

LEMMA PairWalk == ASSUME TaxTypeOK, WalkInv, NEW c \in Callers, Pair(c) PROVE WalkInv'
<1>1. BrandCalls /\ call[c] \in TaxCall /\ BrandCall(Rest)
  BY DEF WalkInv, BrandCalls, BrandCall, TaxTypeOK, Rest
<1>2. "category_brand" \in TableNames \ {"brands"} /\ UNCHANGED walk
  BY DEF TableNames, Pair, CreatePairFind, UpdatePairFind, PairCategory, PairBrand,
         DeletePair, taxVars
<1>3. ASSUME NEW k \in DOMAIN tables["categories"], NEW b \in DOMAIN tables["brands"], NEW p,
             \/ p = 0 /\ CreatePairFind(c, k, b)
             \/ p \in DOMAIN tables["category_brand"] /\ UpdatePairFind(c, p, k, b)
      PROVE  WalkInv'
  <2> DEFINE r == NewRow(<<k, b>>, Empty, Empty)
             x == [pc |-> "category", table |-> "category_brand", id |-> p, row |-> r]
  <2>1. UNCHANGED tables /\ call' = [call EXCEPT ![c] = x]
    BY <1>3 DEF CreatePairFind, UpdatePairFind, Hold
  <2>2. k \in Nat /\ b \in Nat /\ p \in Nat
    BY <1>3 DEF TaxTypeOK, TaxTables
  <2>3. r \in TaxRow
    BY <2>2 DEF NewRow, TaxRow, TaxCols
  <2> HIDE DEF r
  <2>4. x \in TaxCall /\ BrandCall(x)
    BY <2>2, <2>3 DEF TaxCall, TaxTables, BrandCall
  <2>5. QED
    BY <1>1, <1>2, <2>1, <2>4, CallStep, SameBrands
<1>4. CASE PairCategory(c) \/ PairBrand(c)
  <2>1. UNCHANGED tables /\ call[c].pc \in {"category", "brand"}
    BY <1>4 DEF PairCategory, PairBrand
  <2>2. PICK x \in TaxCall :
          /\ call' = [call EXCEPT ![c] = x]
          /\ x = Rest \/ (x.table = call[c].table /\ x.pc \in {"brand", "save"})
    <3>1. ASSUME NEW pc \in {"brand", "save"}
          PROVE  /\ [call[c] EXCEPT !.pc = pc] \in TaxCall
                 /\ [call[c] EXCEPT !.pc = pc].table = call[c].table
                 /\ [call[c] EXCEPT !.pc = pc].pc = pc
      BY <1>1 DEF TaxCall
    <3>2. \/ call' = [call EXCEPT ![c] = Rest]
          \/ \E pc \in {"brand", "save"} : call' = [call EXCEPT ![c] = [@ EXCEPT !.pc = pc]]
      BY <1>4 DEF PairCategory, PairBrand, Done
    <3>3. QED
      BY <3>1, <3>2, RestKnown
  <2>3. BrandCall(x)
    BY <1>1, <2>1, <2>2 DEF BrandCalls, BrandCall
  <2>4. QED
    BY <1>1, <1>2, <2>1, <2>2, <2>3, CallStep, SameBrands
<1>5. ASSUME NEW p, DeletePair(c, p) PROVE WalkInv'
  <2>1. BrandCalls'
    BY <1>1, <1>5 DEF DeletePair, DeleteRows, BrandCalls
  <2>2. QED
    BY <1>2, <1>5, <2>1, OtherTable DEF DeletePair, DeleteRows
<1>6. QED
  BY <1>3, <1>4, <1>5 DEF Pair

LEMMA BannerWalk == ASSUME TaxTypeOK, WalkInv, NEW c \in Callers, Banner(c) PROVE WalkInv'
<1>1. BrandCalls
  BY DEF WalkInv, BrandCalls, BrandCall
<1>2. "banner" \in TableNames \ {"brands"} /\ UNCHANGED walk
  BY DEF TableNames, Banner, CreateBanner, DeleteBanner, UpdateBannerFind, taxVars
<1>3. ASSUME NEW v, CreateBanner(c, v) PROVE WalkInv'
  <2>1. BrandCalls'
    BY <1>1, <1>3 DEF CreateBanner, Insert, BrandCalls
  <2>2. QED
    BY <1>2, <1>3, <2>1, OtherTable DEF CreateBanner, Insert
<1>4. ASSUME NEW i, DeleteBanner(c, i) PROVE WalkInv'
  <2>1. BrandCalls'
    BY <1>1, <1>4 DEF DeleteBanner, DeleteRows, BrandCalls
  <2>2. QED
    BY <1>2, <1>4, <2>1, OtherTable DEF DeleteBanner, DeleteRows
<1>5. ASSUME NEW i \in DOMAIN tables["banner"], NEW v \in Values \cup {Empty},
             UpdateBannerFind(c, i, v)
      PROVE  WalkInv'
  <2> DEFINE r == [tables["banner"][i] EXCEPT !.a = IF v = Empty THEN @ ELSE v]
             x == [pc |-> "save", table |-> "banner", id |-> i, row |-> r]
  <2>1. UNCHANGED tables /\ call' = [call EXCEPT ![c] = x]
    BY <1>5 DEF UpdateBannerFind, Hold
  <2>2. i \in Nat /\ tables["banner"][i] \in TaxRow
    BY DEF TaxTypeOK, TaxTables
  <2>3. r \in TaxRow
    BY <2>2 DEF TaxRow, TaxCols
  <2> HIDE DEF r
  <2>4. x \in TaxCall /\ BrandCall(x)
    BY <2>2, <2>3 DEF TaxCall, TaxTables, BrandCall
  <2>5. QED
    BY <1>1, <1>2, <2>1, <2>4, CallStep, SameBrands
<1>6. QED
  BY <1>3, <1>4, <1>5 DEF Banner

\* Save inserts a brand, or writes another table.
LEMMA SaveWalk ==
  ASSUME TaxTypeOK, WalkInv, NEW c \in Callers, Save(c), UNCHANGED taxVars
  PROVE  WalkInv'
<1> DEFINE t == call[c].table
           r == call[c].row
           rows == tables["brands"]
<1>1. /\ BrandCalls /\ call[c] \in TaxCall /\ BrandCall(Rest) /\ UNCHANGED walk
      /\ t \in TableNames /\ r \in TaxRow /\ rows \in Seq(TaxRow)
  BY DEF WalkInv, BrandCalls, BrandCall, TaxTypeOK, Rest, taxVars, TaxTables,
         TableNames, TaxCall
<1>2. BrandCalls'
  <2>1. CASE SaveMiss(c)
    <3> DEFINE x == [call[c] EXCEPT !.pc = "upsert"]
    <3>1. /\ call' = [call EXCEPT ![c] = x] /\ call[c].pc = "save"
          /\ call[c].id \in DOMAIN tables[t]
      BY <2>1 DEF SaveMiss, AtSave
    <3>2. x \in TaxCall /\ x.table = t /\ x.pc = "upsert"
      BY <1>1 DEF TaxCall
    <3>3. t # "brands"
      BY <1>1, <3>1 DEF BrandCalls, BrandCall
    <3>4. QED
      BY <1>1, <3>1, <3>2, <3>3, CallStep DEF BrandCall
  <2>2. CASE ~SaveMiss(c)
    <3>1. call' = [call EXCEPT ![c] = Rest]
      BY <2>2 DEF Save, SaveInsert, SaveUpdate, SaveUpsert, StatementFail, Done
    <3>2. QED
      BY <1>1, <3>1, RestKnown, CallStep
  <2>3. QED
    BY <2>1, <2>2
<1>3. CASE t # "brands"
  BY <1>1, <1>2, <1>3, OtherTable
     DEF Save, SaveInsert, SaveUpdate, SaveMiss, SaveUpsert, Overwrite, StatementFail
<1>4. CASE t = "brands"
  <2>1. call[c].pc \in {"rest", "insert", "commit"}
    BY <1>1, <1>4 DEF BrandCalls, BrandCall
  <2>2. StatementFail(c)
    BY <2>1 DEF Save, SaveInsert, SaveUpdate, SaveMiss, SaveUpsert, AtSave
  <2>3. QED
    BY <1>1, <1>2, <2>2, SameBrands DEF StatementFail
<1>5. QED
  BY <1>3, <1>4

LEMMA WalkInit == ASSUME GormInit, TaxInit PROVE WalkInv
<1>1. /\ walk = [page |-> 0, size |-> 0, seen |-> {}, stay |-> {},
                 twice |-> FALSE, cut |-> FALSE, late |-> FALSE, done |-> FALSE]
      /\ call = [c \in Callers |-> Rest] /\ TaxTypeOK
  BY InitHolds DEF GormInit, TaxInit, TaxInv
<1>2. walk \in WalkState
  BY <1>1 DEF WalkState
<1>3. PagesRead = 0
  <2>1. PageSize(0) \in Int
    BY SizeIsPositive, PagingAssumption
  <2>2. QED
    BY <1>1, <2>1 DEF PagesRead
<1>4. \A i \in LiveRows("brands") : ~(Rank(LiveRows("brands"), i) <= 0)
  <2> DEFINE live == LiveRows("brands")
  <2>1. live \in SUBSET Nat /\ IsFiniteSet(live)
    BY <1>1, LiveBrands DEF TaxTypeOK, TaxTables
  <2>2. \A i \in live : Rank(live, i) \in 1..Cardinality(live)
    BY <2>1, RankFacts
  <2>3. QED
    BY <2>2
<1>5. WalkPages
  <2>1. walk.seen \cap LiveRows("brands") = {}
    BY <1>1
  <2>2. QED
    BY <1>1, <1>3, <1>4, <2>1, FS_EmptySet DEF WalkPages
<1>6. QED
  BY <1>1, <1>2, <1>5 DEF WalkInv, Rest

LEMMA WalkNextHolds == ASSUME TaxInv, WalkInv, TaxNext PROVE WalkInv'
<1>1. TaxTypeOK
  BY DEF TaxInv
<1>2. ASSUME NEW c \in Callers,
             \/ Brand(c) \/ Category(c) \/ Pair(c) \/ Banner(c)
             \/ Save(c) /\ UNCHANGED taxVars
      PROVE  WalkInv'
  BY <1>1, <1>2, BrandWalk, CategoryWalk, PairWalk, BannerWalk, SaveWalk
<1>3. QED
  BY <1>1, <1>2, PageStep DEF TaxNext, BrandNext, CallNext

LEMMA WalkRests == ASSUME WalkInv, UNCHANGED <<gormVars, taxVars>> PROVE WalkInv'
BY SameBrands DEF gormVars, taxVars, WalkInv, BrandCalls, BrandCall

\* A walk through the pages of BrandList lists no brand twice, and one that was
\* there all the time is missed only if a brand listed before was deleted
\* meanwhile, both unless an INSERT commits when its id, or a higher one, has
\* been listed: for any number of brands and page sizes, with any calls and
\* failures between two pages (Paginate in handler/base.go).
THEOREM WalksAreExact == TaxSpec => []WalkExact
<1>1. WalkInv => WalkExact
  BY DEF WalkInv, WalkState, WalkPages, WalkExact
<1>2. QED
  BY <1>1, WalkInit, WalkNextHolds, WalkRests, Invariant, PTL DEF TaxSpec
=============================================================================
