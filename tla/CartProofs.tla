----------------------------- MODULE CartProofs -----------------------------
(***************************************************************************)
(* The cart of order_srv, for any products, sessions and quantities and    *)
(* any number of calls: what races can never make of it, and that calls    *)
(* one after the other behave like the Basket.                             *)
(***************************************************************************)
EXTENDS Cart, FiniteSetTheorems, NaturalsInduction, SequenceTheorems, TLAPS

-----------------------------------------------------------------------------
\* Numbers and finite sets

LEMMA LeastNumber ==
  ASSUME NEW S \in SUBSET Nat, S # {}
  PROVE  \E i \in S : \A j \in S : i <= j
<1> DEFINE R == OpToRel(<, Nat)
<1>1. IsWellFoundedOn(R, Nat)
  BY NatLessThanWellFounded
<1>2. \A i, j \in Nat : i < j => <<i, j>> \in R
  BY DEF OpToRel
<1> HIDE DEF R
<1>3. PICK i \in S : \A j \in S : <<j, i>> \notin R
  BY <1>1, WFMin
<1>4. \A j \in S : i <= j
  <2> SUFFICES ASSUME NEW j \in S PROVE i <= j
    OBVIOUS
  <2>1. i \in Nat /\ j \in Nat /\ ~(j < i)
    BY <1>2, <1>3
  <2>2. QED
    BY <2>1
<1>5. QED
  BY <1>4

LEMMA MinFacts ==
  ASSUME NEW S \in SUBSET Nat, S # {}
  PROVE  Min(S) \in S
BY LeastNumber DEF Min

LEMMA MaxFacts ==
  ASSUME NEW n \in Nat, NEW S \in SUBSET 1..n, S # {}
  PROVE  Max(S) \in S
<1> DEFINE T == {n - i : i \in S}
<1>1. T \in SUBSET Nat /\ T # {}
  <2>1. \A i \in S : n - i \in Nat
    OBVIOUS
  <2>2. QED
    BY <2>1
<1>2. PICK m \in T : \A k \in T : m <= k
  BY <1>1, LeastNumber
<1>3. PICK i \in S : m = n - i
  BY <1>2
<1>4. \A j \in S : i >= j
  <2> SUFFICES ASSUME NEW j \in S PROVE i >= j
    OBVIOUS
  <2>1. n - j \in T /\ i \in Nat /\ j \in Nat
    OBVIOUS
  <2>2. QED
    BY <1>2, <1>3, <2>1
<1>5. QED
  BY <1>4 DEF Max

LEMMA Block ==
  ASSUME NEW o, NEW a \in Int, NEW b \in Int
  PROVE  /\ IsFiniteSet({o} \X (a..b))
         /\ Cardinality({o} \X (a..b)) = IF a > b THEN 0 ELSE b - a + 1
<1>1. IsFiniteSet({o}) /\ Cardinality({o}) = 1
  BY FS_Singleton
<1>2. IsFiniteSet(a..b) /\ Cardinality(a..b) = IF a > b THEN 0 ELSE b - a + 1
  BY FS_Interval
<1>3. /\ IsFiniteSet({o} \X (a..b))
      /\ Cardinality({o} \X (a..b)) = Cardinality({o}) * Cardinality(a..b)
  BY <1>1, <1>2, FS_Product
<1>4. QED
  BY <1>1, <1>2, <1>3

LEMMA OwnedPieces ==
  ASSUME NEW n \in Nat, NEW o
  PROVE  IsFiniteSet({o} \X (1..n)) /\ Cardinality({o} \X (1..n)) = n
<1>1. 1 \in Int /\ n \in Int
  OBVIOUS
<1>2. /\ IsFiniteSet({o} \X (1..n))
      /\ Cardinality({o} \X (1..n)) = IF 1 > n THEN 0 ELSE n - 1 + 1
  BY <1>1, Block, Zenon
<1>3. QED
  BY <1>2

LEMMA PiecesOfRowFacts ==
  ASSUME NEW n \in Nat, NEW i
  PROVE  IsFiniteSet(PiecesOfRow(i, n)) /\ Cardinality(PiecesOfRow(i, n)) = n
<1>1. \A o : IsFiniteSet({o} \X (1..n)) /\ Cardinality({o} \X (1..n)) = n
  BY OwnedPieces
<1>2. QED
  BY <1>1 DEF PiecesOfRow

\* A set that gained n elements at most.
LEMMA FewMore ==
  ASSUME NEW P, IsFiniteSet(P), NEW X, IsFiniteSet(X), NEW Q \in SUBSET (P \cup X),
         NEW m \in Nat, Cardinality(P) <= m, NEW n \in Nat, Cardinality(X) <= n
  PROVE  IsFiniteSet(Q) /\ Cardinality(Q) <= m + n
<1>1. /\ IsFiniteSet(P \cup X)
      /\ Cardinality(P \cup X) = Cardinality(P) + Cardinality(X) - Cardinality(P \cap X)
  BY FS_Union
<1>2. IsFiniteSet(Q) /\ Cardinality(Q) <= Cardinality(P \cup X)
  BY <1>1, FS_Subset
<1>3. IsFiniteSet(P \cap X)
  BY FS_Intersection
<1>4. /\ Cardinality(P) \in Nat /\ Cardinality(X) \in Nat /\ Cardinality(P \cap X) \in Nat
      /\ Cardinality(Q) \in Nat /\ Cardinality(P \cup X) \in Nat
  BY <1>1, <1>2, <1>3, FS_CardinalityType
<1>5. QED
  BY <1>1, <1>2, <1>4

\* One that gave N away for as many others.
LEMMA Exchange ==
  ASSUME NEW P, IsFiniteSet(P), NEW N \in SUBSET P, NEW X, IsFiniteSet(X),
         Cardinality(X) = Cardinality(N), NEW Q \in SUBSET ((P \ N) \cup X),
         NEW m \in Nat, Cardinality(P) <= m
  PROVE  IsFiniteSet(Q) /\ Cardinality(Q) <= m
<1>1. IsFiniteSet(N) /\ Cardinality(N) \in Nat /\ Cardinality(P) \in Nat
      /\ Cardinality(N) <= Cardinality(P) /\ P \cap N = N
  BY FS_Subset, FS_CardinalityType
<1>2. IsFiniteSet(P \ N) /\ Cardinality(P \ N) = Cardinality(P) - Cardinality(P \cap N)
  BY FS_Difference
<1> DEFINE n == Cardinality(N)
           k == m - n
<1>3. k \in Nat /\ n \in Nat /\ k + n = m
  BY <1>1
<1>4. Cardinality(P \cap N) = n /\ Cardinality(X) <= n
  BY <1>1
<1>5. Cardinality(P \ N) <= k
  BY <1>1, <1>2, <1>4
<1> HIDE DEF k, n
<1>6. IsFiniteSet(Q) /\ Cardinality(Q) <= k + n
  BY <1>2, <1>3, <1>4, <1>5, FewMore
<1>7. QED
  BY <1>3, <1>6

-----------------------------------------------------------------------------
\* Sums

PiecesIn(S) == UNION {PiecesOfRow(i, rows[i].nums) : i \in S}

\* The sum over rows is the number of their pieces.
LEMMA SumIsPieces ==
  ASSUME NEW S, IsFiniteSet(S), \A i \in S : rows[i].nums \in Nat, IsFiniteSet(PiecesIn(S))
  PROVE  MapThenSumSet(LAMBDA i : rows[i].nums, S) = Cardinality(PiecesIn(S))
<1> DEFINE pick(T) == CHOOSE x \in T : TRUE
           G(h) == [T \in SUBSET S |->
                      IF T = {} THEN 0 ELSE rows[pick(T)].nums + h[T \ {pick(T)}]]
           sum == CHOOSE h : h = G(h)
           count == [T \in SUBSET S |-> Cardinality(PiecesIn(T))]
<1>1. ASSUME NEW T \in SUBSET S, T # {}
      PROVE  Cardinality(PiecesIn(T))
               = rows[pick(T)].nums + Cardinality(PiecesIn(T \ {pick(T)}))
  <2> DEFINE x == pick(T)
             own == PiecesOfRow(x, rows[x].nums)
             rest == PiecesIn(T \ {x})
  <2>1. x \in T
    BY <1>1
  <2> HIDE DEF x
  <2>2. PiecesIn(T) = rest \cup own /\ rest \cap own = {}
    BY <2>1 DEF PiecesIn, PiecesOfRow
  <2>3. IsFiniteSet(rest) /\ IsFiniteSet(own)
    <3>1. rest \subseteq PiecesIn(S) /\ own \subseteq PiecesIn(S)
      BY <2>1 DEF PiecesIn
    <3>2. QED
      BY <3>1, FS_Subset
  <2>4. Cardinality(own) = rows[x].nums
    <3>1. rows[x].nums \in Nat
      BY <2>1
    <3>2. QED
      BY <3>1, PiecesOfRowFacts
  <2>5. Cardinality(rest \cup own) = Cardinality(rest) + Cardinality(own) - 0
    BY <2>2, <2>3, FS_Union, FS_EmptySet
  <2>6. Cardinality(rest) \in Nat /\ rows[x].nums \in Nat
    BY <2>1, <2>3, FS_CardinalityType
  <2>7. QED
    BY <2>2, <2>4, <2>5, <2>6 DEF x
<1>2. PiecesIn({}) = {} /\ Cardinality(PiecesIn({})) = 0
  BY FS_EmptySet DEF PiecesIn
<1>3. count = G(count)
  <2>1. ASSUME NEW T \in SUBSET S PROVE count[T] = G(count)[T]
    <3>1. CASE T = {}
      BY <1>2, <3>1
    <3>2. CASE T # {}
      <4>1. T \ {pick(T)} \in SUBSET S
        OBVIOUS
      <4>2. QED
        BY <1>1, <3>2, <4>1
    <3>3. QED
      BY <3>1, <3>2
  <2>2. QED
    BY <2>1
<1>4. sum = G(sum)
  BY <1>3
<1>5. MapThenSumSet(LAMBDA i : rows[i].nums, S) = sum[S]
  BY DEF MapThenSumSet, MapThenFoldSet
<1> HIDE DEF sum, count
<1>6. \A T \in SUBSET S : sum[T] = Cardinality(PiecesIn(T))
  <2> DEFINE Bad == {T \in SUBSET S : sum[T] # Cardinality(PiecesIn(T))}
             Sizes == {Cardinality(T) : T \in Bad}
  <2> SUFFICES ASSUME Bad # {} PROVE FALSE
    OBVIOUS
  <2>1. \A T \in Bad : IsFiniteSet(T) /\ Cardinality(T) \in Nat
    BY FS_Subset, FS_CardinalityType
  <2>2. Sizes \in SUBSET Nat /\ Sizes # {}
    BY <2>1
  <2>3. PICK k \in Sizes : \A j \in Sizes : k <= j
    BY <2>2, LeastNumber
  <2>4. PICK T \in Bad : k = Cardinality(T)
    BY <2>3
  <2>5. sum[T] = G(sum)[T]
    BY <1>4
  <2>6. T # {}
    BY <1>2, <2>4, <2>5
  <2>7. pick(T) \in T
    BY <2>6
  <2>8. sum[T] = rows[pick(T)].nums + sum[T \ {pick(T)}]
    BY <2>5, <2>6
  <2> DEFINE U == T \ {pick(T)}
  <2>9. Cardinality(U) = k - 1 /\ U \in SUBSET S /\ k \in Nat
    BY <2>1, <2>4, <2>7, FS_RemoveElement
  <2>10. U \notin Bad
    <3>1. ~(k <= Cardinality(U))
      BY <2>9
    <3>2. QED
      BY <2>3, <3>1
  <2>11. sum[U] = Cardinality(PiecesIn(U))
    BY <2>9, <2>10
  <2>12. QED
    BY <1>1, <2>4, <2>6, <2>8, <2>11
<1>7. QED
  BY <1>5, <1>6

-----------------------------------------------------------------------------
\* Types and pieces under a step of one session

\* Session s goes on with x, and no row changes its product.
Shape(s, x) ==
  /\ rows' \in Seq(Row)
  /\ \A i \in DOMAIN rows : i \in DOMAIN rows' /\ rows'[i].goods = rows[i].goods
  /\ x \in CallOf(Len(rows')) /\ CallOK(x)'
  /\ sess' = [sess EXCEPT ![s] = x]
  /\ ordered' \in Items /\ asked' \in [Goods -> Nat]
  /\ calm' \in BOOLEAN /\ calls' \in Nat /\ faults' \in Nat

LEMMA RowFacts ==
  ASSUME TypeOK
  PROVE  /\ DOMAIN rows = 1..Len(rows) /\ Len(rows) \in Nat
         /\ \A i \in DOMAIN rows : rows[i] \in Row
         /\ Live \in SUBSET (1..Len(rows)) /\ CheckedRows \in SUBSET (1..Len(rows))
         /\ \A g \in Goods : RowsOf(g) \in SUBSET (1..Len(rows)) /\ RowsOf(g) \in SUBSET Nat
BY DEF TypeOK, Live, CheckedRows, RowsOf

LEMMA ShapeHolds ==
  ASSUME CartInv, NEW s \in Sessions, NEW x, Shape(s, x)
  PROVE  /\ TypeOK' /\ \A p \in Sessions : CallOK(sess[p])'
         /\ sess'[s] = x /\ \A p \in Sessions : p # s => sess'[p] = sess[p]
<1>1. TypeOK /\ \A p \in Sessions : sess[p] \in CallOf(Len(rows)) /\ CallOK(sess[p])
  BY DEF CartInv, TypeOK
<1>2. /\ sess'[s] = x /\ \A p \in Sessions : p # s => sess'[p] = sess[p]
      /\ DOMAIN sess' = Sessions /\ sess' = [p \in Sessions |-> sess'[p]]
  BY <1>1 DEF Shape, TypeOK
<1>3. Len(rows) \in Nat /\ Len(rows') \in Nat /\ Len(rows) <= Len(rows')
      /\ DOMAIN rows = 1..Len(rows)
  <2>1. /\ Len(rows) \in Nat /\ Len(rows') \in Nat
        /\ DOMAIN rows = 1..Len(rows) /\ DOMAIN rows' = 1..Len(rows')
    BY <1>1 DEF TypeOK, Shape
  <2>2. Len(rows) # 0 => Len(rows) \in DOMAIN rows
    BY <2>1
  <2>3. QED
    BY <2>1, <2>2 DEF Shape
<1>4. ASSUME NEW p \in Sessions, p # s
      PROVE  sess[p] \in CallOf(Len(rows')) /\ CallOK(sess[p])'
  <2>1. PICK y : y = sess[p] /\ y \in CallOf(Len(rows)) /\ CallOK(y)
    BY <1>1
  <2>2. y.id \in 0..Len(rows')
    BY <1>3, <2>1 DEF CallOf
  <2>3. y \in CallOf(Len(rows'))
    BY <2>1, <2>2 DEF CallOf
  <2>4. y.id # 0 => y.id \in DOMAIN rows
    BY <1>3, <2>1 DEF CallOf
  <2>5. CallOK(y)'
    BY <2>1, <2>4 DEF CallOK, Shape, Saving
  <2>6. QED
    BY <1>2, <1>4, <2>1, <2>3, <2>5 DEF CallOK, Saving
<1>5. sess' \in [Sessions -> CallOf(Len(rows'))]
  <2>1. \A p \in Sessions : sess'[p] \in CallOf(Len(rows'))
    BY <1>2, <1>4 DEF Shape
  <2>2. QED
    BY <1>2, <2>1
<1>6. \A p \in Sessions : CallOK(sess[p])'
  <2>1. CallOK(sess[s])'
    BY <1>2 DEF Shape, CallOK, Saving
  <2>2. QED
    BY <1>4, <2>1
<1>7. QED
  BY <1>2, <1>5, <1>6 DEF TypeOK, Shape

\* The pieces of g, from above and from below.
LEMMA PiecesHold ==
  ASSUME NEW g
  PROVE  /\ \A i \in DOMAIN rows : rows[i].goods = g => PiecesOfRow(i, rows[i].nums) \subseteq Pieces(g)
         /\ \A s \in Sessions : Saving(sess[s]) /\ sess[s].row.goods = g
                                  => PiecesToCome(s, sess[s]) \subseteq Pieces(g)
BY DEF Pieces

LEMMA PiecesWithin ==
  ASSUME CartInv, NEW s \in Sessions, NEW x, Shape(s, x), NEW g, NEW Q,
         \A i \in DOMAIN rows' : rows'[i].goods = g => PiecesOfRow(i, rows'[i].nums) \subseteq Q,
         \A p \in Sessions \ {s} : Saving(sess[p]) /\ sess[p].row.goods = g
                                     => PiecesToCome(p, sess[p]) \subseteq Q,
         Saving(x) /\ x.row.goods = g => PiecesToCome(s, x) \subseteq Q
  PROVE  Pieces(g)' \subseteq Q
<1>1. /\ sess'[s] = x /\ \A p \in Sessions : p # s => sess'[p] = sess[p]
  BY ShapeHolds
<1>2. ASSUME NEW p \in Sessions, Saving(sess'[p]), sess'[p].row.goods = g
      PROVE  PiecesToCome(p, sess'[p]) \subseteq Q
  BY <1>1, <1>2
<1>3. QED
  BY <1>2 DEF Pieces, PiecesOfRow, PiecesToCome, Saving

\* A step after which there are no pieces that there were not before.
LEMMA NothingNew ==
  ASSUME CartInv, NEW s \in Sessions, NEW x, Shape(s, x), UNCHANGED asked,
         \A i \in DOMAIN rows' :
           i \in DOMAIN rows /\
           \/ rows'[i].nums = rows[i].nums
           \/ /\ Saving(sess[s]) /\ sess[s].id = i
              /\ rows'[i].nums = sess[s].row.nums,
         Saving(x) => /\ Saving(sess[s]) /\ x.id = sess[s].id /\ x.row = sess[s].row
  PROVE  PiecesAsked'
<1>1. ASSUME NEW g \in Goods PROVE Pieces(g)' \subseteq Pieces(g)
  <2>1. ASSUME NEW i \in DOMAIN rows', rows'[i].goods = g
        PROVE  PiecesOfRow(i, rows'[i].nums) \subseteq Pieces(g)
    <3>1. i \in DOMAIN rows /\ rows[i].goods = g
      BY <2>1 DEF Shape
    <3>2. CASE rows'[i].nums = rows[i].nums
      BY <3>1, <3>2, PiecesHold
    <3>3. CASE /\ Saving(sess[s]) /\ sess[s].id = i
               /\ rows'[i].nums = sess[s].row.nums
      <4>1. TypeOK /\ CallOK(sess[s])
        BY DEF CartInv
      <4>2. i # 0
        BY <3>1, <4>1, RowFacts
      <4>3. sess[s].row.goods = g
        BY <3>1, <3>3, <4>1, <4>2 DEF CallOK
      <4>4. PiecesToCome(s, sess[s]) = PiecesOfRow(i, rows'[i].nums)
        BY <3>3, <4>2 DEF PiecesToCome
      <4>5. QED
        BY <3>3, <4>3, <4>4, PiecesHold
    <3>4. QED
      BY <3>2, <3>3
  <2>2. \A p \in Sessions : Saving(sess[p]) /\ sess[p].row.goods = g
                              => PiecesToCome(p, sess[p]) \subseteq Pieces(g)
    BY PiecesHold
  <2>3. Saving(x) /\ x.row.goods = g => PiecesToCome(s, x) \subseteq Pieces(g)
    BY <2>2 DEF PiecesToCome
  <2>4. QED
    BY <2>1, <2>2, <2>3, PiecesWithin
<1>2. ASSUME NEW g \in Goods
      PROVE  IsFiniteSet(Pieces(g)') /\ Cardinality(Pieces(g)') <= asked[g]
  <2> DEFINE P == Pieces(g)
             Q == Pieces(g)'
  <2>1. IsFiniteSet(P) /\ Cardinality(P) <= asked[g] /\ asked[g] \in Nat
    BY DEF CartInv, PiecesAsked, TypeOK
  <2>2. Q \in SUBSET P
    BY <1>1
  <2> HIDE DEF P, Q
  <2>3. IsFiniteSet(Q) /\ Cardinality(Q) <= Cardinality(P)
    BY <2>1, <2>2, FS_Subset
  <2>4. Cardinality(P) \in Nat /\ Cardinality(Q) \in Nat
    BY <2>1, <2>3, FS_CardinalityType
  <2>5. IsFiniteSet(Q) /\ Cardinality(Q) <= asked[g]
    BY <2>1, <2>3, <2>4
  <2>6. QED
    BY <2>5 DEF Q
<1>3. QED
  BY <1>2 DEF PiecesAsked

\* The pieces of g when they are at most n more than before.
LEMMA PiecesMore ==
  ASSUME CartInv, TypeOK', NEW g \in Goods, NEW n \in Nat, asked'[g] = asked[g] + n,
         NEW X, IsFiniteSet(X), Cardinality(X) <= n, Pieces(g)' \subseteq Pieces(g) \cup X
  PROVE  IsFiniteSet(Pieces(g)') /\ Cardinality(Pieces(g)') <= asked'[g]
<1> DEFINE P == Pieces(g)
           Q == Pieces(g)'
           m == asked[g]
<1>1. IsFiniteSet(P) /\ Cardinality(P) <= m /\ m \in Nat
  BY DEF CartInv, PiecesAsked, TypeOK
<1>2. Q \in SUBSET (P \cup X)
  OBVIOUS
<1> HIDE DEF P, Q, m
<1>3. IsFiniteSet(Q) /\ Cardinality(Q) <= m + n
  BY <1>1, <1>2, FewMore
<1>4. QED
  BY <1>3 DEF Q, m

\* A call that reads a row asks for all it may add.
LEMMA ReadPieces ==
  ASSUME CartInv, NEW s \in Sessions, NEW x, Shape(s, x), UNCHANGED rows, sess[s] = Idle,
         NEW g \in Goods, NEW n \in Nums, Ask(g, n),
         Saving(x), x.row.goods = g,
         IF x.id = 0 THEN x.row.nums <= n ELSE x.row.nums <= rows[x.id].nums + n
  PROVE  PiecesAsked'
<1>1. /\ TypeOK /\ TypeOK' /\ n \in Nat /\ ~Saving(sess[s])
      /\ x.row \in Row /\ x.row.nums \in Nat /\ x.id \in 0..Len(rows) /\ CallOK(x)'
  <2>1. TypeOK /\ TypeOK' /\ n \in Nat /\ ~Saving(sess[s])
    BY ShapeHolds, CartAssumption DEF CartInv, Idle, Saving
  <2>2. CallOK(x)' /\ x \in CallOf(Len(rows))
    BY DEF Shape
  <2>3. x.row \in Row /\ x.id \in 0..Len(rows)
    BY <2>2 DEF CallOK, Saving, CallOf
  <2>4. x.row.nums \in Nat
    BY <2>3 DEF Row
  <2>5. QED
    BY <2>1, <2>2, <2>3, <2>4
<1> DEFINE m == rows[x.id].nums
           k == x.row.nums
           X == IF x.id = 0 THEN {<<"new", s>>} \X (1..n)
                            ELSE {<<"row", x.id>>} \X (m + 1..m + n)
<1>2. x.id # 0 => x.id \in DOMAIN rows /\ rows[x.id].goods = g /\ m \in Nat
  BY <1>1, RowFacts DEF Row, CallOK
<1>3. IsFiniteSet(X) /\ Cardinality(X) <= n
  <2>1. \A o : IsFiniteSet({o} \X (1..n)) /\ Cardinality({o} \X (1..n)) = n
    BY <1>1, OwnedPieces
  <2>2. ASSUME m \in Nat, NEW o
        PROVE  IsFiniteSet({o} \X (m + 1..m + n)) /\ Cardinality({o} \X (m + 1..m + n)) = n
    <3>1. m + 1 \in Int /\ m + n \in Int
      BY <1>1, <2>2
    <3>2. /\ IsFiniteSet({o} \X (m + 1..m + n))
          /\ Cardinality({o} \X (m + 1..m + n))
               = IF m + 1 > m + n THEN 0 ELSE (m + n) - (m + 1) + 1
      BY <3>1, Block, Zenon
    <3>3. QED
      BY <1>1, <2>2, <3>2
  <2>3. CASE x.id = 0
    <3>1. X = {<<"new", s>>} \X (1..n)
      BY <2>3
    <3> HIDE DEF X
    <3>2. IsFiniteSet(X) /\ Cardinality(X) = n
      BY <2>1, <3>1
    <3>3. QED
      BY <1>1, <3>2
  <2>4. CASE x.id # 0
    <3>1. X = {<<"row", x.id>>} \X (m + 1..m + n)
      BY <2>4
    <3> HIDE DEF X
    <3>2. IsFiniteSet(X) /\ Cardinality(X) = n
      BY <1>2, <2>2, <2>4, <3>1
    <3>3. QED
      BY <1>1, <3>2
  <2>5. QED
    BY <2>3, <2>4
<1>4. PiecesToCome(s, x) \subseteq Pieces(g) \cup X
  <2>1. CASE x.id = 0
    <3>1. k <= n /\ PiecesToCome(s, x) = {<<"new", s>>} \X (1..k)
      BY <2>1 DEF PiecesToCome
    <3>2. 1..k \subseteq 1..n
      BY <1>1, <3>1
    <3>3. QED
      BY <2>1, <3>1, <3>2
  <2>2. CASE x.id # 0
    <3>1. k <= m + n /\ PiecesToCome(s, x) = {<<"row", x.id>>} \X (1..k)
      BY <2>2 DEF PiecesToCome, PiecesOfRow
    <3>2. 1..k \subseteq (1..m) \cup (m + 1..m + n)
      BY <1>1, <1>2, <2>2, <3>1
    <3>3. {<<"row", x.id>>} \X (1..m) \subseteq Pieces(g)
      BY <1>2, <2>2, PiecesHold DEF PiecesOfRow
    <3>4. QED
      BY <2>2, <3>1, <3>2, <3>3
  <2>3. QED
    BY <2>1, <2>2
<1> HIDE DEF X
<1>5. Pieces(g)' \subseteq Pieces(g) \cup X
  <2> DEFINE Q == Pieces(g) \cup X
  <2>1. \A i \in DOMAIN rows' : rows'[i].goods = g
                         => PiecesOfRow(i, rows'[i].nums) \subseteq Q
    BY PiecesHold
  <2>2. \A p \in Sessions \ {s} : Saving(sess[p]) /\ sess[p].row.goods = g
                         => PiecesToCome(p, sess[p]) \subseteq Q
    BY PiecesHold
  <2>3. PiecesToCome(s, x) \subseteq Q
    BY <1>4
  <2> HIDE DEF Q
  <2>4. Pieces(g)' \subseteq Q
    BY <2>1, <2>2, <2>3, PiecesWithin
  <2>5. QED
    BY <2>4 DEF Q
<1>6. ASSUME NEW h \in Goods, h # g PROVE Pieces(h)' \subseteq Pieces(h) \cup {}
  <2>1. \A i \in DOMAIN rows' : rows'[i].goods = h
                         => PiecesOfRow(i, rows'[i].nums) \subseteq Pieces(h)
    BY PiecesHold
  <2>2. \A p \in Sessions \ {s} : Saving(sess[p]) /\ sess[p].row.goods = h
                         => PiecesToCome(p, sess[p]) \subseteq Pieces(h)
    BY PiecesHold
  <2>3. Pieces(h)' \subseteq Pieces(h)
    BY <1>6, <2>1, <2>2, PiecesWithin
  <2>4. QED
    BY <2>3
<1>7. asked'[g] = asked[g] + n /\ \A h \in Goods : h # g => asked'[h] = asked[h] + 0
  BY <1>1 DEF TypeOK, Ask
<1>8. ASSUME NEW h \in Goods
      PROVE  IsFiniteSet(Pieces(h)') /\ Cardinality(Pieces(h)') <= asked'[h]
  <2>1. CASE h = g
    BY <1>1, <1>3, <1>5, <1>7, <2>1, PiecesMore
  <2>2. CASE h # g
    <3>1. IsFiniteSet({}) /\ Cardinality({}) <= 0 /\ 0 \in Nat
      BY FS_EmptySet
    <3>2. QED
      BY <1>1, <1>6, <1>7, <2>2, <3>1, PiecesMore
  <2>3. QED
    BY <2>1, <2>2
<1>9. QED
  BY <1>8 DEF PiecesAsked

\* An INSERT puts the pieces of a new row in the place of those to come.
LEMMA InsertPieces ==
  ASSUME CartInv, NEW s \in Sessions, Shape(s, Idle), UNCHANGED asked,
         Saving(sess[s]), sess[s].id = 0, rows' = Append(rows, sess[s].row)
  PROVE  PiecesAsked'
<1> DEFINE r == sess[s].row
           m == Len(rows) + 1
           N == {<<"new", s>>} \X (1..r.nums)
           X == {<<"row", m>>} \X (1..r.nums)
<1>1. /\ TypeOK /\ r \in Row /\ r.nums \in Nat /\ ~Saving(Idle)
      /\ PiecesToCome(s, sess[s]) = N
  BY DEF CartInv, CallOK, Row, Idle, Saving, PiecesToCome
<1>2. /\ DOMAIN rows = 1..Len(rows) /\ Len(rows) \in Nat
      /\ DOMAIN rows' = DOMAIN rows \cup {m} /\ rows'[m] = r
      /\ \A i \in DOMAIN rows : rows'[i] = rows[i]
  BY <1>1 DEF TypeOK
<1>3. /\ IsFiniteSet(X) /\ Cardinality(X) = r.nums
      /\ IsFiniteSet(N) /\ Cardinality(N) = r.nums
  <2>1. \A o : IsFiniteSet({o} \X (1..r.nums)) /\ Cardinality({o} \X (1..r.nums)) = r.nums
    BY <1>1, OwnedPieces
  <2>2. QED
    BY <2>1
<1>4. ASSUME NEW h \in Goods
      PROVE  /\ \A i \in DOMAIN rows : rows[i].goods = h
                  => PiecesOfRow(i, rows[i].nums) \subseteq Pieces(h) \ N
             /\ \A p \in Sessions \ {s} : Saving(sess[p]) /\ sess[p].row.goods = h
                  => PiecesToCome(p, sess[p]) \subseteq Pieces(h) \ N
             /\ r.goods = h => N \subseteq Pieces(h)
  <2>1. \A i : PiecesOfRow(i, rows[i].nums) \cap N = {}
    BY DEF PiecesOfRow
  <2>2. \A p \in Sessions \ {s} : PiecesToCome(p, sess[p]) \cap N = {}
    BY DEF PiecesToCome, PiecesOfRow
  <2>3. QED
    BY <1>1, <2>1, <2>2, PiecesHold
<1> HIDE DEF N
<1>5. ASSUME NEW h \in Goods
      PROVE  /\ r.goods = h => Pieces(h)' \subseteq (Pieces(h) \ N) \cup X
             /\ r.goods # h => Pieces(h)' \subseteq Pieces(h)
  <2>1. CASE r.goods = h
    <3> DEFINE Q == (Pieces(h) \ N) \cup X
    <3>1. \A i \in DOMAIN rows' : rows'[i].goods = h
                   => PiecesOfRow(i, rows'[i].nums) \subseteq Q
      BY <1>2, <1>4 DEF PiecesOfRow
    <3>2. \A p \in Sessions \ {s} : Saving(sess[p]) /\ sess[p].row.goods = h
                   => PiecesToCome(p, sess[p]) \subseteq Q
      BY <1>4
    <3> HIDE DEF Q
    <3>3. Pieces(h)' \subseteq Q
      BY <1>1, <3>1, <3>2, PiecesWithin
    <3>4. QED
      BY <2>1, <3>3 DEF Q
  <2>2. CASE r.goods # h
    <3>1. \A i \in DOMAIN rows' : rows'[i].goods = h
                   => PiecesOfRow(i, rows'[i].nums) \subseteq Pieces(h)
      BY <1>2, <1>4, <2>2
    <3>2. \A p \in Sessions \ {s} : Saving(sess[p]) /\ sess[p].row.goods = h
                   => PiecesToCome(p, sess[p]) \subseteq Pieces(h)
      BY <1>4
    <3>3. QED
      BY <1>1, <2>2, <3>1, <3>2, PiecesWithin
  <2>3. QED
    BY <2>1, <2>2
<1> HIDE DEF X
<1>6. ASSUME NEW h \in Goods
      PROVE  IsFiniteSet(Pieces(h)') /\ Cardinality(Pieces(h)') <= asked'[h]
  <2> DEFINE P == Pieces(h)
             Q == Pieces(h)'
  <2>1. /\ IsFiniteSet(P) /\ Cardinality(P) <= asked[h] /\ asked[h] \in Nat
        /\ asked'[h] = asked[h]
    BY DEF CartInv, PiecesAsked, TypeOK
  <2>2. CASE r.goods = h
    <3>1. Q \in SUBSET ((P \ N) \cup X) /\ N \in SUBSET P
      BY <1>4, <1>5, <2>2
    <3> HIDE DEF P, Q
    <3>2. IsFiniteSet(Q) /\ Cardinality(Q) <= asked[h]
      BY <1>3, <2>1, <3>1, Exchange
    <3>3. QED
      BY <2>1, <3>2 DEF Q
  <2>3. CASE r.goods # h
    <3>1. Q \in SUBSET P
      BY <1>5, <2>3
    <3> HIDE DEF P, Q
    <3>2. IsFiniteSet(Q) /\ Cardinality(Q) <= Cardinality(P)
      BY <2>1, <3>1, FS_Subset
    <3>3. Cardinality(P) \in Nat /\ Cardinality(Q) \in Nat
      BY <2>1, <3>2, FS_CardinalityType
    <3>4. IsFiniteSet(Q) /\ Cardinality(Q) <= asked[h]
      BY <2>1, <3>2, <3>3
    <3>5. QED
      BY <2>1, <3>4 DEF Q
  <2>4. QED
    BY <2>2, <2>3
<1>7. QED
  BY <1>6 DEF PiecesAsked

-----------------------------------------------------------------------------
\* Calls one after the other

BasketStep == calm' => B!BasketNext \/ UNCHANGED <<basket, ordered>>
Good == CartInv' /\ BasketStep

LEMMA StepGood ==
  ASSUME CartInv, NEW s \in Sessions, NEW x, Shape(s, x), PiecesAsked',
         calm' => /\ calm /\ \A p \in Sessions : p # s => sess[p] = Idle
                  /\ Fresh(x)' /\ OneRowEach'
                  /\ B!BasketNext \/ UNCHANGED <<basket, ordered>>
  PROVE  Good
<1>1. /\ TypeOK' /\ \A p \in Sessions : CallOK(sess[p])'
      /\ sess'[s] = x /\ \A p \in Sessions : p # s => sess'[p] = sess[p]
  BY ShapeHolds
<1>2. ASSUME calm' PROVE OneByOne'
  <2>1. \A p \in Sessions : p # s => sess'[p] = Idle
    BY <1>1, <1>2
  <2>2. \A p, q \in Sessions : sess'[p] # Idle /\ sess'[q] # Idle => p = q
    BY <2>1
  <2>3. ASSUME NEW p \in Sessions PROVE Fresh(sess[p])'
    <3>1. CASE p = s
      BY <1>1, <1>2, <3>1 DEF Fresh
    <3>2. CASE p # s
      <4>1. \A y : y.pc = "idle" => Fresh(y)'
        BY DEF Fresh
      <4>2. sess'[p].pc = "idle"
        BY <2>1, <3>2 DEF Idle
      <4>3. QED
        BY <4>1, <4>2 DEF Fresh
    <3>3. QED
      BY <3>1, <3>2
  <2>4. Idle' = Idle
    BY DEF Idle, NoItems
  <2>5. QED
    BY <1>2, <2>2, <2>3, <2>4 DEF OneByOne
<1>3. QED
  BY <1>1, <1>2 DEF Good, BasketStep, CartInv

\* What the user sees of a product with one row, or none.
LEMMA BasketOf ==
  ASSUME TypeOK, NEW g \in Goods, \A i, j \in RowsOf(g) : i = j
  PROVE  /\ RowsOf(g) = {} => basket[g] = None
         /\ \A i \in RowsOf(g) : basket[g] = [nums |-> rows[i].nums, checked |-> rows[i].checked]
<1>1. RowsOf(g) # {} => Min(RowsOf(g)) \in RowsOf(g)
  BY RowFacts, MinFacts
<1>2. QED
  BY <1>1 DEF basket

LEMMA BasketOfNext ==
  ASSUME TypeOK', NEW g \in Goods, \A i, j \in RowsOf(g)' : i = j
  PROVE  /\ RowsOf(g)' = {} => basket'[g] = None
         /\ \A i \in RowsOf(g)' :
              basket'[g] = [nums |-> rows'[i].nums, checked |-> rows'[i].checked]
<1>1. RowsOf(g)' \in SUBSET Nat
  BY DEF TypeOK, RowsOf, Live
<1>2. RowsOf(g)' # {} => Min(RowsOf(g)') \in RowsOf(g)'
  BY <1>1, MinFacts
<1>3. basket'[g] = IF RowsOf(g)' = {} THEN None
                   ELSE [nums |-> rows'[Min(RowsOf(g)')].nums,
                         checked |-> rows'[Min(RowsOf(g)')].checked]
  BY DEF basket
<1>4. QED
  BY <1>2, <1>3

\* Of a product whose rows are as they were the user sees the same.
LEMMA SameItem ==
  ASSUME TypeOK, NEW g \in Goods, RowsOf(g)' = RowsOf(g),
         \A i \in RowsOf(g) : rows'[i] = rows[i]
  PROVE  basket'[g] = basket[g]
<1>1. RowsOf(g) # {} => Min(RowsOf(g)) \in RowsOf(g)
  BY RowFacts, MinFacts
<1>2. /\ basket[g] = IF RowsOf(g) = {} THEN None
                     ELSE [nums |-> rows[Min(RowsOf(g))].nums,
                           checked |-> rows[Min(RowsOf(g))].checked]
      /\ basket'[g] = IF RowsOf(g)' = {} THEN None
                      ELSE [nums |-> rows'[Min(RowsOf(g)')].nums,
                            checked |-> rows'[Min(RowsOf(g)')].checked]
  BY DEF basket
<1>3. QED
  BY <1>1, <1>2

LEMMA ItemChanged ==
  ASSUME TypeOK, NEW g \in Goods, NEW v, basket'[g] = v,
         \A h \in Goods : h # g => RowsOf(h)' = RowsOf(h) /\ \A i \in RowsOf(h) : rows'[i] = rows[i]
  PROVE  basket' = [basket EXCEPT ![g] = v]
<1>1. \A h \in Goods : h # g => basket'[h] = basket[h]
  BY SameItem
<1>2. DOMAIN basket = Goods /\ DOMAIN basket' = Goods
      /\ basket' = [h \in Goods |-> basket'[h]] /\ basket = [h \in Goods |-> basket[h]]
  BY DEF basket
<1>3. QED
  BY <1>1, <1>2

LEMMA SameRows ==
  ASSUME UNCHANGED rows
  PROVE  UNCHANGED basket /\ UNCHANGED CheckedNums /\ (OneRowEach => OneRowEach')
BY DEF basket, CheckedNums, RowsOf, Live, CheckedRows, OneRowEach

-----------------------------------------------------------------------------
\* Reads

LEMMA NewRowFacts ==
  ASSUME NEW g \in Goods, NEW n \in Nums
  PROVE  /\ n \in Nat /\ NewRow(g, n) \in Row /\ NewRow(g, n).live
         /\ NewRow(g, n).goods = g /\ NewRow(g, n).nums = n
BY CartAssumption DEF NewRow, Row

\* What a call for g that is alone makes of what it read.
ReadOf(g, n, i, r) ==
  \/ i = 0 /\ RowsOf(g) = {} /\ r = NewRow(g, n)
  \/ /\ i \in Live
     /\ \E c \in BOOLEAN :
          \/ r = [rows[i] EXCEPT !.nums = @ + n]
          \/ r = [rows[i] EXCEPT !.nums = IF n > 0 THEN n ELSE @, !.checked = c]

LEMMA ReadHolds ==
  ASSUME CartInv, NEW s \in Sessions, NEW g \in Goods, NEW n \in Nums,
         NEW r \in Row, r.live, r.goods = g,
         NEW i \in 0..Len(rows), i # 0 => rows[i].goods = g,
         IF i = 0 THEN r.nums <= n ELSE r.nums <= rows[i].nums + n,
         NEW k \in Nat, Hold(s, i, r, k), Ask(g, n), UNCHANGED <<rows, ordered>>,
         sess[s] = Idle, calls' \in Nat, faults' \in Nat, calm' \in BOOLEAN,
         calm' => /\ calm /\ \A p \in Sessions : sess[p] = Idle
                  /\ ReadOf(g, n, i, r)
  PROVE  Good
<1> DEFINE x == [pc |-> "save", id |-> i, row |-> r, add |-> k, items |-> NoItems]
<1>1. TypeOK /\ (calm => OneByOne)
  BY DEF CartInv
<1>2. x \in CallOf(Len(rows))
  BY DEF CallOf, NoItems, Items
<1>3. /\ x.pc = "save" /\ x.id = i /\ x.row = r /\ sess' = [sess EXCEPT ![s] = x]
  BY DEF Hold
<1> HIDE DEF x
<1>4. CallOK(x)'
  BY <1>3 DEF CallOK, Saving
<1>5. asked' \in [Goods -> Nat] /\ ordered' \in Items
  <2>1. n \in Nat /\ asked \in [Goods -> Nat] /\ asked[g] \in Nat /\ asked[g] + n \in Nat
    <3>1. n \in Nat
      BY NewRowFacts
    <3>2. asked \in [Goods -> Nat] /\ asked[g] \in Nat
      BY <1>1 DEF TypeOK
    <3>3. QED
      BY <3>1, <3>2
  <2>2. asked' = [asked EXCEPT ![g] = asked[g] + n]
    BY DEF Ask
  <2>3. QED
    BY <1>1, <2>1, <2>2 DEF TypeOK
<1>6. Shape(s, x)
  BY <1>1, <1>2, <1>3, <1>4, <1>5 DEF Shape, TypeOK
<1>7. PiecesAsked'
  BY <1>3, <1>6, ReadPieces DEF Saving
<1>8. ASSUME calm' PROVE Fresh(x)'
  <2>1. RowsOf(g)' = RowsOf(g) /\ Live' = Live
    BY DEF RowsOf, Live
  <2>2. CASE i = 0 /\ RowsOf(g) = {} /\ r = NewRow(g, n)
    BY <1>3, <2>1, <2>2 DEF Fresh
  <2>3. CASE i \in Live /\ ReadOf(g, n, i, r)
    <3>1. Live \subseteq DOMAIN rows /\ DOMAIN rows = 1..Len(rows)
      BY <1>1 DEF Live, TypeOK
    <3>2. i # 0
      BY <2>3, <3>1
    <3>3. \E m \in Nums, c \in BOOLEAN :
             \/ r = [rows[i] EXCEPT !.nums = @ + m]
             \/ r = [rows[i] EXCEPT !.nums = IF m > 0 THEN m ELSE @, !.checked = c]
      BY <2>3, <3>2 DEF ReadOf, NewRow
    <3>4. QED
      BY <1>3, <2>1, <2>3, <3>2, <3>3 DEF Fresh
  <2>4. QED
    BY <1>8, <2>2, <2>3 DEF ReadOf
<1>9. calm' => OneRowEach'
  BY <1>1, SameRows DEF OneByOne
<1>10. QED
  BY <1>6, <1>7, <1>8, <1>9, SameRows, StepGood

\* The counters of a call, and what calm says of it.
LEMMA CallFacts ==
  ASSUME CartInv, NEW s \in Sessions, Call(s), Alone, UNCHANGED faults
  PROVE  /\ sess[s] = Idle /\ calls' \in Nat /\ faults' \in Nat /\ calm' \in BOOLEAN
         /\ calm' => calm /\ \A p \in Sessions : sess[p] = Idle
<1>1. /\ sess[s] = Idle /\ calls' \in Nat /\ faults' \in Nat
  BY DEF Call, CartInv, TypeOK
<1>2. calm' = (calm /\ \A p \in Sessions : sess[p] = Idle)
  BY DEF Alone
<1>3. calm' => calm /\ \A p \in Sessions : sess[p] = Idle
  BY <1>2, Zenon
<1>4. calm' \in BOOLEAN
  BY <1>2, Zenon
<1>5. QED
  BY <1>1, <1>3, <1>4

LEMMA FirstRow ==
  ASSUME TypeOK, NEW g \in Goods, RowsOf(g) # {}, NEW i, i = Min(RowsOf(g))
  PROVE  /\ i \in Live /\ i \in 0..Len(rows) /\ rows[i] \in Row
         /\ rows[i].goods = g /\ rows[i].live
<1>1. i \in RowsOf(g)
  BY RowFacts, MinFacts
<1>2. i \in Live /\ rows[i].goods = g /\ i \in DOMAIN rows /\ rows[i].live
  BY <1>1 DEF RowsOf, Live
<1>3. QED
  BY <1>2, RowFacts

LEMMA CreateHolds ==
  ASSUME CartInv, NEW s \in Sessions, NEW g \in Goods, NEW n \in Nums,
         CreateRead(s, g, n) \/ CreateReadFail(s, g, n)
  PROVE  Good
<1>1. TypeOK /\ n \in Nat
  BY NewRowFacts DEF CartInv
<1>2. 0 \in 0..Len(rows)
  BY <1>1, RowFacts
<1>3. CASE CreateRead(s, g, n)
  <2>1. /\ Call(s) /\ Alone /\ Ask(g, n) /\ UNCHANGED <<rows, ordered, faults>>
    BY <1>3 DEF CreateRead
  <2>2. CASE RowsOf(g) = {}
    <3>1. Hold(s, 0, NewRow(g, n), n)
      BY <1>3, <2>2 DEF CreateRead
    <3>2. PICK r \in Row : r = NewRow(g, n)
      BY NewRowFacts
    <3>3. r.live /\ r.goods = g /\ r.nums <= n
      BY <1>1, <3>2, NewRowFacts
    <3>4. ReadOf(g, n, 0, r)
      BY <2>2, <3>2 DEF ReadOf
    <3>5. QED
      BY <1>1, <1>2, <2>1, <3>1, <3>2, <3>3, <3>4, CallFacts, ReadHolds
  <2>3. CASE RowsOf(g) # {}
    <3>1. PICK i : i = Min(RowsOf(g))
      OBVIOUS
    <3>2. /\ i \in Live /\ i \in 0..Len(rows) /\ rows[i] \in Row
          /\ rows[i].goods = g /\ rows[i].live
      BY <1>1, <2>3, <3>1, FirstRow
    <3>3. Hold(s, i, [rows[i] EXCEPT !.nums = @ + n], n)
      BY <1>3, <2>3, <3>1 DEF CreateRead
    <3>4. PICK r \in Row : r = [rows[i] EXCEPT !.nums = @ + n]
      <4>1. PICK old \in Row : old = rows[i]
        BY <3>2
      <4>2. old.nums + n \in Nat
        BY <1>1 DEF Row
      <4>3. [old EXCEPT !.nums = @ + n] \in Row
        BY <4>2 DEF Row
      <4>4. QED
        BY <4>1, <4>3
    <3>5. r.live /\ r.goods = g /\ r.nums = rows[i].nums + n /\ rows[i].nums \in Nat
      BY <3>2, <3>4 DEF Row
    <3>6. i # 0 /\ r.nums <= rows[i].nums + n
      BY <1>1, <3>2, <3>5, RowFacts
    <3>7. Hold(s, i, r, n) /\ TRUE \in BOOLEAN
      BY <3>3, <3>4
    <3>8. ReadOf(g, n, i, r)
      BY <3>2, <3>4, <3>7 DEF ReadOf
    <3>9. QED
      BY <1>1, <2>1, <3>2, <3>5, <3>6, <3>7, <3>8, CallFacts, ReadHolds
  <2>4. QED
    BY <2>2, <2>3
<1>4. CASE CreateReadFail(s, g, n)
  <2>1. /\ Hold(s, 0, NewRow(g, n), n) /\ Ask(g, n) /\ UNCHANGED <<rows, ordered>>
        /\ sess[s] = Idle /\ calls' \in Nat /\ faults' \in Nat /\ calm' = FALSE
    BY <1>1, <1>4 DEF CreateReadFail, Call, Faulty, TypeOK
  <2>2. PICK r \in Row : r = NewRow(g, n)
    BY NewRowFacts
  <2>3. r.live /\ r.goods = g /\ r.nums <= n
    BY <1>1, <2>2, NewRowFacts
  <2>4. QED
    BY <1>1, <1>2, <2>1, <2>2, <2>3, ReadHolds
<1>5. QED
  BY <1>3, <1>4

LEMMA UpdateHolds ==
  ASSUME CartInv, NEW s \in Sessions, NEW g \in Goods, NEW c \in BOOLEAN, NEW n \in Nums,
         UpdateRead(s, g, c, n)
  PROVE  Good
<1>1. TypeOK /\ n \in Nat
  BY NewRowFacts DEF CartInv
<1>2. /\ RowsOf(g) # {} /\ Call(s) /\ Alone /\ Ask(g, n)
      /\ UNCHANGED <<rows, ordered, faults>>
  BY DEF UpdateRead
<1>3. PICK i : i = Min(RowsOf(g))
  OBVIOUS
<1>4. /\ i \in Live /\ i \in 0..Len(rows) /\ rows[i] \in Row
      /\ rows[i].goods = g /\ rows[i].live
  BY <1>1, <1>2, <1>3, FirstRow
<1>5. PICK r \in Row :
        r = [rows[i] EXCEPT !.nums = IF n > 0 THEN n ELSE @, !.checked = c]
  BY <1>1, <1>4 DEF Row
<1>6. Hold(s, i, r, 0)
  BY <1>3, <1>5 DEF UpdateRead
<1>7. /\ r.live /\ r.goods = g /\ rows[i].nums \in Nat
      /\ r.nums = IF n > 0 THEN n ELSE rows[i].nums
  BY <1>4, <1>5 DEF Row
<1>8. i # 0 /\ r.nums <= rows[i].nums + n /\ 0 \in Nat
  BY <1>1, <1>4, <1>7, RowFacts
<1>9. ReadOf(g, n, i, r)
  BY <1>4, <1>5 DEF ReadOf
<1>10. QED
  BY <1>1, <1>2, <1>4, <1>6, <1>7, <1>8, <1>9, CallFacts, ReadHolds

-----------------------------------------------------------------------------
\* Calls that end

LEMMA IdleFacts ==
  /\ Idle.pc = "idle" /\ ~Saving(Idle) /\ (\A n \in Nat : Idle \in CallOf(n))
  /\ CallOK(Idle)' /\ Fresh(Idle)'
<1>1. Idle' = Idle
  BY DEF Idle, NoItems
<1>2. Idle.pc = "idle" /\ ~Saving(Idle)
  BY DEF Idle, Saving
<1>3. ASSUME NEW n \in Nat PROVE Idle \in CallOf(n)
  BY DEF Idle, NoItems, Items, CallOf
<1>4. QED
  BY <1>1, <1>2, <1>3 DEF CallOK, Fresh, Saving

LEMMA EndShape ==
  ASSUME CartInv, NEW s \in Sessions, Finish(s), rows' \in Seq(Row),
         \A i \in DOMAIN rows : i \in DOMAIN rows' /\ rows'[i].goods = rows[i].goods,
         UNCHANGED asked, ordered' \in Items, calm' \in BOOLEAN,
         calls' \in Nat, faults' \in Nat
  PROVE  Shape(s, Idle)
<1>1. Len(rows') \in Nat
  OBVIOUS
<1>2. Idle \in CallOf(Len(rows')) /\ CallOK(Idle)'
  BY <1>1, IdleFacts
<1>3. QED
  BY <1>2 DEF Shape, Finish, CartInv, TypeOK

\* A call under way while calls come one after the other is the only one.
LEMMA OnlyOne ==
  ASSUME CartInv, calm, NEW s \in Sessions, sess[s].pc # "idle"
  PROVE  /\ Fresh(sess[s]) /\ OneRowEach
         /\ \A p \in Sessions : p # s => sess[p] = Idle
<1>1. sess[s] # Idle
  BY IdleFacts
<1>2. QED
  BY <1>1 DEF CartInv, OneByOne

\* A row of g is written where g had no other.
LEMMA Written ==
  ASSUME TypeOK, TypeOK', OneRowEach, NEW g \in Goods, NEW r \in Row, r.live, r.goods = g,
         NEW i, RowsOf(g) \subseteq {i}, i \in DOMAIN rows => rows[i].goods = g,
         DOMAIN rows' = DOMAIN rows \cup {i}, rows'[i] = r,
         \A j \in DOMAIN rows : j # i => rows'[j] = rows[j]
  PROVE  /\ OneRowEach'
         /\ basket' = [basket EXCEPT ![g] = [nums |-> r.nums, checked |-> r.checked]]
<1>1. RowsOf(g)' = {i}
  BY DEF RowsOf, Live
<1>2. ASSUME NEW h \in Goods, h # g
      PROVE  RowsOf(h)' = RowsOf(h) /\ \A j \in RowsOf(h) : rows'[j] = rows[j]
  BY <1>2 DEF RowsOf, Live
<1>3. OneRowEach'
  BY <1>1, <1>2 DEF OneRowEach
<1>4. basket'[g] = [nums |-> r.nums, checked |-> r.checked]
  BY <1>1, BasketOfNext
<1> DEFINE v == [nums |-> r.nums, checked |-> r.checked]
<1>5. basket'[g] = v
  BY <1>4
<1> HIDE DEF v
<1>6. basket' = [basket EXCEPT ![g] = v]
  BY <1>2, <1>5, ItemChanged
<1>7. QED
  BY <1>3, <1>6 DEF v

LEMMA InsertHolds ==
  ASSUME CartInv, NEW s \in Sessions, SaveInsert(s)
  PROVE  Good
<1> DEFINE r == sess[s].row
           m == Len(rows) + 1
           g == r.goods
<1>1. /\ sess[s].pc = "save" /\ sess[s].id = 0 /\ Finish(s)
      /\ rows' = Append(rows, r) /\ UNCHANGED <<ordered, asked, calm, calls, faults>>
  BY DEF SaveInsert
<1>2. TypeOK /\ Saving(sess[s]) /\ r \in Row /\ r.live /\ g \in Goods
  BY <1>1 DEF CartInv, CallOK, Saving, Row
<1> HIDE DEF r
<1>3. /\ rows' \in Seq(Row) /\ DOMAIN rows = 1..Len(rows) /\ Len(rows) \in Nat
      /\ DOMAIN rows' = DOMAIN rows \cup {m} /\ rows'[m] = r
      /\ \A j \in DOMAIN rows : rows'[j] = rows[j]
  BY <1>1, <1>2 DEF TypeOK
<1>4. Shape(s, Idle)
  <2>1. /\ UNCHANGED asked /\ ordered' \in Items /\ calm' \in BOOLEAN
        /\ calls' \in Nat /\ faults' \in Nat
    BY <1>1, <1>2 DEF TypeOK
  <2>2. QED
    BY <1>1, <1>3, <2>1, EndShape
<1>5. PiecesAsked'
  BY <1>1, <1>2, <1>4, InsertPieces DEF r
<1>6. ASSUME calm'
      PROVE  /\ calm /\ \A p \in Sessions : p # s => sess[p] = Idle
             /\ Fresh(Idle)' /\ OneRowEach' /\ B!BasketNext
  <2>1. /\ calm /\ Fresh(sess[s]) /\ OneRowEach
        /\ \A p \in Sessions : p # s => sess[p] = Idle
    BY <1>1, <1>6, OnlyOne
  <2>2. RowsOf(g) = {} /\ \E n \in Nums : r = NewRow(g, n)
    BY <1>1, <2>1 DEF Fresh, r
  <2>3. PICK n \in Nums : r = NewRow(g, n)
    BY <2>2
  <2>4. TypeOK'
    BY <1>4, ShapeHolds
  <2>5. /\ OneRowEach'
        /\ basket' = [basket EXCEPT ![g] = [nums |-> r.nums, checked |-> r.checked]]
    <3>1. m \notin DOMAIN rows /\ RowsOf(g) \subseteq {m}
      BY <1>3, <2>2
    <3> HIDE DEF m, g
    <3>2. r.goods = g
      BY DEF g
    <3>3. QED
      BY <1>2, <1>3, <2>1, <2>4, <3>1, <3>2, Written
  <2>6. basket[g] = None
    BY <1>2, <2>2, BasketOf
  <2>7. r.nums = n /\ r.checked = FALSE
    <3>1. NewRow(g, n).nums = n /\ NewRow(g, n).checked = FALSE
      BY DEF NewRow
    <3>2. QED
      BY <2>3, <3>1
  <2>8. B!Add(g, n)
    BY <1>1, <2>5, <2>6, <2>7 DEF B!Add
  <2>9. QED
    BY <1>2, <2>1, <2>5, <2>8, IdleFacts DEF B!BasketNext
<1>7. QED
  BY <1>4, <1>5, <1>6, StepGood

LEMMA SaveUpdateHolds ==
  ASSUME CartInv, NEW s \in Sessions, SaveUpdate(s)
  PROVE  Good
<1> DEFINE r == sess[s].row
           i == sess[s].id
           g == r.goods
<1>1. /\ sess[s].pc = "save" /\ i \in Live /\ Finish(s)
      /\ rows' = [rows EXCEPT ![i] = r] /\ UNCHANGED <<ordered, asked, calm, calls, faults>>
  BY DEF SaveUpdate
<1>2. TypeOK /\ Saving(sess[s]) /\ r \in Row /\ r.live /\ g \in Goods
  BY <1>1 DEF CartInv, CallOK, Saving, Row
<1>3. i \in DOMAIN rows /\ i # 0 /\ rows[i].goods = g
  <2>1. i \in DOMAIN rows /\ i # 0
    BY <1>1, <1>2 DEF TypeOK, Live
  <2>2. QED
    BY <1>2, <2>1 DEF CartInv, CallOK
<1> HIDE DEF r, i
<1>4. /\ rows' \in Seq(Row) /\ DOMAIN rows' = DOMAIN rows /\ rows'[i] = r
      /\ \A j \in DOMAIN rows : j # i => rows'[j] = rows[j]
  BY <1>1, <1>2, <1>3 DEF TypeOK
<1>5. Shape(s, Idle)
  <2>1. /\ UNCHANGED asked /\ ordered' \in Items /\ calm' \in BOOLEAN
        /\ calls' \in Nat /\ faults' \in Nat
    BY <1>1, <1>2 DEF TypeOK
  <2>2. \A j \in DOMAIN rows : j \in DOMAIN rows' /\ rows'[j].goods = rows[j].goods
    BY <1>3, <1>4
  <2>3. QED
    BY <1>1, <1>4, <2>1, <2>2, EndShape
<1>6. PiecesAsked'
  <2>1. \A j \in DOMAIN rows' :
          j \in DOMAIN rows /\
          \/ rows'[j].nums = rows[j].nums
          \/ /\ Saving(sess[s]) /\ sess[s].id = j
             /\ rows'[j].nums = sess[s].row.nums
    BY <1>2, <1>4 DEF i, r
  <2>2. QED
    BY <1>1, <1>5, <2>1, IdleFacts, NothingNew
<1>7. ASSUME calm'
      PROVE  /\ calm /\ \A p \in Sessions : p # s => sess[p] = Idle
             /\ Fresh(Idle)' /\ OneRowEach' /\ B!BasketNext
  <2>1. /\ calm /\ Fresh(sess[s]) /\ OneRowEach
        /\ \A p \in Sessions : p # s => sess[p] = Idle
    BY <1>1, <1>7, OnlyOne
  <2>2. PICK n \in Nums, c \in BOOLEAN :
          \/ r = [rows[i] EXCEPT !.nums = @ + n]
          \/ r = [rows[i] EXCEPT !.nums = IF n > 0 THEN n ELSE @, !.checked = c]
    BY <1>1, <1>3, <2>1 DEF Fresh, r, i
  <2>3. TypeOK'
    BY <1>5, ShapeHolds
  <2>4. i \in RowsOf(g) /\ RowsOf(g) \subseteq {i}
    BY <1>1, <1>2, <1>3, <2>1 DEF RowsOf, OneRowEach
  <2>5. /\ OneRowEach'
        /\ basket' = [basket EXCEPT ![g] = [nums |-> r.nums, checked |-> r.checked]]
    <3>1. DOMAIN rows' = DOMAIN rows \cup {i}
      BY <1>3, <1>4
    <3> HIDE DEF g
    <3>2. r.goods = g
      BY DEF g
    <3>3. QED
      BY <1>2, <1>3, <1>4, <2>1, <2>3, <2>4, <3>1, <3>2, Written
  <2>6. PICK old \in Row : old = rows[i]
    BY <1>2, <1>3, RowFacts
  <2>7. /\ basket[g] = [nums |-> old.nums, checked |-> old.checked]
        /\ old.nums \in Nat /\ old.checked \in BOOLEAN /\ basket[g] # None
    <3>1. basket[g] = [nums |-> old.nums, checked |-> old.checked]
      BY <1>2, <2>1, <2>4, <2>6, BasketOf DEF OneRowEach
    <3>2. old.nums \in Nat /\ old.checked \in BOOLEAN
      BY DEF Row
    <3>3. QED
      BY <3>1, <3>2, CartAssumption
  <2>8. CASE r = [old EXCEPT !.nums = @ + n]
    <3>1. r.nums = old.nums + n /\ r.checked = old.checked
      BY <2>8 DEF Row
    <3>2. [nums |-> r.nums, checked |-> r.checked]
            = [nums |-> basket[g].nums + n, checked |-> basket[g].checked]
      BY <2>7, <3>1
    <3>3. B!Add(g, n)
      BY <1>1, <2>5, <2>7, <3>2 DEF B!Add
    <3>4. QED
      BY <1>2, <2>1, <2>5, <3>3, IdleFacts DEF B!BasketNext
  <2>9. CASE r = [old EXCEPT !.nums = IF n > 0 THEN n ELSE @, !.checked = c]
    <3>1. r.nums = (IF n > 0 THEN n ELSE old.nums) /\ r.checked = c
      BY <2>9 DEF Row
    <3>2. [nums |-> r.nums, checked |-> r.checked]
            = [nums |-> IF n > 0 THEN n ELSE basket[g].nums, checked |-> c]
      BY <2>7, <3>1
    <3>3. B!Set(g, c, n)
      BY <1>1, <2>5, <2>7, <3>2 DEF B!Set
    <3>4. QED
      BY <1>2, <2>1, <2>5, <3>3, IdleFacts DEF B!BasketNext
  <2>10. QED
    BY <2>2, <2>6, <2>8, <2>9
<1>8. QED
  BY <1>5, <1>6, <1>7, StepGood

LEMMA SameTypes ==
  ASSUME CartInv, UNCHANGED <<rows, ordered, asked, calls>>,
         faults' \in Nat, calm' \in BOOLEAN
  PROVE  /\ rows' \in Seq(Row) /\ ordered' \in Items /\ asked' \in [Goods -> Nat]
         /\ calls' \in Nat /\ TypeOK
         /\ \A i \in DOMAIN rows : i \in DOMAIN rows' /\ rows'[i].goods = rows[i].goods
BY DEF CartInv, TypeOK

LEMMA MissHolds ==
  ASSUME CartInv, NEW s \in Sessions, SaveMiss(s)
  PROVE  Good
<1>1. /\ sess[s].pc = "save" /\ sess[s].id \in DOMAIN rows \ Live
      /\ sess' = [sess EXCEPT ![s].pc = "upsert"]
      /\ UNCHANGED <<rows, ordered, asked, calm, calls, faults>>
  BY DEF SaveMiss
<1>2. TypeOK /\ sess[s] \in CallOf(Len(rows)) /\ CallOK(sess[s])
  BY DEF CartInv, TypeOK
<1>3. sess[s].id # 0
  BY <1>1, <1>2 DEF TypeOK
<1>4. PICK y \in CallOf(Len(rows)) : y = sess[s]
  BY <1>2
<1>5. PICK x \in CallOf(Len(rows)) : x = [y EXCEPT !.pc = "upsert"]
  BY DEF CallOf
<1>6. /\ x.pc = "upsert" /\ x.id = y.id /\ x.row = y.row /\ sess' = [sess EXCEPT ![s] = x]
  BY <1>1, <1>2, <1>4, <1>5 DEF CallOf, TypeOK
<1>7. CallOK(x)'
  BY <1>1, <1>2, <1>3, <1>4, <1>6 DEF CallOK, Saving
<1>8. Shape(s, x)
  BY <1>1, <1>2, <1>6, <1>7 DEF Shape, TypeOK
<1>9. PiecesAsked'
  <2>1. \A i \in DOMAIN rows' : i \in DOMAIN rows /\ rows'[i].nums = rows[i].nums
    BY <1>1
  <2>2. Saving(x) => Saving(sess[s]) /\ x.id = sess[s].id /\ x.row = sess[s].row
    BY <1>1, <1>4, <1>6 DEF Saving
  <2>3. QED
    BY <1>1, <1>8, <2>1, <2>2, NothingNew
<1>10. ~calm'
  <2>1. calm => Fresh(sess[s])
    BY <1>1, OnlyOne
  <2>2. QED
    BY <1>1, <1>3, <2>1 DEF Fresh
<1>11. QED
  BY <1>8, <1>9, <1>10, StepGood

LEMMA UpsertHolds ==
  ASSUME CartInv, NEW s \in Sessions, SaveUpsert(s)
  PROVE  Good
<1> DEFINE r == sess[s].row
           i == sess[s].id
<1>1. /\ sess[s].pc = "upsert" /\ Finish(s) /\ rows' = [rows EXCEPT ![i] = r]
      /\ UNCHANGED <<ordered, asked, calm, calls, faults>>
  BY DEF SaveUpsert
<1>2. /\ TypeOK /\ Saving(sess[s]) /\ r \in Row /\ i # 0 /\ rows[i].goods = r.goods
      /\ i \in 0..Len(rows)
  BY <1>1 DEF CartInv, CallOK, Saving, CallOf, TypeOK
<1> HIDE DEF r, i
<1>3. i \in DOMAIN rows
  BY <1>2, RowFacts
<1>4. /\ rows' \in Seq(Row) /\ DOMAIN rows' = DOMAIN rows /\ rows'[i] = r
      /\ \A j \in DOMAIN rows : j # i => rows'[j] = rows[j]
  BY <1>1, <1>2, <1>3 DEF TypeOK
<1>5. Shape(s, Idle)
  <2>1. /\ UNCHANGED asked /\ ordered' \in Items /\ calm' \in BOOLEAN
        /\ calls' \in Nat /\ faults' \in Nat
    BY <1>1, <1>2 DEF TypeOK
  <2>2. \A j \in DOMAIN rows : j \in DOMAIN rows' /\ rows'[j].goods = rows[j].goods
    BY <1>2, <1>4
  <2>3. QED
    BY <1>1, <1>4, <2>1, <2>2, EndShape
<1>6. PiecesAsked'
  <2>1. \A j \in DOMAIN rows' :
          j \in DOMAIN rows /\
          \/ rows'[j].nums = rows[j].nums
          \/ /\ Saving(sess[s]) /\ sess[s].id = j
             /\ rows'[j].nums = sess[s].row.nums
    BY <1>2, <1>4 DEF i, r
  <2>2. QED
    BY <1>1, <1>5, <2>1, IdleFacts, NothingNew
<1>7. ~calm'
  <2>1. calm => Fresh(sess[s])
    BY <1>1, OnlyOne
  <2>2. QED
    BY <1>1, <2>1 DEF Fresh
<1>8. QED
  BY <1>5, <1>6, <1>7, StepGood

LEMMA FailHolds ==
  ASSUME CartInv, NEW s \in Sessions, SaveFail(s) \/ OrderFail(s)
  PROVE  Good
<1>1. Finish(s) /\ UNCHANGED <<rows, ordered, asked, calls>> /\ sess[s].pc # "idle"
  BY DEF SaveFail, OrderFail
<1>2. faults' \in Nat /\ calm' \in BOOLEAN /\ (calm' => calm)
  <2>1. faults \in Nat /\ calm \in BOOLEAN
    BY DEF CartInv, TypeOK
  <2>2. CASE SaveFail(s)
    <3>1. faults' = faults + 1 /\ calm' = FALSE
      BY <2>2 DEF SaveFail, Faulty
    <3>2. faults' \in Nat
      BY <2>1, <3>1
    <3>3. calm' \in BOOLEAN /\ (calm' => calm)
      BY <3>1, Zenon
    <3>4. QED
      BY <3>2, <3>3
  <2>3. CASE OrderFail(s)
    BY <2>1, <2>3 DEF OrderFail
  <2>4. QED
    BY <2>2, <2>3
<1>3. Shape(s, Idle)
  BY <1>1, <1>2, SameTypes, EndShape
<1>4. PiecesAsked'
  BY <1>1, <1>3, IdleFacts, NothingNew
<1>5. ASSUME calm'
      PROVE  /\ calm /\ \A p \in Sessions : p # s => sess[p] = Idle
             /\ Fresh(Idle)' /\ OneRowEach' /\ UNCHANGED <<basket, ordered>>
  <2>1. calm /\ OneRowEach /\ \A p \in Sessions : p # s => sess[p] = Idle
    BY <1>1, <1>2, <1>5, OnlyOne
  <2>2. QED
    BY <1>1, <2>1, IdleFacts, SameRows
<1>6. QED
  BY <1>3, <1>4, <1>5, StepGood

-----------------------------------------------------------------------------
\* Deletes and orders

LEMMA DeletedRows ==
  ASSUME TypeOK, NEW S, rows' = Deleted(S)
  PROVE  /\ rows' \in Seq(Row) /\ DOMAIN rows' = DOMAIN rows
         /\ \A i \in DOMAIN rows : /\ rows'[i].goods = rows[i].goods
                                   /\ rows'[i].nums = rows[i].nums
                                   /\ i \notin S => rows'[i] = rows[i]
         /\ \A g \in Goods : RowsOf(g)' = RowsOf(g) \ S
<1>1. DOMAIN rows = 1..Len(rows) /\ Len(rows) \in Nat /\ \A i \in DOMAIN rows : rows[i] \in Row
  BY RowFacts
<1>2. DOMAIN rows' = DOMAIN rows
  BY DEF Deleted
<1>3. ASSUME NEW i \in DOMAIN rows
      PROVE  /\ rows'[i] \in Row /\ rows'[i].goods = rows[i].goods
             /\ rows'[i].nums = rows[i].nums
             /\ i \notin S => rows'[i] = rows[i]
             /\ i \in S => ~rows'[i].live
  <2>1. PICK r \in Row : r = rows[i]
    BY <1>1
  <2>2. rows'[i] = IF i \in S THEN [r EXCEPT !.live = FALSE] ELSE r
    BY <2>1 DEF Deleted
  <2>3. QED
    BY <2>1, <2>2 DEF Row
<1>4. rows' \in [1..Len(rows) -> Row]
  <2>1. rows' = [i \in 1..Len(rows) |-> rows'[i]]
    BY <1>1 DEF Deleted
  <2>2. QED
    BY <1>1, <1>3, <2>1
<1>5. rows' \in Seq(Row)
  BY <1>1, <1>4, SeqDef
<1>6. \A g \in Goods : RowsOf(g)' = RowsOf(g) \ S
  BY <1>2, <1>3 DEF RowsOf, Live
<1>7. QED
  BY <1>2, <1>3, <1>5, <1>6

\* The rows of S are taken out: every product has one row still, or none.
LEMMA TakenOut ==
  ASSUME TypeOK, TypeOK', OneRowEach, NEW S, rows' = Deleted(S)
  PROVE  /\ OneRowEach'
         /\ basket' = [g \in Goods |-> IF RowsOf(g) \cap S # {} THEN None ELSE basket[g]]
<1>1. OneRowEach'
  BY DeletedRows DEF OneRowEach
<1>2. ASSUME NEW g \in Goods
      PROVE  basket'[g] = IF RowsOf(g) \cap S # {} THEN None ELSE basket[g]
  <2>1. RowsOf(g)' = RowsOf(g) \ S /\ \A i, j \in RowsOf(g) : i = j
    BY DeletedRows DEF OneRowEach
  <2>2. CASE RowsOf(g) \cap S # {}
    <3>1. RowsOf(g)' = {}
      BY <2>1, <2>2
    <3>2. QED
      BY <2>2, <3>1, BasketOfNext
  <2>3. CASE RowsOf(g) \cap S = {}
    <3>1. RowsOf(g)' = RowsOf(g) /\ RowsOf(g) \subseteq DOMAIN rows
      BY <2>1, <2>3 DEF RowsOf, Live
    <3>2. \A i \in RowsOf(g) : rows'[i] = rows[i]
      BY <2>3, <3>1, DeletedRows
    <3>3. QED
      BY <2>3, <3>1, <3>2, SameItem
  <2>4. QED
    BY <2>2, <2>3
<1>3. basket' = [g \in Goods |-> basket'[g]]
  BY DEF basket
<1>4. QED
  BY <1>1, <1>2, <1>3

LEMMA DeleteHolds ==
  ASSUME CartInv, NEW s \in Sessions, NEW g \in Goods, Delete(s, g)
  PROVE  Good
<1>1. /\ RowsOf(g) # {} /\ Call(s) /\ Alone /\ rows' = Deleted(RowsOf(g))
      /\ UNCHANGED <<sess, ordered, asked, faults>>
  BY DEF Delete
<1>2. TypeOK
  BY DEF CartInv
<1>3. /\ sess[s] = Idle /\ calls' \in Nat /\ faults' \in Nat /\ calm' \in BOOLEAN
      /\ calm' => calm /\ \A p \in Sessions : sess[p] = Idle
  BY <1>1, CallFacts
<1>4. Finish(s)
  BY <1>1, <1>2, <1>3 DEF Finish, TypeOK
<1>5. Shape(s, Idle)
  <2>1. UNCHANGED asked /\ ordered' \in Items
    BY <1>1, <1>2 DEF TypeOK
  <2>2. QED
    BY <1>1, <1>2, <1>3, <1>4, <2>1, DeletedRows, EndShape
<1>6. PiecesAsked'
  BY <1>1, <1>2, <1>5, DeletedRows, IdleFacts, NothingNew
<1>7. ASSUME calm'
      PROVE  /\ calm /\ \A p \in Sessions : p # s => sess[p] = Idle
             /\ Fresh(Idle)' /\ OneRowEach' /\ B!BasketNext
  <2>1. calm /\ OneRowEach /\ \A p \in Sessions : sess[p] = Idle
    BY <1>3, <1>7 DEF CartInv, OneByOne
  <2>2. TypeOK'
    BY <1>5, ShapeHolds
  <2>3. /\ OneRowEach'
        /\ basket' = [h \in Goods |-> IF RowsOf(h) \cap RowsOf(g) # {} THEN None ELSE basket[h]]
    <3> DEFINE S == RowsOf(g)
    <3>1. rows' = Deleted(S)
      BY <1>1
    <3> HIDE DEF S
    <3>2. /\ OneRowEach'
          /\ basket' = [h \in Goods |-> IF RowsOf(h) \cap S # {} THEN None ELSE basket[h]]
      BY <1>2, <2>1, <2>2, <3>1, TakenOut
    <3>3. QED
      BY <3>2 DEF S
  <2>4. basket' = [basket EXCEPT ![g] = None]
    <3>1. \A h \in Goods : RowsOf(h) \cap RowsOf(g) # {} <=> h = g
      BY <1>1 DEF RowsOf
    <3>2. basket = [h \in Goods |-> basket[h]]
      BY DEF basket
    <3>3. QED
      BY <2>3, <3>1, <3>2
  <2>5. basket[g] # None
    <3>1. PICK i \in RowsOf(g) : TRUE
      BY <1>1
    <3>2. basket[g] = [nums |-> rows[i].nums, checked |-> rows[i].checked]
      BY <1>2, <2>1, <3>1, BasketOf DEF OneRowEach
    <3>3. rows[i] \in Row
      BY <1>2, <3>1, RowFacts DEF RowsOf, Live
    <3>4. rows[i].nums \in Nat /\ rows[i].checked \in BOOLEAN
      BY <3>3 DEF Row
    <3>5. QED
      BY <3>2, <3>4, CartAssumption
  <2>6. B!Remove(g)
    BY <1>1, <2>4, <2>5 DEF B!Remove
  <2>7. QED
    BY <2>1, <2>3, <2>6, IdleFacts DEF B!BasketNext
<1>8. QED
  BY <1>5, <1>6, <1>7, StepGood

\* What an order takes of each product.
LEMMA CheckedNumsFacts ==
  ASSUME TypeOK
  PROVE  /\ CheckedNums \in Items
         /\ \A g \in Goods :
              /\ RowsOf(g) \cap CheckedRows = {} => CheckedNums[g] = None
              /\ RowsOf(g) \cap CheckedRows # {} =>
                   \E i \in RowsOf(g) \cap CheckedRows : CheckedNums[g] = rows[i].nums
<1>1. ASSUME NEW g \in Goods
      PROVE  /\ RowsOf(g) \cap CheckedRows = {} => CheckedNums[g] = None
             /\ RowsOf(g) \cap CheckedRows # {} =>
                  \E i \in RowsOf(g) \cap CheckedRows : CheckedNums[g] = rows[i].nums
  <2> DEFINE S == RowsOf(g) \cap CheckedRows
             n == Len(rows)
  <2>1. n \in Nat /\ S \in SUBSET (1..n)
    BY RowFacts
  <2>2. CheckedNums[g] = IF S = {} THEN None ELSE rows[Max(S)].nums
    BY DEF CheckedNums
  <2> HIDE DEF S, n
  <2>3. S # {} => Max(S) \in S
    BY <2>1, MaxFacts
  <2>4. (S = {} => CheckedNums[g] = None)
        /\ (S # {} => \E i \in S : CheckedNums[g] = rows[i].nums)
    BY <2>2, <2>3
  <2>5. QED
    BY <2>4 DEF S
<1>2. ASSUME NEW g \in Goods PROVE CheckedNums[g] \in Nat \cup {None}
  <2>1. CASE RowsOf(g) \cap CheckedRows = {}
    BY <1>1, <2>1
  <2>2. CASE RowsOf(g) \cap CheckedRows # {}
    <3>1. PICK i \in RowsOf(g) \cap CheckedRows : CheckedNums[g] = rows[i].nums
      BY <1>1, <2>2
    <3>2. rows[i] \in Row
      BY <3>1, RowFacts DEF RowsOf, Live
    <3>3. QED
      BY <3>1, <3>2 DEF Row
  <2>3. QED
    BY <2>1, <2>2
<1>3. CheckedNums = [g \in Goods |-> CheckedNums[g]]
  BY DEF CheckedNums
<1>4. QED
  BY <1>1, <1>2, <1>3 DEF Items

LEMMA OrderReadHolds ==
  ASSUME CartInv, NEW s \in Sessions, OrderRead(s)
  PROVE  Good
<1>1. /\ Call(s) /\ Alone /\ UNCHANGED <<rows, ordered, asked, faults>>
      /\ sess' = [sess EXCEPT ![s] = [Idle EXCEPT !.pc = "read", !.items = CheckedNums]]
  BY DEF OrderRead
<1>2. /\ sess[s] = Idle /\ calls' \in Nat /\ faults' \in Nat /\ calm' \in BOOLEAN
      /\ calm' => calm /\ \A p \in Sessions : sess[p] = Idle
  BY <1>1, CallFacts
<1>3. TypeOK /\ Len(rows) \in Nat /\ CheckedNums \in Items
  BY CheckedNumsFacts, RowFacts DEF CartInv
<1>4. PICK x \in CallOf(Len(rows)) : x = [Idle EXCEPT !.pc = "read", !.items = CheckedNums]
  <2>1. PICK y \in CallOf(Len(rows)) : y = Idle
    BY <1>3, IdleFacts
  <2>2. [y EXCEPT !.pc = "read", !.items = CheckedNums] \in CallOf(Len(rows))
    BY <1>3 DEF CallOf
  <2>3. QED
    BY <2>1, <2>2
<1>5. x.pc = "read" /\ x.items = CheckedNums /\ sess' = [sess EXCEPT ![s] = x]
  BY <1>1, <1>4 DEF Idle
<1>6. CallOK(x)'
  BY <1>5 DEF CallOK, Saving
<1>7. Shape(s, x)
  BY <1>1, <1>2, <1>3, <1>4, <1>5, <1>6 DEF Shape, TypeOK
<1>8. PiecesAsked'
  <2>1. \A i \in DOMAIN rows' : i \in DOMAIN rows /\ rows'[i].nums = rows[i].nums
    BY <1>1
  <2>2. ~Saving(x)
    BY <1>5 DEF Saving
  <2>3. QED
    BY <1>1, <1>7, <2>1, <2>2, NothingNew
<1>9. ASSUME calm'
      PROVE  /\ calm /\ \A p \in Sessions : p # s => sess[p] = Idle
             /\ Fresh(x)' /\ OneRowEach' /\ UNCHANGED <<basket, ordered>>
  <2>1. calm /\ OneRowEach /\ \A p \in Sessions : sess[p] = Idle
    BY <1>2, <1>9 DEF CartInv, OneByOne
  <2>2. UNCHANGED CheckedNums /\ UNCHANGED basket /\ OneRowEach'
    BY <1>1, <2>1, SameRows
  <2>3. Fresh(x)'
    BY <1>5, <2>2 DEF Fresh
  <2>4. QED
    BY <1>1, <2>1, <2>2, <2>3
<1>10. QED
  BY <1>7, <1>8, <1>9, StepGood

LEMMA OrderQueryHolds ==
  ASSUME CartInv, NEW s \in Sessions, OrderQuery(s)
  PROVE  Good
<1>1. /\ sess[s].pc = "read" /\ UNCHANGED <<rows, ordered, asked, calm, calls, faults>>
      /\ TypeOK /\ sess[s] \in CallOf(Len(rows))
  BY DEF OrderQuery, CartInv, TypeOK
<1>2. PICK found \in SUBSET Goods :
        sess' = [sess EXCEPT ![s] = [sess[s] EXCEPT !.pc = "order",
                                       !.items = Only(sess[s].items, found)]]
  BY <1>1 DEF OrderQuery, CallOf
<1>3. Only(sess[s].items, found) \in Items
  BY <1>1 DEF CallOf, Items, Only
<1>4. PICK x \in CallOf(Len(rows)) :
        /\ x = [sess[s] EXCEPT !.pc = "order", !.items = Only(sess[s].items, found)]
        /\ x.pc = "order" /\ x.items = Only(sess[s].items, found)
  <2>1. PICK q \in Items : q = Only(sess[s].items, found)
    BY <1>3
  <2>2. PICK y \in CallOf(Len(rows)) : y = sess[s]
    BY <1>1
  <2>3. /\ [y EXCEPT !.pc = "order", !.items = q] \in CallOf(Len(rows))
        /\ [y EXCEPT !.pc = "order", !.items = q].pc = "order"
        /\ [y EXCEPT !.pc = "order", !.items = q].items = q
    BY DEF CallOf
  <2>4. QED
    BY <2>1, <2>2, <2>3
<1>5. sess' = [sess EXCEPT ![s] = x]
  BY <1>2, <1>4
<1>6. CallOK(x)'
  BY <1>4 DEF CallOK, Saving
<1>7. Shape(s, x)
  BY <1>1, <1>4, <1>5, <1>6 DEF Shape, TypeOK
<1>8. PiecesAsked'
  <2>1. \A i \in DOMAIN rows' : i \in DOMAIN rows /\ rows'[i].nums = rows[i].nums
    BY <1>1
  <2>2. ~Saving(x)
    BY <1>4 DEF Saving
  <2>3. QED
    BY <1>1, <1>7, <2>1, <2>2, NothingNew
<1>9. ASSUME calm'
      PROVE  /\ calm /\ \A p \in Sessions : p # s => sess[p] = Idle
             /\ Fresh(x)' /\ OneRowEach' /\ UNCHANGED <<basket, ordered>>
  <2>1. /\ calm /\ OneRowEach /\ Fresh(sess[s])
        /\ \A p \in Sessions : p # s => sess[p] = Idle
    BY <1>1, <1>9, OnlyOne
  <2>2. UNCHANGED CheckedNums /\ UNCHANGED basket /\ OneRowEach'
    BY <1>1, <2>1, SameRows
  <2>3. x.items = Only(CheckedNums', found)
    BY <1>1, <1>4, <2>1, <2>2 DEF Fresh
  <2>4. Fresh(x)'
    BY <1>4, <2>3 DEF Fresh, Only
  <2>5. QED
    BY <1>1, <2>1, <2>2, <2>4
<1>10. QED
  BY <1>7, <1>8, <1>9, StepGood

\* While every product has one row at most, the order takes what the user sees.
LEMMA Bought ==
  ASSUME TypeOK, OneRowEach
  PROVE  /\ B!Checked = {g \in Goods : RowsOf(g) \cap CheckedRows # {}}
         /\ CheckedNums = [g \in Goods |-> IF g \in B!Checked THEN basket[g].nums ELSE None]
         /\ CheckedRows # {} => B!Checked # {}
<1>1. ASSUME NEW g \in Goods
      PROVE  /\ RowsOf(g) \cap CheckedRows # {} <=> basket[g] # None /\ basket[g].checked
             /\ RowsOf(g) \cap CheckedRows # {} => CheckedNums[g] = basket[g].nums
  <2>1. CASE RowsOf(g) = {}
    <3>1. basket[g] = None
      BY <2>1, BasketOf
    <3>2. QED
      BY <2>1, <3>1
  <2>2. CASE RowsOf(g) # {}
    <3>1. PICK i \in RowsOf(g) : \A j \in RowsOf(g) : j = i
      BY <2>2 DEF OneRowEach
    <3>2. PICK r \in Row : r = rows[i]
      BY <3>1, RowFacts DEF RowsOf, Live
    <3>3. basket[g] = [nums |-> r.nums, checked |-> r.checked]
      BY <3>1, <3>2, BasketOf
    <3>4. r.nums \in Nat /\ r.checked \in BOOLEAN
      BY DEF Row
    <3>5. basket[g] # None /\ basket[g].nums = r.nums /\ basket[g].checked = r.checked
      BY <3>3, <3>4, CartAssumption
    <3>6. i \in CheckedRows <=> r.checked
      BY <3>1, <3>2 DEF RowsOf, CheckedRows
    <3>7. RowsOf(g) \cap CheckedRows # {} <=> i \in CheckedRows
      BY <3>1
    <3>8. RowsOf(g) \cap CheckedRows # {} => CheckedNums[g] = r.nums
      BY <3>1, <3>2, CheckedNumsFacts
    <3>9. QED
      BY <3>5, <3>6, <3>7, <3>8
  <2>3. QED
    BY <2>1, <2>2
<1>2. B!Checked = {g \in Goods : RowsOf(g) \cap CheckedRows # {}}
  BY <1>1 DEF B!Checked
<1>3. CheckedNums = [g \in Goods |-> IF g \in B!Checked THEN basket[g].nums ELSE None]
  <2>1. \A g \in Goods : CheckedNums[g] = IF g \in B!Checked THEN basket[g].nums ELSE None
    BY <1>1, <1>2, CheckedNumsFacts
  <2>2. CheckedNums = [g \in Goods |-> CheckedNums[g]]
    BY DEF CheckedNums
  <2>3. QED
    BY <2>1, <2>2
<1>4. ASSUME CheckedRows # {} PROVE B!Checked # {}
  <2>1. PICK i \in CheckedRows : TRUE
    BY <1>4
  <2>2. i \in Live /\ rows[i] \in Row
    BY RowFacts DEF CheckedRows, Live
  <2>3. i \in RowsOf(rows[i].goods) /\ rows[i].goods \in Goods
    BY <2>2 DEF RowsOf, Row
  <2>4. QED
    BY <1>2, <2>1, <2>3
<1>5. QED
  BY <1>2, <1>3, <1>4

LEMMA OrderDeleteHolds ==
  ASSUME CartInv, NEW s \in Sessions, OrderDelete(s)
  PROVE  Good
<1>1. /\ sess[s].pc = "order" /\ sess[s].items # NoItems
      /\ CheckedRows # {} /\ rows' = Deleted(CheckedRows)
      /\ ordered' = sess[s].items /\ Finish(s) /\ UNCHANGED <<asked, calm, calls, faults>>
  BY DEF OrderDelete
<1>2. TypeOK
  BY DEF CartInv
<1>3. Shape(s, Idle)
  <2>1. ordered' \in Items
    BY <1>1, <1>2 DEF TypeOK, CallOf
  <2>2. calm' \in BOOLEAN /\ calls' \in Nat /\ faults' \in Nat /\ UNCHANGED asked
    BY <1>1, <1>2 DEF TypeOK
  <2>3. QED
    BY <1>1, <1>2, <2>1, <2>2, DeletedRows, EndShape
<1>4. PiecesAsked'
  BY <1>1, <1>2, <1>3, DeletedRows, IdleFacts, NothingNew
<1>5. ASSUME calm'
      PROVE  /\ calm /\ \A p \in Sessions : p # s => sess[p] = Idle
             /\ Fresh(Idle)' /\ OneRowEach' /\ B!BasketNext
  <2>1. /\ calm /\ OneRowEach /\ Fresh(sess[s])
        /\ \A p \in Sessions : p # s => sess[p] = Idle
    BY <1>1, <1>5, OnlyOne
  <2>2. TypeOK'
    BY <1>3, ShapeHolds
  <2>3. PICK found \in SUBSET Goods : ordered' = Only(CheckedNums, found)
    BY <1>1, <2>1 DEF Fresh
  <2> DEFINE S == CheckedRows
  <2>4. S = CheckedRows /\ rows' = Deleted(S)
    BY <1>1
  <2> HIDE DEF S
  <2>5. /\ OneRowEach'
        /\ basket' = [h \in Goods |-> IF RowsOf(h) \cap S # {} THEN None ELSE basket[h]]
    BY <1>2, <2>1, <2>2, <2>4, TakenOut
  <2>6. basket' = [h \in Goods |-> IF h \in B!Checked THEN None ELSE basket[h]]
    BY <1>2, <2>1, <2>4, <2>5, Bought
  <2>7. B!Buy
    <3> DEFINE bought == found \cap B!Checked
    <3>1. CheckedNums = [g \in Goods |-> IF g \in B!Checked THEN basket[g].nums ELSE None]
      BY <1>2, <2>1, Bought
    <3>2. ordered' = [g \in Goods |-> IF g \in bought THEN basket[g].nums ELSE None]
      BY <2>3, <3>1 DEF Only
    <3>3. bought # {}
      BY <1>1, <3>2 DEF NoItems
    <3>4. bought \in SUBSET B!Checked
      OBVIOUS
    <3> HIDE DEF bought
    <3>5. QED
      BY <2>6, <3>2, <3>3, <3>4 DEF B!Buy
  <2>8. QED
    BY <2>1, <2>5, <2>7, IdleFacts DEF B!BasketNext
<1>6. QED
  BY <1>3, <1>4, <1>5, StepGood

-----------------------------------------------------------------------------
\* The theorems

LEMMA InitHolds == Init => CartInv /\ B!BasketInit
<1> SUFFICES ASSUME Init PROVE CartInv /\ B!BasketInit
  OBVIOUS
<1>1. rows = <<>> /\ DOMAIN rows = {} /\ Len(rows) = 0 /\ rows \in Seq(Row)
  BY DEF Init
<1>2. Live = {} /\ \A g : RowsOf(g) = {}
  BY <1>1 DEF Live, RowsOf
<1>3. /\ \A s \in Sessions : sess[s] = Idle
      /\ sess \in [Sessions -> CallOf(Len(rows))]
  BY <1>1, IdleFacts DEF Init
<1>4. TypeOK
  BY <1>1, <1>3 DEF Init, TypeOK, NoItems, Items
<1>5. \A s \in Sessions : CallOK(sess[s]) /\ Fresh(sess[s]) /\ ~Saving(sess[s])
  <2>1. \A s \in Sessions : ~Saving(sess[s]) /\ sess[s].pc = "idle"
    BY <1>3, IdleFacts
  <2>2. QED
    BY <1>3, <2>1 DEF CallOK, Fresh, Saving
<1>6. PiecesAsked
  <2>1. ASSUME NEW g \in Goods PROVE Pieces(g) = {} /\ asked[g] = 0
    BY <1>1, <1>5 DEF Pieces, Init, NoItems
  <2>2. IsFiniteSet({}) /\ Cardinality({}) = 0
    BY FS_EmptySet
  <2>3. QED
    BY <2>1, <2>2 DEF PiecesAsked
<1>7. OneByOne
  BY <1>2, <1>3, <1>5 DEF OneByOne, OneRowEach
<1>8. B!BasketInit
  <2>1. \A g \in Goods : basket[g] = None
    BY <1>2 DEF basket
  <2>2. basket = [g \in Goods |-> basket[g]]
    BY DEF basket
  <2>3. ordered = B!NoItems
    BY DEF Init, NoItems, B!NoItems
  <2>4. QED
    BY <2>1, <2>2, <2>3 DEF B!BasketInit
<1>9. QED
  BY <1>4, <1>5, <1>6, <1>7, <1>8 DEF CartInv

LEMMA StepHolds == CartInv /\ [Next]_vars => Good
<1> SUFFICES ASSUME CartInv, [Next]_vars PROVE Good
  OBVIOUS
<1>1. ASSUME Next PROVE Good
  <2>1. PICK s \in Sessions :
          \/ \E g \in Goods, n \in Nums : CreateRead(s, g, n) \/ CreateReadFail(s, g, n)
          \/ \E g \in Goods, c \in BOOLEAN, n \in Nums : UpdateRead(s, g, c, n)
          \/ \E g \in Goods : Delete(s, g)
          \/ SaveInsert(s) \/ SaveUpdate(s) \/ SaveMiss(s) \/ SaveUpsert(s)
          \/ SaveFail(s) \/ OrderFail(s)
          \/ OrderRead(s) \/ OrderQuery(s) \/ OrderDelete(s)
    BY <1>1 DEF Next, Save
  <2>2. ASSUME NEW g \in Goods, NEW n \in Nums, CreateRead(s, g, n) \/ CreateReadFail(s, g, n)
        PROVE  Good
    BY <2>2, CreateHolds
  <2>3. ASSUME NEW g \in Goods, NEW c \in BOOLEAN, NEW n \in Nums, UpdateRead(s, g, c, n)
        PROVE  Good
    BY <2>3, UpdateHolds
  <2>4. ASSUME NEW g \in Goods, Delete(s, g) PROVE Good
    BY <2>4, DeleteHolds
  <2>5. CASE SaveInsert(s)
    BY <2>5, InsertHolds
  <2>6. CASE SaveUpdate(s)
    BY <2>6, SaveUpdateHolds
  <2>7. CASE SaveMiss(s)
    BY <2>7, MissHolds
  <2>8. CASE SaveUpsert(s)
    BY <2>8, UpsertHolds
  <2>9. CASE SaveFail(s) \/ OrderFail(s)
    BY <2>9, FailHolds
  <2>10. CASE OrderRead(s)
    BY <2>10, OrderReadHolds
  <2>11. CASE OrderQuery(s)
    BY <2>11, OrderQueryHolds
  <2>12. CASE OrderDelete(s)
    BY <2>12, OrderDeleteHolds
  <2>13. QED
    BY <2>1, <2>2, <2>3, <2>4, <2>5, <2>6, <2>7, <2>8, <2>9, <2>10, <2>11, <2>12
<1>2. ASSUME UNCHANGED vars PROVE Good
  <2>1. /\ UNCHANGED <<rows, sess, ordered, asked, calm, calls, faults>>
        /\ UNCHANGED basket /\ UNCHANGED CheckedNums /\ (OneRowEach => OneRowEach')
    BY <1>2, SameRows DEF vars
  <2>2. TypeOK'
    BY <2>1 DEF CartInv, TypeOK
  <2>3. ASSUME NEW s \in Sessions
        PROVE  CallOK(sess[s])' /\ (Fresh(sess[s]) => Fresh(sess[s])')
    <3>1. CallOK(sess[s])'
      BY <2>1 DEF CartInv, CallOK, Saving
    <3>2. ASSUME Fresh(sess[s]) PROVE Fresh(sess[s])'
      <4>1. PICK x : x = sess[s] /\ x = sess'[s]
        BY <2>1
      <4>2. /\ Live' = Live /\ rows' = rows /\ CheckedNums' = CheckedNums
            /\ \A g : RowsOf(g)' = RowsOf(g)
        BY <2>1 DEF RowsOf, Live
      <4>3. \A found : Only(CheckedNums, found)' = Only(CheckedNums, found)
        BY <4>2 DEF Only
      <4>4. Fresh(x)'
        BY <3>2, <4>1, <4>2, <4>3 DEF Fresh
      <4>5. QED
        BY <4>1, <4>4 DEF Fresh
    <3>3. QED
      BY <3>1, <3>2
  <2>4. PiecesAsked'
    BY <2>1 DEF CartInv, PiecesAsked, Pieces, PiecesToCome, PiecesOfRow, Saving
  <2>5. calm' => OneByOne'
    BY <2>1, <2>3 DEF CartInv, OneByOne, Idle, NoItems
  <2>6. QED
    BY <2>1, <2>2, <2>3, <2>4, <2>5 DEF Good, BasketStep, CartInv
<1>3. QED
  BY <1>1, <1>2

\* The types of the cart, what a call has in hand, the pieces of a product and,
\* while calls come one after the other, that what they have read is still so.
THEOREM Invariant == Spec => []CartInv
<1>1. Init => CartInv
  BY InitHolds
<1>2. CartInv /\ [Next]_vars => CartInv'
  BY StepHolds DEF Good
<1>3. QED
  BY <1>1, <1>2, PTL DEF Spec

\* Whatever the cart calls of one user do to each other, and whichever of their
\* queries and saves fail (order.go:45-83): the live rows of a product never add
\* up to more than all requests for it.
THEOREM NeverMore == Spec => []NeverMoreThanAsked
<1>1. CartInv => NeverMoreThanAsked
  <2> SUFFICES ASSUME CartInv, NEW g \in Goods
               PROVE  MapThenSumSet(LAMBDA i : rows[i].nums, RowsOf(g)) <= asked[g]
    BY DEF NeverMoreThanAsked
  <2>1. TypeOK /\ IsFiniteSet(Pieces(g)) /\ Cardinality(Pieces(g)) <= asked[g] /\ asked[g] \in Nat
    BY DEF CartInv, PiecesAsked, TypeOK
  <2> DEFINE S == RowsOf(g)
             P == Pieces(g)
             Q == PiecesIn(S)
  <2>2. S \in SUBSET (1..Len(rows)) /\ Len(rows) \in Nat
    BY <2>1, RowFacts
  <2>3. \A i \in S : i \in DOMAIN rows /\ rows[i].goods = g /\ rows[i].nums \in Nat
    <3>1. ASSUME NEW i \in S PROVE i \in DOMAIN rows /\ rows[i].goods = g
      BY DEF RowsOf, Live
    <3>2. ASSUME NEW i \in DOMAIN rows PROVE rows[i].nums \in Nat
      <4>1. rows[i] \in Row
        BY <2>1, RowFacts
      <4>2. QED
        BY <4>1 DEF Row
    <3>3. QED
      BY <3>1, <3>2
  <2>4. Q \in SUBSET P
    BY <2>3, PiecesHold DEF PiecesIn
  <2> HIDE DEF P
  <2>5. IsFiniteSet(Q) /\ Cardinality(Q) <= Cardinality(P) /\ IsFiniteSet(P)
    BY <2>1, <2>4, FS_Subset DEF P
  <2>6. IsFiniteSet(S)
    <3>1. 1 \in Int /\ Len(rows) \in Int
      BY <2>2
    <3>2. IsFiniteSet(1..Len(rows))
      BY <3>1, FS_Interval
    <3>3. QED
      BY <2>2, <3>2, FS_Subset
  <2> HIDE DEF S
  <2>7. MapThenSumSet(LAMBDA i : rows[i].nums, S) = Cardinality(Q)
    BY <2>3, <2>5, <2>6, SumIsPieces
  <2>8. Cardinality(Q) \in Nat /\ Cardinality(P) \in Nat /\ Cardinality(P) <= asked[g]
    BY <2>1, <2>5, FS_CardinalityType DEF P
  <2>9. MapThenSumSet(LAMBDA i : rows[i].nums, S) <= asked[g]
    BY <2>1, <2>5, <2>7, <2>8
  <2>10. QED
    BY <2>9 DEF S
<1>2. QED
  BY <1>1, Invariant, PTL

\* Calls that do not overlap and do not fail implement the Basket, step by
\* step: CreateCartItem merges, UpdateCartItem sets, DeleteCartItem removes and
\* an order takes the checked items out and has, of those goods_srv finds, the
\* quantities the user saw (order.go:45-197).
THEOREM BasketImplemented == Spec => ImplementsBasket
<1>1. Init => CartInv /\ B!BasketInit
  BY InitHolds
<1>2. CartInv /\ [Next]_vars => [calm' => B!BasketNext]_<<basket, ordered>>
  BY StepHolds DEF Good, BasketStep
<1>3. QED
  BY <1>1, <1>2, Invariant, PTL DEF Spec, ImplementsBasket
=============================================================================
