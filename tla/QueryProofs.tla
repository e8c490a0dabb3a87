------------------------------ MODULE QueryProofs -----------------------------
(***************************************************************************)
(* Theorems about SlackSpec, and so about Query and Retrieval under it, for *)
(* any jobs, chunks, texts and number of concurrent processes:             *)
(*                                                                         *)
(*   Complete, Audited, Matched, Grounded and Posted.                      *)
(*                                                                         *)
(* First the pure part: the ranks of a finite strict order, the arithmetic *)
(* of Share, and what Fused and Reranked return.  Then the steps: each      *)
(* action of a job goes on with its item (Stays) or gives it its outcome    *)
(* (Ends), and the invariants are shown over these two forms.              *)
(*                                                                         *)
(*   ShapeInv   the shape of the state           needed by all             *)
(*   WholeInv   results and frames so far        gives AnswersWhole        *)
(*   AuditInv   records and outcomes             gives AuditMatches        *)
(*   AgreeInv   the two pickles, and what each   gives RightChunk          *)
(*              store has read of them                                     *)
(*   KnownInv   ids in memory are in Chroma      gives RetrievalSound      *)
(*   DeliveredInv  what a channel got            gives Replied             *)
(*                                                                         *)
(* LeastOf and Induction are induction over the naturals without a theorem *)
(* that has an operator for a parameter: a set of counterexamples has a    *)
(* least one.  Unit and Split, recursive functions, are reasoned about so.  *)
(***************************************************************************)
EXTENDS Slack, FiniteSetTheorems, FunctionTheorems, WellFoundedInduction, TLAPS

(* How many are before x is its rank.                                      *)
Below(R, S, x) == {y \in S : <<y, x>> \in R}

StrictOrder(R, S) ==
    /\ \A x \in S : <<x, x>> \notin R
    /\ \A x, y \in S : x = y \/ <<x, y>> \in R \/ <<y, x>> \in R
    /\ \A x, y, z \in S : <<x, y>> \in R /\ <<y, z>> \in R => <<x, z>> \in R

(* In a finite strict order each rank belongs to just one element.         *)
LEMMA Ranks ==
    ASSUME NEW S, IsFiniteSet(S), NEW R, StrictOrder(R, S)
    PROVE  /\ Cardinality(S) \in Nat
           /\ \A x \in S : Cardinality(Below(R, S, x)) \in 0..(Cardinality(S) - 1)
           /\ \A x, y \in S :
                 <<x, y>> \in R =>
                    Cardinality(Below(R, S, x)) < Cardinality(Below(R, S, y))
           /\ \A i \in 1..Cardinality(S) :
                 \E x \in S : Cardinality(Below(R, S, x)) = i - 1
<1> DEFINE rank(x) == Cardinality(Below(R, S, x))
<1>1. Cardinality(S) \in Nat
  BY FS_CardinalityType
<1>2. ASSUME NEW x \in S
      PROVE  IsFiniteSet(Below(R, S, x)) /\ rank(x) \in Nat
  BY FS_Subset, FS_CardinalityType DEF Below
<1>3. ASSUME NEW x \in S PROVE rank(x) < Cardinality(S)
  <2>1. Below(R, S, x) \in SUBSET S /\ x \notin Below(R, S, x)
    BY DEF Below, StrictOrder
  <2>2. Below(R, S, x) # S
    BY <2>1
  <2>3. rank(x) <= Cardinality(S) /\ rank(x) # Cardinality(S)
    BY <2>1, <2>2, FS_Subset
  <2>4. QED
    BY <1>1, <1>2, <2>3
<1>4. ASSUME NEW x \in S, NEW y \in S, <<x, y>> \in R PROVE rank(x) < rank(y)
  <2>1. Below(R, S, x) \in SUBSET Below(R, S, y)
    BY <1>4 DEF Below, StrictOrder
  <2>2. x \in Below(R, S, y) /\ x \notin Below(R, S, x)
    BY <1>4 DEF Below, StrictOrder
  <2>3. rank(x) <= rank(y) /\ rank(x) # rank(y)
    BY <1>2, <2>1, <2>2, FS_Subset
  <2>4. QED
    BY <1>2, <2>3
<1> DEFINE n == Cardinality(S)
           f == [x \in S |-> rank(x)]
<1>5. f \in [S -> 0..(n - 1)]
  BY <1>1, <1>2, <1>3
<1>6. \A x, y \in S : f[x] = f[y] => x = y
  <2> SUFFICES ASSUME NEW x \in S, NEW y \in S, rank(x) = rank(y) PROVE x = y
    OBVIOUS
  <2>1. ~(rank(x) < rank(y)) /\ ~(rank(y) < rank(x))
    BY <1>2
  <2>2. QED
    BY <1>4, <2>1 DEF StrictOrder
<1>7. f \in Injection(S, 0..(n - 1))
  BY <1>5, <1>6, Fun_IsInj
<1>8. IsFiniteSet(0..(n - 1)) /\ Cardinality(0..(n - 1)) = n
  BY <1>1, FS_Interval
<1>9. f \in Surjection(S, 0..(n - 1))
  BY <1>7, <1>8, FS_Injection
<1>10. \A r \in 0..(n - 1) : \E x \in S : f[x] = r
  <2> HIDE DEF f, n
  <2>1. QED
    BY <1>9 DEF Surjection
<1>11. \A i \in 1..n : \E x \in S : rank(x) = i - 1
  <2> SUFFICES ASSUME NEW i \in 1..n PROVE \E x \in S : rank(x) = i - 1
    OBVIOUS
  <2>1. i - 1 \in 0..(n - 1)
    BY <1>1
  <2>2. PICK x \in S : f[x] = i - 1
    BY <1>10, <2>1
  <2>3. QED
    BY <2>2
<1>12. QED
  BY <1>1, <1>2, <1>3, <1>4, <1>11

-------------------------------------------------------------------------------
(* Induction over the naturals.                                            *)

(* A set of naturals has a least one.                                      *)
LEMMA LeastOf ==
    ASSUME NEW T \in SUBSET Nat, NEW t \in T
    PROVE  \E x \in T : \A y \in T : x <= y
<1> DEFINE R == {s \in Nat \X Nat : s[1] < s[2]}
<1>1. OpToRel(<, Nat) = R
  BY DEF OpToRel
<1>2. IsWellFoundedOn(R, Nat)
  BY <1>1, NatLessThanWellFounded
<1>3. PICK x \in T : \A y \in T : <<y, x>> \notin R
  BY <1>2, WFMin
<1>4. ASSUME NEW y \in T PROVE x <= y
  <2>1. y < x => <<y, x>> \in R
    OBVIOUS
  <2>2. QED
    BY <1>3, <2>1
<1>5. QED
  BY <1>4

(* A set that holds 0 and each successor of its own holds every natural.   *)
LEMMA Induction ==
    ASSUME NEW S \in SUBSET Nat, 0 \in S, \A n \in S : n + 1 \in S
    PROVE  S = Nat
<1> SUFFICES ASSUME NEW n \in Nat \ S PROVE FALSE
  OBVIOUS
<1>1. PICK m \in Nat \ S : \A k \in Nat \ S : m <= k
  <2>1. Nat \ S \in SUBSET Nat
    OBVIOUS
  <2>2. QED
    BY <2>1, LeastOf
<1>2. m - 1 \in Nat
  BY <1>1
<1>3. m - 1 \in S
  BY <1>1, <1>2
<1>4. QED
  BY <1>1, <1>3
-------------------------------------------------------------------------------
(* Retrieval.                                                              *)

LEMMA PoolType == Pool \in Nat /\ K \in Nat /\ K <= Pool /\ KRRF \in Nat \ {0}
  BY RetrievalAssumption DEF Pool

(* The common denominator of the shares.                                   *)
LEMMA UnitType == Unit \in Nat
<1> DEFINE g(h, n) == IF n = 0 THEN 1 ELSE (KRRF + n) * h[n - 1]
           Built == {n \in Nat : \E h \in [0..n -> Nat] :
                                    h = [m \in 0..n |-> g(h, m)]}
<1> USE PoolType
<1>1. 0 \in Built
  <2> DEFINE h == [m \in 0..0 |-> 1]
  <2>1. h \in [0..0 -> Nat]
    OBVIOUS
  <2>2. h = [m \in 0..0 |-> g(h, m)]
    OBVIOUS
  <2>3. QED
    BY <2>1, <2>2
<1>2. ASSUME NEW n \in Built PROVE n + 1 \in Built
  <2>1. PICK h \in [0..n -> Nat] : h = [m \in 0..n |-> g(h, m)]
    OBVIOUS
  <2> DEFINE top == (KRRF + n + 1) * h[n]
             k == [m \in 0..(n + 1) |-> IF m = n + 1 THEN top ELSE h[m]]
  <2>2. top \in Nat
    BY <2>1
  <2> HIDE DEF top
  <2>3. k \in [0..(n + 1) -> Nat]
    BY <2>2
  <2>4. ASSUME NEW m \in 0..(n + 1) PROVE k[m] = g(k, m)
    <3>1. CASE m = n + 1
      <4>1. k[m - 1] = h[n] /\ k[m] = top /\ m # 0
        BY <3>1
      <4>2. QED
        BY <3>1, <4>1 DEF top
    <3>2. CASE m # n + 1
      <4>1. m \in 0..n /\ k[m] = h[m] /\ (m # 0 => k[m - 1] = h[m - 1])
        BY <3>2
      <4>2. h[m] = g(h, m)
        BY <2>1, <4>1
      <4>3. QED
        BY <4>1, <4>2
    <3>3. QED
      BY <3>1, <3>2
  <2>5. k = [m \in 0..(n + 1) |-> g(k, m)]
    BY <2>4
  <2> HIDE DEF k
  <2>6. \E h_1 \in [0..(n + 1) -> Nat] : h_1 = [m \in 0..(n + 1) |-> g(h_1, m)]
    <3> WITNESS k \in [0..(n + 1) -> Nat]
    <3>1. QED
      BY <2>5
  <2>7. n + 1 \in Nat
    OBVIOUS
  <2>8. QED
    BY <2>6, <2>7
<1>3. Built = Nat
  <2> HIDE DEF Built
  <2>1. Built \in SUBSET Nat
    BY DEF Built
  <2>2. QED
    BY <1>1, <1>2, <2>1, Induction
<1>4. PICK h \in [0..Pool -> Nat] : h = [m \in 0..Pool |-> g(h, m)]
  BY <1>3
<1> DEFINE f == CHOOSE f : f = [n \in 0..Pool |-> g(f, n)]
<1>5. f = [n \in 0..Pool |-> g(f, n)]
  BY <1>4
<1> HIDE DEF f
<1> DEFINE Agreed == {n \in Nat : n <= Pool => f[n] \in Nat}
<1>6. 0 \in Agreed
  BY <1>5
<1>7. ASSUME NEW n \in Agreed PROVE n + 1 \in Agreed
  <2> SUFFICES ASSUME n + 1 <= Pool PROVE f[n + 1] \in Nat
    OBVIOUS
  <2>1. f[n + 1] = (KRRF + (n + 1)) * f[n] /\ f[n] \in Nat
    BY <1>5
  <2>2. QED
    BY <2>1
<1>8. Agreed = Nat
  <2> HIDE DEF Agreed
  <2>1. Agreed \in SUBSET Nat
    BY DEF Agreed
  <2>2. QED
    BY <1>6, <1>7, <2>1, Induction
<1>9. f[Pool] \in Nat
  BY <1>8
<1>10. QED
  BY <1>9 DEF Unit, f

LEMMA PlaceType ==
    ASSUME NEW s \in Seq(Ids), NEW id
    PROVE  /\ Place(s, id) \in 0..Len(s)
           /\ Place(s, id) # 0 => s[Place(s, id)] = id
           /\ Place(s, id) # 0 <=> id \in ToSet(s)
           /\ \A i \in DOMAIN s : s[i] = id => Place(s, id) # 0
<1>1. DOMAIN s = 1..Len(s) /\ Len(s) \in Nat
  OBVIOUS
<1>2. CASE \E i \in DOMAIN s : s[i] = id
  <2>1. Place(s, id) \in DOMAIN s /\ s[Place(s, id)] = id
    BY <1>2 DEF Place
  <2>2. id \in ToSet(s)
    BY <1>2 DEF ToSet
  <2>3. QED
    BY <1>1, <2>1, <2>2
<1>3. CASE ~\E i \in DOMAIN s : s[i] = id
  <2>1. Place(s, id) = 0
    BY <1>3 DEF Place
  <2>2. id \notin ToSet(s)
    BY <1>3 DEF ToSet
  <2>3. QED
    BY <1>1, <1>3, <2>1, <2>2
<1>4. QED
  BY <1>2, <1>3

LEMMA ProductMonotone ==
    ASSUME NEW a \in Nat, NEW b \in Nat, NEW c \in Nat, a <= b
    PROVE  c * a <= c * b /\ c * a \in Nat /\ a * c <= b * c /\ a * c \in Nat
  OBVIOUS

LEMMA DivisionBounds ==
    ASSUME NEW u \in Nat, NEW a \in Nat \ {0}
    PROVE  /\ u \div a \in Nat
           /\ a * (u \div a) <= u /\ u < a * (u \div a) + a
<1>1. u \div a \in Int
  OBVIOUS
<1>2. u \div a >= 0
  BY SMTT(60)
<1>3. a * (u \div a) <= u
  BY SMTT(60)
<1>4. u < a * (u \div a) + a
  BY SMTT(60)
<1>5. QED
  BY <1>1, <1>2, <1>3, <1>4

LEMMA DivisionAntitone ==
    ASSUME NEW u \in Nat, NEW a \in Nat \ {0}, NEW b \in Nat \ {0}, a <= b
    PROVE  u \div b <= u \div a
<1> DEFINE q == u \div b
           r == u \div a
<1>1. q \in Nat /\ b * q <= u
  BY DivisionBounds
<1>2. r \in Nat /\ u < a * r + a
  BY DivisionBounds
<1> HIDE DEF q, r
<1>3. a * q <= b * q /\ a * q \in Nat
  BY <1>1, ProductMonotone
<1>4. ASSUME r + 1 <= q PROVE FALSE
  <2>1. a * (r + 1) <= a * q
    BY <1>1, <1>2, <1>4, ProductMonotone
  <2>2. a * (r + 1) = a * r + a
    BY <1>2
  <2>3. a * r \in Nat
    BY <1>2, ProductMonotone
  <2>4. b * q \in Nat
    BY <1>1, ProductMonotone
  <2>5. QED
    BY <1>1, <1>2, <1>3, <2>1, <2>2, <2>3, <2>4
<1>5. q <= r
  BY <1>1, <1>2, <1>4
<1>6. QED
  BY <1>5 DEF q, r

LEMMA ShareType ==
    ASSUME NEW weight \in Nat, NEW place \in Nat
    PROVE  Share(weight, place) \in Nat
<1> DEFINE q == Unit \div (KRRF + place)
<1>1. q \in Nat
  BY PoolType, UnitType, DivisionBounds
<1> HIDE DEF q
<1>2. weight * q \in Nat
  BY <1>1, ProductMonotone
<1>3. QED
  BY <1>2 DEF Share, q

(* The better place has the larger share.                                  *)
LEMMA ShareAntitone ==
    ASSUME NEW weight \in Nat, NEW a \in Nat \ {0}, NEW b \in Nat, a < b \/ b = 0
    PROVE  Share(weight, b) <= Share(weight, a)
<1>1. CASE b = 0
  BY <1>1, ShareType DEF Share
<1>2. CASE b # 0
  <2> DEFINE q == Unit \div (KRRF + a)
             r == Unit \div (KRRF + b)
  <2>0. /\ KRRF + a \in Nat \ {0} /\ KRRF + b \in Nat \ {0}
        /\ KRRF + a <= KRRF + b
    BY <1>2, PoolType
  <2>1. q \in Nat /\ r \in Nat /\ r <= q
    BY <2>0, UnitType, DivisionBounds, DivisionAntitone
  <2> HIDE DEF q, r
  <2>2. weight * r <= weight * q
    BY <2>1, ProductMonotone
  <2>3. QED
    BY <1>2, <2>2 DEF Share, q, r
<1>3. QED
  BY <1>1, <1>2

LEMMA ScoreType ==
    ASSUME NEW bm25 \in Seq(Ids), NEW dense \in Seq(Ids), NEW id
    PROVE  Score(bm25, dense, id) \in Nat
<1>1. Place(bm25, id) \in Nat /\ Place(dense, id) \in Nat
  BY PlaceType
<1>2. BM25Weight \in Nat /\ DenseWeight \in Nat
  BY RetrievalAssumption
<1>3. /\ Share(BM25Weight, Place(bm25, id)) \in Nat
      /\ Share(DenseWeight, Place(dense, id)) \in Nat
  BY <1>1, <1>2, ShareType
<1>4. QED
  BY <1>3 DEF Score

-------------------------------------------------------------------------------
(* Fusion.                                                                 *)

Found(bm25, dense) == ToSet(bm25) \cup ToSet(dense)

Order(bm25, dense) ==
    {pair \in Found(bm25, dense) \X Found(bm25, dense) :
        Ahead(bm25, dense, pair[1], pair[2])}

Rank(bm25, dense, id) ==
    Cardinality({o \in Found(bm25, dense) : Ahead(bm25, dense, o, id)})

LEMMA FoundFinite ==
    ASSUME NEW s \in Seq(Ids)
    PROVE  IsFiniteSet(ToSet(s)) /\ ToSet(s) \subseteq Ids
<1>1. s \in [1..Len(s) -> ToSet(s)] /\ Len(s) \in Nat
  BY DEF ToSet
<1>2. \A x \in ToSet(s) : \E i \in 1..Len(s) : s[i] = x
  BY DEF ToSet
<1>3. s \in Surjection(1..Len(s), ToSet(s))
  BY <1>1, <1>2, Fun_IsSurj
<1>4. IsFiniteSet(1..Len(s))
  BY <1>1, FS_Interval
<1>5. IsFiniteSet(ToSet(s))
  BY <1>3, <1>4, FS_Surjection
<1>6. QED
  BY <1>5 DEF ToSet

(* No two ids entered the dictionary at the same time.                     *)
LEMMA EnteredOnce ==
    ASSUME NEW bm25 \in Seq(Ids), NEW dense \in Seq(Ids),
           NEW a \in Found(bm25, dense), NEW b \in Found(bm25, dense)
    PROVE  /\ Entered(bm25, dense, a) \in Nat
           /\ Entered(bm25, dense, a) = Entered(bm25, dense, b) => a = b
<1>1. /\ Place(bm25, a) \in 0..Len(bm25) /\ Place(dense, a) \in 0..Len(dense)
      /\ Place(bm25, a) # 0 => bm25[Place(bm25, a)] = a
      /\ Place(dense, a) # 0 => dense[Place(dense, a)] = a
      /\ Place(bm25, a) # 0 \/ Place(dense, a) # 0
  BY PlaceType DEF Found
<1>2. /\ Place(bm25, b) \in 0..Len(bm25) /\ Place(dense, b) \in 0..Len(dense)
      /\ Place(bm25, b) # 0 => bm25[Place(bm25, b)] = b
      /\ Place(dense, b) # 0 => dense[Place(dense, b)] = b
      /\ Place(bm25, b) # 0 \/ Place(dense, b) # 0
  BY PlaceType DEF Found
<1>3. QED
  BY <1>1, <1>2 DEF Entered

(* The order of the fused list is strict: scores, then who entered first.  *)
LEMMA AheadOrder ==
    ASSUME NEW bm25 \in Seq(Ids), NEW dense \in Seq(Ids)
    PROVE  StrictOrder(Order(bm25, dense), Found(bm25, dense))
<1> DEFINE sc(x) == Score(bm25, dense, x)
           en(x) == Entered(bm25, dense, x)
           R == Order(bm25, dense)
           S == Found(bm25, dense)
<1>1. \A x \in S : sc(x) \in Nat /\ en(x) \in Nat
  BY ScoreType, EnteredOnce
<1>2. \A x, y \in S : <<x, y>> \in R <=>
                        sc(x) > sc(y) \/ (sc(x) = sc(y) /\ en(x) < en(y))
  BY DEF Order, Ahead
<1>3. \A x, y \in S : en(x) = en(y) => x = y
  BY EnteredOnce
<1> HIDE DEF sc, en, R, S
<1>4. \A x \in S : <<x, x>> \notin R
  BY <1>1, <1>2
<1>5. \A x, y \in S : x = y \/ <<x, y>> \in R \/ <<y, x>> \in R
  <2> SUFFICES ASSUME NEW x \in S, NEW y \in S, x # y
               PROVE  <<x, y>> \in R \/ <<y, x>> \in R
    OBVIOUS
  <2>1. sc(x) \in Nat /\ sc(y) \in Nat /\ en(x) \in Nat /\ en(y) \in Nat
    BY <1>1
  <2>2. en(x) # en(y)
    BY <1>3
  <2>3. sc(x) > sc(y) \/ sc(y) > sc(x)
        \/ (sc(x) = sc(y) /\ (en(x) < en(y) \/ en(y) < en(x)))
    BY <2>1, <2>2
  <2>4. QED
    BY <1>2, <2>3
<1>6. \A x, y, z \in S : <<x, y>> \in R /\ <<y, z>> \in R => <<x, z>> \in R
  BY <1>1, <1>2
<1>7. QED
  BY <1>4, <1>5, <1>6 DEF StrictOrder, R, S

(* What Fused gives: the ids of the first ranks, each at its own.          *)
LEMMA FusedRanked ==
    ASSUME NEW bm25 \in Seq(Ids), NEW dense \in Seq(Ids)
    PROVE  /\ Fused(bm25, dense) \in Seq(Found(bm25, dense))
           /\ Len(Fused(bm25, dense)) \in 0..K
           /\ \A i \in 1..Len(Fused(bm25, dense)) :
                 Rank(bm25, dense, Fused(bm25, dense)[i]) = i - 1
           /\ \A x \in Found(bm25, dense) :
                 /\ Rank(bm25, dense, x) \in Nat
                 /\ Rank(bm25, dense, x) < Len(Fused(bm25, dense)) =>
                      Fused(bm25, dense)[Rank(bm25, dense, x) + 1] = x
           /\ \A x, y \in Found(bm25, dense) :
                 Ahead(bm25, dense, x, y) =>
                    Rank(bm25, dense, x) < Rank(bm25, dense, y)
<1> DEFINE S == Found(bm25, dense)
           R == Order(bm25, dense)
           n == Cardinality(S)
           rank(x) == Rank(bm25, dense, x)
           all == [i \in 1..n |-> CHOOSE id \in S : rank(id) = i - 1]
           fused == Fused(bm25, dense)
<1>1. IsFiniteSet(S) /\ StrictOrder(R, S)
  BY FoundFinite, FS_Union, AheadOrder DEF Found
<1>2. /\ n \in Nat
      /\ \A x \in S : rank(x) \in 0..(n - 1)
      /\ \A x, y \in S : <<x, y>> \in R => rank(x) < rank(y)
      /\ \A i \in 1..n : \E x \in S : rank(x) = i - 1
  <2>1. \A id \in S : rank(id) = Cardinality(Below(R, S, id))
    <3> SUFFICES ASSUME NEW id \in S
                 PROVE  {o \in S : Ahead(bm25, dense, o, id)} = Below(R, S, id)
      BY DEF Rank
    <3>1. QED
      BY DEF Below, Order
  <2> HIDE DEF S, R, rank
  <2>2. QED
    BY <1>1, <2>1, Ranks
<1>4. fused = Cut(all, K)
  BY DEF Fused, Found, Rank
<1>5. \A x, y \in S : rank(x) = rank(y) => x = y
  <2> HIDE DEF S, R, rank
  <2> SUFFICES ASSUME NEW x \in S, NEW y \in S, rank(x) = rank(y) PROVE x = y
    OBVIOUS
  <2>1. ~(rank(x) < rank(y)) /\ ~(rank(y) < rank(x))
    BY <1>2
  <2>2. QED
    BY <1>1, <1>2, <2>1 DEF StrictOrder
<1> HIDE DEF S, rank, R, fused
<1>6. \A i \in 1..n : all[i] \in S /\ rank(all[i]) = i - 1
  BY <1>2
<1>7. all \in Seq(S) /\ Len(all) = n
  <2>1. all \in [1..n -> S]
    BY <1>6
  <2>2. QED
    BY <1>2, <2>1
<1>8. /\ fused \in Seq(S) /\ Len(fused) \in 0..K /\ Len(fused) <= n
      /\ \A i \in 1..Len(fused) : fused[i] = all[i]
  <2> HIDE DEF all
  <2>1. QED
    BY <1>2, <1>4, <1>7, PoolType DEF Cut
<1>9. \A i \in 1..Len(fused) : rank(fused[i]) = i - 1
  <2> HIDE DEF all
  <2> SUFFICES ASSUME NEW i \in 1..Len(fused) PROVE rank(fused[i]) = i - 1
    OBVIOUS
  <2>1. i \in 1..n /\ fused[i] = all[i]
    BY <1>2, <1>8
  <2>2. QED
    BY <1>6, <2>1
<1>10. ASSUME NEW x \in S, rank(x) < Len(fused) PROVE fused[rank(x) + 1] = x
  <2>1. rank(x) + 1 \in 1..Len(fused) /\ rank(x) \in Nat
    BY <1>2, <1>8, <1>10
  <2>2. rank(fused[rank(x) + 1]) = rank(x) /\ fused[rank(x) + 1] \in S
    BY <1>8, <1>9, <2>1
  <2>3. QED
    BY <1>5, <2>2
<1>11. \A x, y \in S : Ahead(bm25, dense, x, y) => rank(x) < rank(y)
  <2>1. \A x, y \in S : Ahead(bm25, dense, x, y) => <<x, y>> \in R
    BY DEF R, S, Order
  <2>2. QED
    BY <1>2, <2>1
<1>12. \A x \in S : rank(x) \in Nat
  BY <1>2
<1>13. QED
  BY <1>8, <1>9, <1>10, <1>11, <1>12 DEF S, rank, fused

(* A chunk that both lists place better is ahead.                          *)
LEMMA DominatesAhead ==
    ASSUME NEW bm25 \in Seq(Ids), NEW dense \in Seq(Ids),
           NEW a \in Found(bm25, dense), NEW b \in Found(bm25, dense),
           Dominates(bm25, dense, a, b)
    PROVE  Ahead(bm25, dense, a, b)
<1> DEFINE ka == Place(bm25, a)
           kb == Place(bm25, b)
           da == Place(dense, a)
           db == Place(dense, b)
<1>1. /\ ka \in 0..Len(bm25) /\ kb \in 0..Len(bm25) /\ Len(bm25) \in Nat
      /\ da \in 0..Len(dense) /\ db \in 0..Len(dense) /\ Len(dense) \in Nat
  BY PlaceType
<1>2. kb # 0 \/ db # 0
  BY PlaceType DEF Found
<1>3. /\ kb = 0 \/ (ka # 0 /\ ka < kb)
      /\ db = 0 \/ (da # 0 /\ da < db)
  BY DEF Dominates
<1>4. Entered(bm25, dense, a) < Entered(bm25, dense, b)
  BY <1>1, <1>2, <1>3 DEF Entered
<1>5. ASSUME NEW w \in Nat, NEW p \in Nat, NEW q \in Nat,
             q = 0 \/ (p # 0 /\ p < q)
      PROVE  Share(w, q) <= Share(w, p)
  <2>1. CASE p = 0
    BY <1>5, <2>1 DEF Share
  <2>2. CASE p # 0
    BY <1>5, <2>2, ShareAntitone
  <2>3. QED
    BY <2>1, <2>2
<1>6. BM25Weight \in Nat /\ DenseWeight \in Nat
  BY RetrievalAssumption
<1>7. /\ Share(BM25Weight, kb) <= Share(BM25Weight, ka)
      /\ Share(DenseWeight, db) <= Share(DenseWeight, da)
  BY <1>1, <1>3, <1>5, <1>6
<1>8. /\ Share(BM25Weight, ka) \in Nat /\ Share(BM25Weight, kb) \in Nat
      /\ Share(DenseWeight, da) \in Nat /\ Share(DenseWeight, db) \in Nat
  <2>1. ka \in Nat /\ kb \in Nat /\ da \in Nat /\ db \in Nat
    BY <1>1
  <2> HIDE DEF ka, kb, da, db
  <2>2. QED
    BY <1>6, <2>1, ShareType
<1>9. Score(bm25, dense, b) <= Score(bm25, dense, a)
  BY <1>7, <1>8 DEF Score
<1>10. Score(bm25, dense, a) \in Nat /\ Score(bm25, dense, b) \in Nat
  BY ScoreType
<1>11. QED
  BY <1>4, <1>9, <1>10 DEF Ahead

(* So it is placed better in the fused list, or the other is not in it.    *)
LEMMA FusedPlaces ==
    ASSUME NEW bm25 \in Seq(Ids), NEW dense \in Seq(Ids)
    PROVE  /\ Fused(bm25, dense) \in Seq(Ids)
           /\ ToSet(Fused(bm25, dense)) \subseteq Found(bm25, dense)
           /\ IsInjective(Fused(bm25, dense))
           /\ \A x, y \in Found(bm25, dense) :
                 Dominates(bm25, dense, x, y) /\ Place(Fused(bm25, dense), y) # 0 =>
                    Place(Fused(bm25, dense), x)
                       \in 1..(Place(Fused(bm25, dense), y) - 1)
<1> DEFINE fused == Fused(bm25, dense)
           S == Found(bm25, dense)
           rank(x) == Rank(bm25, dense, x)
<1>1. S \subseteq Ids
  BY FoundFinite DEF Found
<1>2. /\ fused \in Seq(S) /\ Len(fused) \in 0..K
      /\ \A i \in 1..Len(fused) : rank(fused[i]) = i - 1
      /\ \A x \in S : /\ rank(x) \in Nat
                      /\ rank(x) < Len(fused) => fused[rank(x) + 1] = x
      /\ \A x, y \in S : Ahead(bm25, dense, x, y) => rank(x) < rank(y)
  BY FusedRanked
<1>3. ASSUME NEW x \in S, NEW y \in S, Dominates(bm25, dense, x, y)
      PROVE  Ahead(bm25, dense, x, y)
  BY <1>3, DominatesAhead
<1> HIDE DEF fused, S, rank
<1>4. fused \in Seq(Ids)
  BY <1>1, <1>2
<1>5. IsInjective(fused)
  <2>1. DOMAIN fused = 1..Len(fused)
    BY <1>2
  <2>2. QED
    BY <1>2, <2>1 DEF IsInjective
<1>6. ASSUME NEW x \in S, NEW y \in S, Dominates(bm25, dense, x, y),
             Place(fused, y) # 0
      PROVE  Place(fused, x) \in 1..(Place(fused, y) - 1)
  <2>1. /\ Place(fused, y) \in 1..Len(fused) /\ Len(fused) \in Nat
        /\ fused[Place(fused, y)] = y
    <3>1. Place(fused, y) \in 0..Len(fused) /\ fused[Place(fused, y)] = y
      BY <1>4, <1>6, PlaceType
    <3>2. QED
      BY <1>2, <1>6, <3>1
  <2>2. rank(y) = Place(fused, y) - 1
    BY <1>2, <2>1
  <2>3. rank(x) \in Nat /\ rank(x) < rank(y)
    <3>1. Ahead(bm25, dense, x, y)
      BY <1>3, <1>6
    <3>2. QED
      BY <1>2, <3>1
  <2>4. rank(x) + 1 \in 1..Len(fused) /\ fused[rank(x) + 1] = x
    BY <1>2, <2>1, <2>2, <2>3
  <2>5. Place(fused, x) # 0 /\ Place(fused, x) \in 0..Len(fused)
        /\ fused[Place(fused, x)] = x
    <3>1. DOMAIN fused = 1..Len(fused)
      BY <1>2
    <3>2. QED
      BY <1>4, <2>4, <3>1, PlaceType
  <2>6. rank(x) = Place(fused, x) - 1
    BY <1>2, <2>1, <2>5
  <2>7. QED
    BY <2>1, <2>2, <2>3, <2>5, <2>6
<1>7. ToSet(fused) \subseteq S
  BY <1>2 DEF ToSet
<1>8. QED
  BY <1>4, <1>5, <1>6, <1>7 DEF fused, S

(* What a list of the best members of a set is.                            *)
LEMMA RankingType ==
    ASSUME NEW S, NEW n \in Nat, NEW s \in Rankings(S, n)
    PROVE  /\ s \in Seq(S) /\ IsInjective(s)
           /\ s \in [1..Len(s) -> S] /\ Len(s) \in Nat
<1>1. PICK m \in Int : m >= 0 /\ s \in [1..m -> S] /\ IsInjective(s)
  BY DEF Rankings
<1>2. QED
  BY <1>1

(* The cross-encoder re-orders.                                            *)
LEMMA RerankedSame ==
    ASSUME NEW fused \in Seq(Ids), IsInjective(fused), NEW hits \in Reranked(fused)
    PROVE  /\ hits \in Seq(Ids) /\ Len(hits) = Len(fused)
           /\ ToSet(hits) = ToSet(fused)
<1> DEFINE n == IF RerankTop = 0 THEN Len(fused)
                ELSE IF RerankTop < Len(fused) THEN RerankTop ELSE Len(fused)
           best == Cut(fused, n)
           T == ToSet(best)
           tail == SubSeq(fused, n + 1, Len(fused))
<1>1. n \in 0..Len(fused) /\ Len(fused) \in Nat
  BY RetrievalAssumption
<1>2. PICK head \in FullRankings(T, n) : hits = head \o tail
  BY DEF Reranked
<1> HIDE DEF n
<1>3. /\ best \in Seq(Ids) /\ Len(best) = n
      /\ \A i \in 1..n : best[i] = fused[i]
  BY <1>1 DEF Cut
<1> HIDE DEF best
<1>4. /\ best \in [1..n -> T]
      /\ \A i, j \in 1..n : best[i] = best[j] => i = j
      /\ \A x \in T : \E i \in 1..n : best[i] = x
  <2>1. DOMAIN best = 1..n /\ DOMAIN fused = 1..Len(fused)
    BY <1>1, <1>3
  <2>2. best \in [1..n -> T] /\ \A x \in T : \E i \in 1..n : best[i] = x
    BY <1>3, <2>1 DEF ToSet
  <2>3. \A i, j \in 1..n : best[i] = best[j] => i = j
    BY <1>1, <1>3, <2>1 DEF IsInjective
  <2>4. QED
    BY <2>2, <2>3
<1>5. IsFiniteSet(T) /\ Cardinality(T) = n
  <2> HIDE DEF T
  <2>1. IsFiniteSet(1..n) /\ Cardinality(1..n) = n
    BY <1>1, FS_Interval
  <2>2. best \in Injection(1..n, T) /\ best \in Surjection(1..n, T)
    BY <1>4, Fun_IsInj, Fun_IsSurj
  <2>3. QED
    BY <2>1, <2>2, FS_Surjection
<1>6. /\ head \in Seq(T) /\ IsInjective(head)
      /\ head \in [1..Len(head) -> T] /\ Len(head) = n
  <2>1. head \in Rankings(T, n) /\ Len(head) = n
    BY <1>1, <1>5 DEF FullRankings
  <2>2. QED
    BY <1>1, <2>1, RankingType
<1>7. \A x \in T : \E i \in 1..n : head[i] = x
  <2> HIDE DEF T
  <2>1. head \in Injection(1..n, T)
    BY <1>6 DEF Injection
  <2>2. IsFiniteSet(1..n) /\ Cardinality(1..n) = Cardinality(T)
    BY <1>1, <1>5, FS_Interval
  <2>3. head \in Surjection(1..n, T)
    BY <1>5, <2>1, <2>2, FS_Injection
  <2>4. QED
    BY <2>3 DEF Surjection
<1>8. T \subseteq Ids /\ T \subseteq ToSet(fused)
  BY <1>1, <1>3 DEF T, ToSet
<1>9. /\ tail \in Seq(Ids) /\ Len(tail) = Len(fused) - n
      /\ \A i \in 1..(Len(fused) - n) : tail[i] = fused[n + i]
  BY <1>1
<1> HIDE DEF T, tail
<1>10. head \in Seq(Ids)
  BY <1>6, <1>8
<1>11. /\ hits \in Seq(Ids) /\ Len(hits) = Len(fused)
       /\ \A i \in 1..n : hits[i] = head[i]
       /\ \A i \in (n + 1)..Len(fused) : hits[i] = fused[i]
  <2>1. /\ hits \in Seq(Ids) /\ Len(hits) = n + Len(tail)
        /\ \A i \in 1..n : hits[i] = head[i]
        /\ \A i \in (n + 1)..(n + Len(tail)) : hits[i] = tail[i - n]
    BY <1>1, <1>2, <1>6, <1>9, <1>10
  <2>2. ASSUME NEW i \in (n + 1)..Len(fused) PROVE hits[i] = fused[i]
    <3>1. i - n \in 1..(Len(fused) - n) /\ n + (i - n) = i
      BY <1>1
    <3>2. QED
      BY <1>1, <1>9, <2>1, <3>1
  <2>3. QED
    BY <1>1, <1>9, <2>1, <2>2
<1>12. DOMAIN hits = 1..Len(fused) /\ DOMAIN fused = 1..Len(fused)
  BY <1>11
<1>13. ToSet(hits) \subseteq ToSet(fused)
  <2> SUFFICES ASSUME NEW i \in 1..Len(fused) PROVE hits[i] \in ToSet(fused)
    BY <1>12 DEF ToSet
  <2>1. CASE i <= n
    BY <1>1, <1>6, <1>8, <1>11, <2>1
  <2>2. CASE i > n
    BY <1>1, <1>11, <1>12, <2>2 DEF ToSet
  <2>3. QED
    BY <1>1, <2>1, <2>2
<1>14. ToSet(fused) \subseteq ToSet(hits)
  <2> SUFFICES ASSUME NEW i \in 1..Len(fused)
               PROVE  \E j \in 1..Len(fused) : hits[j] = fused[i]
    BY <1>12 DEF ToSet
  <2>1. CASE i <= n
    <3>1. fused[i] \in T
      BY <1>1, <1>3, <1>4, <2>1
    <3>2. PICK j \in 1..n : head[j] = fused[i]
      BY <1>7, <3>1
    <3>3. QED
      BY <1>1, <1>11, <3>2
  <2>2. CASE i > n
    BY <1>1, <1>11, <2>2
  <2>3. QED
    BY <1>1, <2>1, <2>2
<1>15. QED
  BY <1>11, <1>13, <1>14
-------------------------------------------------------------------------------
(* The shape of the state.                                                 *)

Saved == Corpora \cup {<<>>}
Pickles == [torn : BOOLEAN, ids : Saved]
SaverSteps == {"idle", "upsert", "index", "index_open", "meta", "meta_open"}
Opened == [corpus : Saved, meta : Saved, quiet : BOOLEAN]
Works == [order : Seq(Nat), named : Seq(Ids), dense : Seq(Ids), hits : Seq(Ids),
          texts : SUBSET Ids, cited : BOOLEAN, verdict : Verdicts \cup {NoVerdict}]
Statuses == {"200", "400", "409", "500", "503", "nohits", "pass", "fail", "error",
             "closed"}
Outcomes == [status : Statuses, confidence : 0..100,
             summary : {"none"} \cup Summaries, suspected : Nat]
FrameKinds == {"meta", "token", "done", "error"}
Records == [proc : Procs, item : Nat, summary : {"skipped"} \cup Summaries,
            confidence : 0..100, suspected : Nat]

Busy(p) == stage[p] \notin {"start", "done"}

(* Every item of a job but the current one has its outcome.                *)
ShapeInv ==
    /\ chroma \subseteq Ids
    /\ index \in Pickles /\ meta \in Pickles /\ cut \in BOOLEAN
    /\ saver \in [step : SaverSteps, ids : Saved]
    /\ job \in [Procs -> Jobs]
    /\ stage \in [Procs -> Stages]
    /\ opened \in [Procs -> Opened]
    /\ work \in [Procs -> Works]
    /\ results \in [Procs -> Seq(Outcomes)]
    /\ frames \in [Procs -> Seq(FrameKinds)]
    /\ audit \in Seq(Records)
    /\ \A p \in Procs :
          /\ Len(results[p]) <= Len(job[p].items)
          /\ Busy(p) => Len(results[p]) < Len(job[p].items)
          /\ stage[p] = "start" => results[p] = <<>>
          /\ Len(work[p].hits) <= K

(* What is in memory of an id was in Chroma before: an index is saved after *)
(* its chunks, and nothing takes a chunk away.                             *)
KnownInv ==
    /\ ToSet(index.ids) \cup ToSet(meta.ids) \subseteq chroma
    /\ saver.step \notin {"idle", "upsert"} => ToSet(saver.ids) \subseteq chroma
    /\ \A p \in Procs :
          /\ ToSet(opened[p].corpus) \cup ToSet(opened[p].meta) \subseteq chroma
          /\ ToSet(work[p].named) \cup ToSet(work[p].dense) \subseteq chroma
          /\ TextFound(p)

(* Between two saves the pickles agree, and a store that nothing disturbed *)
(* between its two reads has read two that agree.                          *)
AgreeInv ==
    /\ saver.step \in {"idle", "upsert", "index"} /\ ~cut =>
          index = meta /\ ~index.torn
    /\ saver.step \in {"meta", "meta_open"} => index = Pickle(FALSE, saver.ids)
    /\ \A p \in Procs :
          opened[p].quiet =>
             IF opened[p].meta # <<>> THEN opened[p].corpus = opened[p].meta
             ELSE /\ opened[p].corpus = meta.ids
                  /\ saver.step \in {"idle", "upsert", "index"} /\ ~cut
    /\ RightChunk

(* Record n is of an answered item, and says what its answer says; no item  *)
(* has two; each answer of _do_query has one.                              *)
Tells(n, p, i) == audit[n].proc = p /\ audit[n].item = i

Faithful(n) ==
    LET p == audit[n].proc
        i == audit[n].item
    IN  /\ p \in Procs /\ i \in DOMAIN results[p] /\ Scanned(p)
        /\ results[p][i].status = "200"
        /\ audit[n].confidence = results[p][i].confidence
        /\ audit[n].suspected = results[p][i].suspected
        /\ audit[n].summary = Recorded(job[p].items[i].guard, results[p][i].summary)

Told(p, i) ==
    Scanned(p) /\ results[p][i].status = "200" =>
        \E n \in DOMAIN audit : Tells(n, p, i)

AuditInv ==
    /\ \A n \in DOMAIN audit : Faithful(n)
    /\ \A m, n \in DOMAIN audit :
          audit[m].proc = audit[n].proc /\ audit[m].item = audit[n].item => m = n
    /\ \A p \in Procs : \A i \in DOMAIN results[p] : Told(p, i)

(* A verdict is there when an item that is guarded is all but done.        *)
Judged(p) ==
    /\ work[p].verdict.ran <=> (stage[p] = "finish" /\ Guarded(p))
    /\ stage[p] = "judge" => Guarded(p)
JudgedInv == \A p \in Procs : Judged(p)

(* A stream that has begun is not over, and nothing else has frames.       *)
Whole(p) ==
    /\ BatchWhole(p)
    /\ stage[p] = "tokens" => Kind(p) = "stream" /\ frames[p] # <<>>
    /\ stage[p] \notin {"tokens", "done"} => frames[p] = <<>>
    /\ StreamFramed(p)

WholeInv == \A p \in Procs : Whole(p)
-------------------------------------------------------------------------------
(* What one step of a job does, as far as the other jobs, the results and  *)
(* the records can tell.                                                   *)

(* The job goes on with its item, or ends because it has none.             *)
Stays(p, s, w, o) ==
    /\ stage' = [stage EXCEPT ![p] = s]
    /\ work' = [work EXCEPT ![p] = w]
    /\ opened' = [opened EXCEPT ![p] = o]
    /\ UNCHANGED <<results, audit>>
    /\ s # "start" /\ Len(w.hits) <= K
    /\ IF s = "done" THEN job[p].items = <<>> /\ results[p] = <<>>
       ELSE Len(results[p]) < Len(job[p].items)

Streams(p, s) ==
    \/ s # "tokens" /\ stage[p] # "tokens" /\ UNCHANGED frames
    \/ /\ s = "tokens" /\ stage[p] = "fetch" /\ Kind(p) = "stream"
       /\ frames' = [frames EXCEPT ![p] = <<"meta">>]
    \/ /\ s = "tokens" /\ stage[p] = "tokens"
       /\ frames' = [frames EXCEPT ![p] = Append(@, "token")]

(* The item has its outcome.                                               *)
Ends(p, r) ==
    /\ results' = [results EXCEPT ![p] = Append(@, r)]
    /\ work' = [work EXCEPT ![p] = Fresh]
    /\ opened' = Kept(p)
    /\ Len(results[p]) < Len(job[p].items)
    /\ \E s \in {"open", "done"} :
          /\ stage' = [stage EXCEPT ![p] = s]
          /\ s = "open" => Len(results[p]) + 1 < Len(job[p].items)
          /\ s = "done" /\ Kind(p) = "bulk" /\ Len(job[p].items) <= MaxBulk =>
                Len(results[p]) + 1 = Len(job[p].items)

Closes(p, r) ==
    \/ /\ r.status # "200" \/ Kind(p) = "cli"
       /\ stage[p] = "tokens" => r.status = "closed"
       /\ UNCHANGED <<frames, audit>>
    \/ /\ stage[p] = "tokens"
       /\ \E f \in {"done", "error"} : frames' = [frames EXCEPT ![p] = Append(@, f)]
       /\ UNCHANGED audit
    \/ /\ stage[p] = "finish" /\ r = ResponseOf(p) /\ Scanned(p)
       /\ audit' = Append(audit, Record(p, r)) /\ Record(p, r) \in Records
       /\ UNCHANGED frames

JobStep(p) ==
    /\ UNCHANGED <<store, job>>
    /\ \/ \E s \in Stages, w \in Works, o \in Opened : Stays(p, s, w, o) /\ Streams(p, s)
       \/ \E r \in Outcomes : Ends(p, r) /\ Closes(p, r)

LEMMA SavedType == Saved \subseteq Seq(Ids)
<1>1. \A s \in Corpora : s \in Seq(Ids)
  BY QueryAssumption
<1>2. <<>> \in Seq(Ids)
  OBVIOUS
<1>3. QED
  BY <1>1, <1>2 DEF Saved

LEMMA Shapes ==
    ASSUME ShapeInv, NEW p \in Procs
    PROVE  /\ job[p] \in [kind : Kinds, items : Seq(Item)]
           /\ Kind(p) \notin Evals \cup {"bulk"} => Len(job[p].items) = 1
           /\ stage[p] \in Stages /\ opened[p] \in Opened /\ work[p] \in Works
           /\ results[p] \in Seq(Outcomes) /\ Len(results[p]) \in Nat
           /\ Len(job[p].items) \in Nat
           /\ MaxBulk \in Nat
           /\ Fresh \in Works /\ Unread \in Opened /\ Len(Fresh.hits) = 0 /\ K \in Nat
           /\ Kept(p) \in [Procs -> Opened]
           /\ \E o \in Opened : Kept(p) = [opened EXCEPT ![p] = o]
           /\ \A q \in Procs \ {p} : Kept(p)[q] = opened[q]
<1>1. job[p] \in [kind : Kinds, items : Seq(Item)]
  BY QueryAssumption DEF ShapeInv
<1>2. Kind(p) \notin Evals \cup {"bulk"} => Len(job[p].items) = 1
  BY QueryAssumption DEF ShapeInv, Kind
<1>3. Fresh \in Works /\ Len(Fresh.hits) = 0
  BY DEF Fresh, Works
<1>4. Unread \in Opened
  BY DEF Unread, Opened, Saved
<1>5. Kept(p) \in [Procs -> Opened] /\ \A q \in Procs \ {p} : Kept(p)[q] = opened[q]
  BY <1>4 DEF Kept, ShapeInv
<1>6. \E o \in Opened : Kept(p) = [opened EXCEPT ![p] = o]
  <2>1. CASE Kept(p) = opened
    <3>1. opened = [opened EXCEPT ![p] = opened[p]] /\ opened[p] \in Opened
      BY DEF ShapeInv
    <3>2. QED
      BY <2>1, <3>1
  <2>2. CASE Kept(p) = [opened EXCEPT ![p] = Unread]
    BY <1>4, <2>2
  <2>3. QED
    BY <2>1, <2>2 DEF Kept
<1>7. MaxBulk \in Nat /\ K \in Nat
  BY QueryAssumption, RetrievalAssumption
<1>8. /\ stage[p] \in Stages /\ opened[p] \in Opened /\ work[p] \in Works
      /\ results[p] \in Seq(Outcomes) /\ Len(results[p]) \in Nat
  BY DEF ShapeInv
<1>9. Len(job[p].items) \in Nat
  BY <1>1
<1>10. QED
  BY <1>1, <1>2, <1>3, <1>4, <1>5, <1>6, <1>7, <1>8, <1>9

LEMMA AnsweredEnds ==
    ASSUME ShapeInv, NEW p \in Procs, Busy(p), NEW r, Answered(p, r)
    PROVE  Ends(p, r)
<1>1. Len(results[p]) < Len(job[p].items)
  BY DEF ShapeInv
<1>2. Len(results[p]) \in Nat /\ Len(job[p].items) \in Nat
  BY Shapes
<1> DEFINE s == IF Len(results[p]) + 1 = Len(job[p].items) THEN "done" ELSE "open"
<1>3. stage' = [stage EXCEPT ![p] = s] /\ s \in {"open", "done"}
  BY DEF Answered, Goto
<1>4. /\ s = "open" => Len(results[p]) + 1 < Len(job[p].items)
      /\ s = "done" => Len(results[p]) + 1 = Len(job[p].items)
  BY <1>1, <1>2
<1> HIDE DEF s
<1>5. QED
  BY <1>1, <1>3, <1>4 DEF Answered, Ends

LEMMA FailEnds ==
    ASSUME ShapeInv, NEW p \in Procs, Busy(p), stage[p] # "tokens",
           NEW status \in Statuses, status # "200", Fail(p, status), UNCHANGED <<store, job>>
    PROVE  JobStep(p)
<1>1. Ends(p, Failure(status)) /\ UNCHANGED <<frames, audit>>
  <2>1. CASE Kind(p) = "bulk"
    BY <2>1, AnsweredEnds DEF Fail
  <2>2. CASE Kind(p) # "bulk"
    <3>1. Len(results[p]) < Len(job[p].items)
      BY DEF ShapeInv
    <3>2. QED
      BY <2>2, <3>1 DEF Fail, FailWhole, Ends, Goto
  <2>3. QED
    BY <2>1, <2>2
<1>2. Failure(status) \in Outcomes /\ Failure(status).status # "200"
  BY DEF Failure, Result, Outcomes
<1>3. Closes(p, Failure(status))
  BY <1>1, <1>2 DEF Closes
<1>4. QED
  BY <1>1, <1>2, <1>3 DEF JobStep

LEMMA StaysOn ==
    ASSUME ShapeInv, NEW p \in Procs, Busy(p), stage[p] # "tokens",
           NEW s \in Stages \ {"start", "done", "tokens"}, Goto(p, s),
           NEW w \in Works, work' = [work EXCEPT ![p] = w], Len(w.hits) <= K,
           NEW o \in Opened, opened' = [opened EXCEPT ![p] = o],
           UNCHANGED <<store, job, results, frames, audit>>
    PROVE  JobStep(p)
<1>1. Len(results[p]) < Len(job[p].items)
  BY DEF ShapeInv
<1>2. Stays(p, s, w, o) /\ Streams(p, s)
  BY <1>1 DEF Stays, Streams, Goto
<1>3. QED
  BY <1>2 DEF JobStep

LEMMA Same ==
    ASSUME ShapeInv, NEW p \in Procs
    PROVE  /\ work = [work EXCEPT ![p] = work[p]]
           /\ opened = [opened EXCEPT ![p] = opened[p]]
           /\ work[p] \in Works /\ Len(work[p].hits) <= K
           /\ opened[p] \in Opened
  BY DEF ShapeInv

LEMMA StartStep ==
    ASSUME ShapeInv, NEW p \in Procs, Start(p)
    PROVE  JobStep(p)
<1>1. UNCHANGED <<store, job>> /\ stage[p] = "start" /\ results[p] = <<>>
  BY DEF Start, ShapeInv
<1>2. job[p].items # <<>> => Len(results[p]) < Len(job[p].items)
  BY <1>1, Shapes
<1>3. CASE job[p].items = <<>> \/ ~(Kind(p) = "bulk" /\ Len(job[p].items) > MaxBulk)
  <2> DEFINE s == IF job[p].items = <<>> THEN "done" ELSE "open"
  <2>1. Goto(p, s) /\ UNCHANGED <<opened, work, results, frames, audit>>
    BY <1>3 DEF Start
  <2>2. s \in Stages /\ s \notin {"start", "tokens"}
    BY DEF Stages
  <2>3. Stays(p, s, work[p], opened[p]) /\ Streams(p, s)
    BY <1>1, <1>2, <2>1, <2>2, Same DEF Stays, Streams, Goto
  <2>4. QED
    BY <1>1, <2>2, <2>3, Same DEF JobStep
<1>4. CASE /\ job[p].items # <<>>
           /\ Kind(p) = "bulk" /\ Len(job[p].items) > MaxBulk
  <2>1. FailWhole(p, "400")
    BY <1>4 DEF Start
  <2>2. Ends(p, Failure("400"))
    BY <1>2, <1>4, <2>1, Shapes DEF FailWhole, Ends, Goto
  <2>3. Failure("400") \in Outcomes /\ Failure("400").status # "200"
    BY DEF Failure, Result, Outcomes, Statuses
  <2>4. Closes(p, Failure("400"))
    BY <1>1, <2>1, <2>3 DEF Closes, FailWhole
  <2>5. QED
    BY <1>1, <2>2, <2>3, <2>4 DEF JobStep
<1>5. QED
  BY <1>3, <1>4

LEMMA OpenStep ==
    ASSUME ShapeInv, NEW p \in Procs, Open(p) \/ EmbedderFails(p) \/ ModelFails(p) \/ JudgeOdd(p)
    PROVE  JobStep(p)
<1>1. Busy(p) /\ stage[p] # "tokens" /\ UNCHANGED <<store, job>>
  BY DEF Open, EmbedderFails, ModelFails, JudgeOdd, Busy
<1>2. CASE \E status \in {"400", "409", "500", "503"} : Fail(p, status)
  BY <1>1, <1>2, FailEnds DEF Statuses
<1>3. CASE Goto(p, "index") /\ UNCHANGED <<opened, work, results, frames, audit>>
  BY <1>1, <1>3, Same, StaysOn DEF Stages
<1>4. QED
  BY <1>2, <1>3 DEF Open, EmbedderFails, ModelFails, JudgeOdd

LEMMA LoadIndexStep ==
    ASSUME ShapeInv, NEW p \in Procs, LoadIndex(p)
    PROVE  JobStep(p)
<1>1. Busy(p) /\ stage[p] # "tokens" /\ UNCHANGED <<store, job>>
  BY DEF LoadIndex, Busy
<1>2. CASE Fail(p, "500")
  BY <1>1, <1>2, FailEnds DEF Statuses
<1>3. CASE Goto(p, "meta") /\ UNCHANGED <<opened, work, results, frames, audit>>
  BY <1>1, <1>3, Same, StaysOn DEF Stages
<1>4. CASE /\ Goto(p, "meta") /\ UNCHANGED <<work, results, frames, audit>>
           /\ opened' = [opened EXCEPT
                   ![p].corpus = index.ids,
                   ![p].quiet = /\ saver.step \in {"idle", "upsert"} /\ ~cut
                                /\ opened[p].meta = <<>>]
  <2> DEFINE o == [opened[p] EXCEPT !.corpus = index.ids,
                     !.quiet = /\ saver.step \in {"idle", "upsert"} /\ ~cut
                               /\ opened[p].meta = <<>>]
  <2>1. index.ids \in Saved /\ opened[p] \in Opened
    BY DEF ShapeInv, Pickles
  <2>2. o \in Opened
    BY <2>1 DEF Opened
  <2>3. opened' = [opened EXCEPT ![p] = o]
    BY <1>4
  <2> HIDE DEF o
  <2>4. QED
    BY <1>1, <1>4, <2>2, <2>3, Same, StaysOn DEF Stages
<1>5. QED
  BY <1>2, <1>3, <1>4 DEF LoadIndex

LEMMA LoadMetaStep ==
    ASSUME ShapeInv, NEW p \in Procs, LoadMeta(p)
    PROVE  JobStep(p)
<1>1. Busy(p) /\ stage[p] # "tokens" /\ UNCHANGED <<store, job>>
  BY DEF LoadMeta, Busy
<1>2. CASE Fail(p, "500")
  BY <1>1, <1>2, FailEnds DEF Statuses
<1>3. CASE ~Fail(p, "500")
  <2> DEFINE ids == IF opened[p].meta # <<>> THEN opened[p].meta ELSE meta.ids
  <2>1. ids \in Saved /\ opened[p].corpus \in Saved
    BY DEF ShapeInv, Opened, Pickles
  <2>2. PICK order \in IF ids = <<>> THEN {<<>>}
                       ELSE Rankings(DOMAIN opened[p].corpus, Pool) :
          /\ ~\E i \in DOMAIN order : order[i] > Len(ids)
          /\ Goto(p, "dense")
          /\ opened' = [opened EXCEPT ![p].meta = ids]
          /\ work' = [work EXCEPT
                 ![p].order = order,
                 ![p].named = [i \in DOMAIN order |-> ids[order[i]]]]
          /\ UNCHANGED <<results, frames, audit>>
    BY <1>3 DEF LoadMeta
  <2>3. Saved \subseteq Seq(Ids)
    BY SavedType
  <2>4. order \in Seq(DOMAIN opened[p].corpus)
    <3>1. CASE ids = <<>>
      BY <2>2, <3>1
    <3>2. CASE order \in Rankings(DOMAIN opened[p].corpus, Pool)
      BY <3>2, PoolType, RankingType
    <3>3. QED
      BY <2>2, <3>1, <3>2
  <2>5. DOMAIN opened[p].corpus \subseteq Nat \ {0}
    BY <2>1, <2>3
  <2>6. order \in Seq(Nat) /\ \A i \in DOMAIN order : order[i] \in 1..Len(ids)
    <3> HIDE DEF ids
    <3>1. order \in Seq(Nat \ {0}) /\ Len(ids) \in Nat
      BY <2>1, <2>3, <2>4, <2>5
    <3>2. \A i \in DOMAIN order : order[i] \in Nat \ {0}
      BY <3>1
    <3>3. QED
      BY <2>2, <3>1, <3>2
  <2> DEFINE named == [i \in DOMAIN order |-> ids[order[i]]]
             w == [work[p] EXCEPT !.order = order, !.named = named]
             o == [opened[p] EXCEPT !.meta = ids]
  <2>7. named \in Seq(Ids)
    <3>1. \A i \in DOMAIN order : ids[order[i]] \in Ids
      BY <2>1, <2>3, <2>6
    <3>2. DOMAIN order = 1..Len(order) /\ Len(order) \in Nat
      BY <2>6
    <3>3. QED
      BY <3>1, <3>2
  <2> HIDE DEF named, ids
  <2>8. w \in Works /\ Len(w.hits) <= K /\ o \in Opened
    BY <2>1, <2>6, <2>7, Same DEF Works, Opened
  <2>9. work' = [work EXCEPT ![p] = w] /\ opened' = [opened EXCEPT ![p] = o]
    BY <2>2 DEF named
  <2> HIDE DEF w, o
  <2>10. QED
    BY <1>1, <2>2, <2>8, <2>9, StaysOn DEF Stages
<1>4. QED
  BY <1>2, <1>3

LEMMA DenseStep ==
    ASSUME ShapeInv, NEW p \in Procs, Dense(p)
    PROVE  JobStep(p)
<1>1. Busy(p) /\ stage[p] # "tokens" /\ UNCHANGED <<store, job>>
  BY DEF Dense, Busy
<1>2. PICK s \in FullRankings(chroma, Pool) :
         work' = [work EXCEPT ![p] = [Fresh EXCEPT !.named = work[p].named, !.dense = s]]
  BY DEF Dense
<1>3. s \in Seq(Ids)
  <2>1. s \in Rankings(chroma, Pool)
    BY <1>2 DEF FullRankings
  <2>2. s \in Seq(chroma)
    BY <2>1, PoolType, RankingType
  <2>3. QED
    BY <2>2 DEF ShapeInv
<1> DEFINE w == [Fresh EXCEPT !.named = work[p].named, !.dense = s]
<1>4. w \in Works /\ Len(w.hits) <= K
  <2>1. Fresh \in Works /\ Len(Fresh.hits) = 0 /\ K \in Nat /\ work[p] \in Works
    BY Shapes
  <2>2. work[p].named \in Seq(Ids)
    BY <2>1 DEF Works
  <2>3. w \in Works /\ w.hits = Fresh.hits
    BY <1>3, <2>1, <2>2 DEF Works
  <2>4. QED
    BY <2>1, <2>3
<1>5. PICK o \in Opened : opened' = [opened EXCEPT ![p] = o]
  BY Shapes DEF Dense
<1> HIDE DEF w
<1>6. QED
  BY <1>1, <1>2, <1>4, <1>5, StaysOn DEF Dense, Stages, w

(* The hits are the fused ids, which the cross-encoder may have re-ordered. *)
LEMMA HitsType ==
    ASSUME ShapeInv, NEW p \in Procs,
           NEW hits \in IF API(p) THEN Reranked(Fused(work[p].named, work[p].dense))
                        ELSE {Fused(work[p].named, work[p].dense)}
    PROVE  /\ hits \in Seq(Ids) /\ Len(hits) <= K
           /\ ToSet(hits) = ToSet(Fused(work[p].named, work[p].dense))
           /\ ToSet(hits) \subseteq ToSet(work[p].named) \cup ToSet(work[p].dense)
           /\ ToSet(hits) \subseteq Ids
<1> DEFINE fused == Fused(work[p].named, work[p].dense)
<1>1. work[p].named \in Seq(Ids) /\ work[p].dense \in Seq(Ids)
  BY Same DEF Works
<1>2. /\ fused \in Seq(Ids) /\ IsInjective(fused) /\ Len(fused) <= K
      /\ ToSet(fused) \subseteq ToSet(work[p].named) \cup ToSet(work[p].dense)
  <2>1. /\ fused \in Seq(Ids) /\ IsInjective(fused)
        /\ ToSet(fused) \subseteq Found(work[p].named, work[p].dense)
    BY <1>1, FusedPlaces
  <2>2. Len(fused) \in 0..K
    BY <1>1, FusedRanked
  <2>3. QED
    BY <2>1, <2>2, PoolType DEF Found
<1> HIDE DEF fused
<1>3. hits \in Reranked(fused) \/ hits = fused
  BY DEF fused
<1>4. hits \in Seq(Ids) /\ Len(hits) <= K /\ ToSet(hits) = ToSet(fused)
  BY <1>2, <1>3, RerankedSame
<1>5. QED
  BY <1>2, <1>4, FoundFinite DEF fused

LEMMA FetchStep ==
    ASSUME ShapeInv, NEW p \in Procs, Fetch(p)
    PROVE  JobStep(p)
<1> DEFINE fused == Fused(work[p].named, work[p].dense)
<1>1. Busy(p) /\ stage[p] = "fetch" /\ UNCHANGED <<store, job, audit>>
  BY DEF Fetch, Busy
<1>2. CASE fused = <<>> /\ Kind(p) # "stream"
  <2> DEFINE r == Result("nohits", 0, "ok", 0)
  <2>1. Answered(p, r) /\ UNCHANGED frames
    BY <1>2 DEF Fetch
  <2>2. r \in Outcomes /\ r.status # "200"
    BY DEF Result, Outcomes, Statuses, Summaries
  <2> HIDE DEF r
  <2>3. QED
    BY <1>1, <2>1, <2>2, AnsweredEnds DEF JobStep, Closes
<1>3. CASE ~(fused = <<>> /\ Kind(p) # "stream")
  <2>1. PICK hits \in IF API(p) THEN Reranked(fused) ELSE {fused} :
           work' = [work EXCEPT ![p] = [Fresh EXCEPT
                                  !.hits = hits, !.texts = Texts(fused)]]
    BY <1>3 DEF Fetch
  <2>2. /\ Goto(p, IF Kind(p) = "stream" THEN "tokens" ELSE "answer")
        /\ frames' = IF Kind(p) = "stream"
                     THEN [frames EXCEPT ![p] = <<"meta">>] ELSE frames
        /\ UNCHANGED <<opened, results>>
    BY <1>3 DEF Fetch
  <2> DEFINE w == [Fresh EXCEPT !.hits = hits, !.texts = Texts(fused)]
  <2>3. hits \in Seq(Ids) /\ Len(hits) <= K
    BY <2>1, HitsType
  <2>4. Texts(fused) \subseteq Ids
    BY DEF Texts, ShapeInv
  <2> HIDE DEF fused
  <2>5. w \in Works /\ w.hits = hits
    BY <2>3, <2>4, Shapes DEF Works
  <2>6. work' = [work EXCEPT ![p] = w]
    BY <2>1
  <2> HIDE DEF w
  <2>7. Len(results[p]) < Len(job[p].items)
    BY <1>1 DEF ShapeInv
  <2>8. CASE Kind(p) = "stream"
    <3>1. Stays(p, "tokens", w, opened[p]) /\ Streams(p, "tokens")
      BY <1>1, <2>2, <2>3, <2>5, <2>6, <2>7, <2>8, Same DEF Stays, Streams, Goto
    <3>2. QED
      BY <1>1, <2>5, <3>1, Same DEF JobStep, Stages
  <2>9. CASE Kind(p) # "stream"
    BY <1>1, <2>2, <2>3, <2>5, <2>6, <2>9, Same, StaysOn DEF Stages
  <2>10. QED
    BY <2>8, <2>9
<1>4. QED
  BY <1>2, <1>3

LEMMA AnswerStep ==
    ASSUME ShapeInv, NEW p \in Procs, Answer(p) \/ Judge(p)
    PROVE  JobStep(p)
<1>1. Busy(p) /\ stage[p] # "tokens"
      /\ UNCHANGED <<store, job, opened, results, frames, audit>>
  BY DEF Answer, Judge, Busy
<1>2. PICK w \in Works : work' = [work EXCEPT ![p] = w] /\ Len(w.hits) <= K
  <2>1. CASE Answer(p)
    <3>1. PICK cited \in BOOLEAN : work' = [work EXCEPT ![p].cited = cited]
      BY <2>1 DEF Answer
    <3>2. /\ work' = [work EXCEPT ![p] = [work[p] EXCEPT !.cited = cited]]
          /\ [work[p] EXCEPT !.cited = cited] \in Works
          /\ [work[p] EXCEPT !.cited = cited].hits = work[p].hits
      BY <3>1, Same DEF Works
    <3>3. QED
      BY <3>2, Same
  <2>2. CASE Judge(p)
    <3>1. PICK v \in Verdicts : work' = [work EXCEPT ![p].verdict = v]
      BY <2>2 DEF Judge
    <3>2. /\ work' = [work EXCEPT ![p] = [work[p] EXCEPT !.verdict = v]]
          /\ [work[p] EXCEPT !.verdict = v] \in Works
          /\ [work[p] EXCEPT !.verdict = v].hits = work[p].hits
      BY <3>1, Same DEF Works
    <3>3. QED
      BY <3>2, Same
  <2>3. QED
    BY <2>1, <2>2
<1>3. Goto(p, "judge") \/ Goto(p, "finish")
  BY DEF Answer, Judge
<1>4. QED
  BY <1>1, <1>2, <1>3, Same, StaysOn DEF Stages

(* What _do_query answers.                                                 *)
LEMMA ResponseType ==
    ASSUME ShapeInv, NEW p \in Procs
    PROVE  /\ ResponseOf(p) \in Outcomes /\ ResponseOf(p).status = "200"
           /\ Record(p, ResponseOf(p)) \in Records
           /\ Record(p, ResponseOf(p)).proc = p
           /\ Record(p, ResponseOf(p)).item = Len(results[p]) + 1
           /\ Record(p, ResponseOf(p)).confidence = ResponseOf(p).confidence
           /\ Record(p, ResponseOf(p)).suspected = ResponseOf(p).suspected
           /\ Record(p, ResponseOf(p)).summary
                 = Recorded(work[p].verdict.ran, ResponseOf(p).summary)
           /\ work[p].verdict.summary \in Summaries
<1>1. work[p] \in Works /\ Len(work[p].hits) \in Nat /\ Len(results[p]) \in Nat
  BY Shapes DEF Works
<1>2. work[p].verdict \in Verdicts \cup {NoVerdict}
  BY <1>1 DEF Works
<1>3. Confidence(work[p].cited, work[p].verdict, Len(work[p].hits)) \in 0..100
  <2> DEFINE n == Len(work[p].hits)
  <2> HIDE DEF n
  <2>1. n \in Nat
    BY <1>1 DEF n
  <2> DEFINE shown == IF 4 * n < 20 THEN 4 * n ELSE 20
             cites == IF work[p].cited THEN 40 ELSE 0
             clears == IF work[p].verdict.ran /\ ~work[p].verdict.issues
                       THEN 40 ELSE 0
  <2>2. shown \in 0..20
    BY <2>1
  <2>3. cites \in {0, 40} /\ clears \in {0, 40}
    OBVIOUS
  <2>4. Confidence(work[p].cited, work[p].verdict, n) = cites + clears + shown
    BY DEF Confidence
  <2> HIDE DEF shown, cites, clears
  <2>5. cites + clears + shown \in 0..100
    BY <2>2, <2>3
  <2>6. QED
    BY <2>4, <2>5 DEF n
<1>4. work[p].verdict.summary \in Summaries
  <2>1. NoVerdict.summary \in Summaries
    BY DEF NoVerdict, Summaries
  <2>2. \A v \in Verdicts : v.summary \in Summaries
    BY DEF Verdicts
  <2>3. QED
    BY <1>2, <2>1, <2>2
<1>5. Suspected(p) \in Nat
  <2>1. IsFiniteSet(ToSet(work[p].hits))
    BY <1>1, FoundFinite DEF Works
  <2>2. ToSet(work[p].hits) \cap work[p].texts \cap Suspicious
          \in SUBSET ToSet(work[p].hits)
    OBVIOUS
  <2>3. Cardinality(ToSet(work[p].hits) \cap work[p].texts \cap Suspicious) \in Nat
    BY <2>1, <2>2, FS_Subset, FS_CardinalityType
  <2>4. QED
    BY <2>3 DEF Suspected
<1>6. ResponseOf(p) \in Outcomes /\ ResponseOf(p).status = "200"
      /\ ResponseOf(p).summary \in Summaries
  BY <1>3, <1>4, <1>5 DEF ResponseOf, Result, Outcomes, Statuses
<1>7. QED
  <2> DEFINE ran == work[p].verdict.ran
             said == ResponseOf(p).summary
  <2>1. Recorded(ran, said) \in {"skipped"} \cup Summaries
    BY <1>6 DEF Recorded, Summaries
  <2> HIDE DEF ran, said
  <2>2. QED
    BY <1>1, <1>4, <1>6, <2>1 DEF Record, Records, Outcomes, ran, said

LEMMA FinishStep ==
    ASSUME ShapeInv, NEW p \in Procs, Finish(p) \/ FinishCommand(p) \/ FinishRow(p)
    PROVE  JobStep(p)
<1>1. Busy(p) /\ UNCHANGED <<store, job, frames>>
  BY DEF Finish, FinishCommand, FinishRow, Busy
<1>2. CASE Finish(p)
  <2>1. Ends(p, ResponseOf(p))
    BY <1>1, <1>2, AnsweredEnds DEF Finish
  <2>2. ResponseOf(p) \in Outcomes /\ Record(p, ResponseOf(p)) \in Records
    BY ResponseType
  <2>3. Closes(p, ResponseOf(p))
    BY <1>1, <1>2, <2>2 DEF Finish, Closes
  <2>4. QED
    BY <1>1, <2>1, <2>2, <2>3 DEF JobStep
<1>3. CASE FinishCommand(p)
  <2> DEFINE r == Result("200", 0, work[p].verdict.summary, 0)
  <2>1. Answered(p, r) /\ Kind(p) = "cli" /\ stage[p] = "finish"
        /\ UNCHANGED audit
    BY <1>3 DEF FinishCommand
  <2>2. work[p].verdict.summary \in Summaries
    BY ResponseType
  <2>3. r \in Outcomes
    BY <2>2 DEF Result, Outcomes, Statuses
  <2> HIDE DEF r
  <2>4. Ends(p, r) /\ Closes(p, r)
    BY <1>1, <2>1, AnsweredEnds DEF Closes
  <2>5. QED
    BY <1>1, <2>3, <2>4 DEF JobStep
<1>4. CASE FinishRow(p)
  <2>1. PICK covered \in BOOLEAN : Answered(p, Row(p, covered))
    BY <1>4 DEF FinishRow
  <2>2. Row(p, covered) \in Outcomes /\ Row(p, covered).status # "200"
    BY DEF Row, Result, Outcomes, Statuses, Summaries
  <2>3. Ends(p, Row(p, covered)) /\ Closes(p, Row(p, covered))
    BY <1>1, <1>4, <2>1, <2>2, AnsweredEnds DEF FinishRow, Closes
  <2>4. QED
    BY <1>1, <2>2, <2>3 DEF JobStep
<1>5. QED
  BY <1>2, <1>3, <1>4

LEMMA StreamStep ==
    ASSUME ShapeInv, NEW p \in Procs,
           Token(p) \/ StreamFails(p) \/ StreamDone(p) \/ StreamCloses(p)
    PROVE  JobStep(p)
<1>1. Busy(p) /\ stage[p] = "tokens" /\ UNCHANGED <<store, job, audit>>
  BY DEF Token, StreamFails, StreamDone, StreamCloses, Busy
<1>2. CASE Token(p)
  <2>1. Len(results[p]) < Len(job[p].items)
    BY <1>1 DEF ShapeInv
  <2>2. stage = [stage EXCEPT ![p] = "tokens"]
    BY <1>1 DEF ShapeInv
  <2>3. Stays(p, "tokens", work[p], opened[p])
    BY <1>2, <2>1, <2>2, Same DEF Token, Stays
  <2>4. Streams(p, "tokens")
    BY <1>1, <1>2 DEF Token, Frame, Streams
  <2>5. QED
    BY <1>1, <2>3, <2>4, Same DEF JobStep, Stages
<1>3. CASE StreamFails(p)
  <2>1. Failure("error") \in Outcomes
    BY DEF Failure, Result, Outcomes, Statuses
  <2>2. Ends(p, Failure("error")) /\ Closes(p, Failure("error"))
    BY <1>1, <1>3, AnsweredEnds DEF StreamFails, Frame, Closes
  <2>3. QED
    BY <1>1, <2>1, <2>2 DEF JobStep
<1>4. CASE StreamDone(p)
  <2> DEFINE r == Result("200", 0, "ok", 0)
  <2>1. r \in Outcomes
    BY DEF Result, Outcomes, Statuses, Summaries
  <2> HIDE DEF r
  <2>2. Answered(p, r)
    BY <1>4 DEF StreamDone, r
  <2>3. Ends(p, r) /\ Closes(p, r)
    BY <1>1, <1>4, <2>2, AnsweredEnds DEF StreamDone, Frame, Closes
  <2>4. QED
    BY <1>1, <2>1, <2>3 DEF JobStep
<1>5. CASE StreamCloses(p)
  <2>1. Failure("closed") \in Outcomes /\ Failure("closed").status = "closed"
    BY DEF Failure, Result, Outcomes, Statuses
  <2>2. Ends(p, Failure("closed")) /\ Closes(p, Failure("closed"))
    BY <1>1, <1>5, <2>1, AnsweredEnds DEF StreamCloses, Closes
  <2>3. QED
    BY <1>1, <2>1, <2>2 DEF JobStep
<1>6. QED
  BY <1>2, <1>3, <1>4, <1>5

(* A step of the system, as the invariants see it: nothing but a fault is   *)
(* counted or a message posted, an indexing process goes on, a job does, or *)
(* an event is not asked of the API.                                       *)
Quiet == UNCHANGED <<store, job, stage, opened, work, results, frames, audit>>

Skips(p) ==
    /\ stage[p] = "start" /\ FromSlack(p)
    /\ Goto(p, "done")
    /\ UNCHANGED <<store, job, opened, work, results, frames, audit>>

LEMMA JobSteps ==
    ASSUME ShapeInv, NEW p \in Procs, Retrieve(p) \/ Generate(p)
    PROVE  JobStep(p)
<1>1. CASE Retrieve(p)
  BY <1>1, StartStep, OpenStep, LoadIndexStep, LoadMetaStep, DenseStep, FetchStep
     DEF Retrieve
<1>2. CASE Generate(p)
  BY <1>2, OpenStep, AnswerStep, FinishStep, StreamStep DEF Generate
<1>3. QED
  BY <1>1, <1>2

LEMMA Working ==
    ASSUME NEW p, Retrieve(p) \/ Generate(p)
    PROVE  stage[p] # "done"
<1>1. CASE Retrieve(p)
  BY <1>1 DEF Retrieve, Start, Open, EmbedderFails, LoadIndex, LoadMeta, Dense, Fetch
<1>2. CASE Generate(p)
  BY <1>2 DEF Generate, Answer, ModelFails, Judge, JudgeOdd, Finish, FinishCommand,
              FinishRow, Token, StreamFails, StreamDone, StreamCloses
<1>3. QED
  BY <1>1, <1>2

LEMMA Steps ==
    ASSUME [SlackNext]_<<vars, slack>>
    PROVE  \/ Quiet \/ Save
           \/ \E p \in Procs : Retrieve(p) \/ Generate(p) \/ Skips(p)
<1>1. CASE UNCHANGED <<vars, slack>>
  BY <1>1 DEF vars, Quiet
<1>2. CASE Next
  BY <1>2 DEF Next
<1>3. ASSUME NEW p \in Procs, Handles(p) \/ TimesOut(p)
      PROVE  Quiet \/ Skips(p)
  BY <1>3 DEF Handles, TimesOut, NotAsked, Replies, vars, Quiet, Skips
<1>4. QED
  BY <1>1, <1>2, <1>3 DEF SlackNext

(* A step of one job leaves the others alone.                              *)
LEMMA Others ==
    ASSUME ShapeInv, NEW p \in Procs, JobStep(p) \/ Skips(p)
    PROVE  /\ UNCHANGED <<store, job>>
           /\ \A q \in Procs \ {p} :
                 UNCHANGED <<stage[q], opened[q], work[q], results[q], frames[q]>>
<1> SUFFICES ASSUME NEW q \in Procs \ {p}
             PROVE  /\ UNCHANGED <<store, job>>
                    /\ UNCHANGED <<stage[q], opened[q], work[q], results[q], frames[q]>>
  BY DEF JobStep, Skips
<1>1. CASE Skips(p)
  BY <1>1 DEF Skips, Goto, ShapeInv
<1>2. ASSUME NEW s, NEW w, NEW o, Stays(p, s, w, o), Streams(p, s)
      PROVE  UNCHANGED <<stage[q], opened[q], work[q], results[q], frames[q]>>
  BY <1>2 DEF Stays, Streams, ShapeInv
<1>3. ASSUME NEW r, Ends(p, r), Closes(p, r)
      PROVE  UNCHANGED <<stage[q], opened[q], work[q], results[q], frames[q]>>
  <2>1. UNCHANGED <<stage[q], work[q], results[q]>>
    BY <1>3 DEF Ends, ShapeInv
  <2>2. opened'[q] = opened[q]
    BY <1>3, Shapes DEF Ends
  <2>3. frames'[q] = frames[q]
    BY <1>3 DEF Closes, ShapeInv
  <2>4. QED
    BY <2>1, <2>2, <2>3
<1>4. QED
  BY <1>1, <1>2, <1>3 DEF JobStep
-------------------------------------------------------------------------------
(* The state keeps its shape.                                              *)

LEMMA ShapeInit == SlackInit => ShapeInv
<1> SUFFICES ASSUME SlackInit PROVE ShapeInv
  OBVIOUS
<1>1. chroma = {} /\ index = Pickle(FALSE, <<>>) /\ meta = Pickle(FALSE, <<>>)
      /\ saver = [step |-> "idle", ids |-> <<>>] /\ cut = FALSE
  BY DEF SlackInit, Init
<1>2. /\ index \in Pickles /\ meta \in Pickles
      /\ saver \in [step : SaverSteps, ids : Saved]
  BY <1>1 DEF Pickle, Pickles, Saved, SaverSteps
<1>3. /\ job \in [Procs -> Jobs]
      /\ stage = [p \in Procs |-> "start"]
      /\ opened = [p \in Procs |-> Unread]
      /\ work = [p \in Procs |-> Fresh]
      /\ results = [p \in Procs |-> <<>>]
      /\ frames = [p \in Procs |-> <<>>]
      /\ audit = <<>>
  BY DEF SlackInit, Init
<1>4. Fresh \in Works /\ Len(Fresh.hits) = 0 /\ Unread \in Opened
  BY DEF Fresh, Works, Unread, Opened, Saved
<1>5. \A p \in Procs : job[p].items \in Seq(Item)
  BY <1>3, QueryAssumption
<1>6. \A p \in Procs :
         /\ Len(results[p]) <= Len(job[p].items)
         /\ ~Busy(p) /\ results[p] = <<>>
         /\ Len(work[p].hits) <= K
  BY <1>3, <1>4, <1>5, RetrievalAssumption DEF Busy
<1>7. stage \in [Procs -> Stages]
  BY <1>3 DEF Stages
<1>8. QED
  <2>1. /\ opened \in [Procs -> Opened] /\ work \in [Procs -> Works]
        /\ results \in [Procs -> Seq(Outcomes)] /\ frames \in [Procs -> Seq(FrameKinds)]
        /\ audit \in Seq(Records)
    BY <1>3, <1>4
  <2>2. chroma \subseteq Ids /\ cut \in BOOLEAN
    BY <1>1
  <2>3. QED
    BY <1>2, <1>3, <1>6, <1>7, <2>1, <2>2 DEF ShapeInv

LEMMA ShapeJob ==
    ASSUME ShapeInv, NEW p \in Procs, JobStep(p)
    PROVE  ShapeInv'
<1>1. UNCHANGED <<chroma, index, meta, cut, saver, job>>
  BY DEF JobStep, store
<1>2. CASE \E s \in Stages, w \in Works, o \in Opened : Stays(p, s, w, o) /\ Streams(p, s)
  <2>1. PICK s \in Stages, w \in Works, o \in Opened : Stays(p, s, w, o) /\ Streams(p, s)
    BY <1>2
  <2>2. /\ stage' \in [Procs -> Stages] /\ stage'[p] = s
        /\ \A q \in Procs \ {p} : stage'[q] = stage[q]
    BY <2>1 DEF ShapeInv, Stays
  <2>3. /\ work' \in [Procs -> Works] /\ work'[p] = w
        /\ \A q \in Procs \ {p} : work'[q] = work[q]
    BY <2>1 DEF ShapeInv, Stays
  <2>4. opened' \in [Procs -> Opened] /\ UNCHANGED <<results, audit>>
    BY <2>1 DEF ShapeInv, Stays
  <2>5. frames' \in [Procs -> Seq(FrameKinds)]
    <3>1. frames \in [Procs -> Seq(FrameKinds)]
      BY DEF ShapeInv
    <3>2. <<"meta">> \in Seq(FrameKinds) /\ Append(frames[p], "token") \in Seq(FrameKinds)
      BY <3>1 DEF FrameKinds
    <3>3. QED
      BY <2>1, <3>1, <3>2 DEF Streams
  <2>6. /\ s # "start" /\ Len(w.hits) <= K
        /\ IF s = "done" THEN job[p].items = <<>> /\ results[p] = <<>>
           ELSE Len(results[p]) < Len(job[p].items)
    BY <2>1 DEF Stays
  <2>7. ASSUME NEW q \in Procs
        PROVE  /\ Len(results'[q]) <= Len(job'[q].items)
               /\ Busy(q)' => Len(results'[q]) < Len(job'[q].items)
               /\ stage'[q] = "start" => results'[q] = <<>>
               /\ Len(work'[q].hits) <= K
    <3>1. CASE q = p
      BY <1>1, <2>2, <2>3, <2>4, <2>6, <3>1, Shapes DEF Busy
    <3>2. CASE q # p
      BY <1>1, <2>2, <2>3, <2>4, <3>2 DEF ShapeInv, Busy
    <3>3. QED
      BY <3>1, <3>2
  <2>8. QED
    BY <1>1, <2>2, <2>3, <2>4, <2>5, <2>7 DEF ShapeInv
<1>3. CASE \E r \in Outcomes : Ends(p, r) /\ Closes(p, r)
  <2>1. PICK r \in Outcomes : Ends(p, r) /\ Closes(p, r)
    BY <1>3
  <2>2. PICK s \in {"open", "done"} :
          /\ stage' = [stage EXCEPT ![p] = s]
          /\ s = "open" => Len(results[p]) + 1 < Len(job[p].items)
    BY <2>1 DEF Ends
  <2>3. stage' \in [Procs -> Stages] /\ stage'[p] = s
        /\ \A q \in Procs \ {p} : stage'[q] = stage[q]
    BY <2>2 DEF ShapeInv, Stages
  <2>4. /\ work' \in [Procs -> Works] /\ work'[p] = Fresh
        /\ \A q \in Procs \ {p} : work'[q] = work[q]
    BY <2>1, Shapes DEF ShapeInv, Ends
  <2>5. opened' \in [Procs -> Opened]
    BY <2>1, Shapes DEF Ends
  <2>6. /\ results' \in [Procs -> Seq(Outcomes)] /\ Len(results'[p]) = Len(results[p]) + 1
        /\ \A q \in Procs \ {p} : results'[q] = results[q]
    BY <2>1 DEF ShapeInv, Ends
  <2>7. frames' \in [Procs -> Seq(FrameKinds)]
    <3>1. frames \in [Procs -> Seq(FrameKinds)]
      BY DEF ShapeInv
    <3>2. \A f \in {"done", "error"} : Append(frames[p], f) \in Seq(FrameKinds)
      BY <3>1 DEF FrameKinds
    <3>3. QED
      BY <2>1, <3>1, <3>2 DEF Closes
  <2>8. audit' \in Seq(Records)
    <3>1. audit \in Seq(Records)
      BY DEF ShapeInv
    <3>2. CASE UNCHANGED audit
      BY <3>1, <3>2
    <3>3. CASE audit' = Append(audit, Record(p, r)) /\ Record(p, r) \in Records
      BY <3>1, <3>3
    <3>4. QED
      BY <2>1, <3>2, <3>3 DEF Closes
  <2>9. Len(results[p]) < Len(job[p].items)
    BY <2>1 DEF Ends
  <2>10. ASSUME NEW q \in Procs
         PROVE  /\ Len(results'[q]) <= Len(job'[q].items)
                /\ Busy(q)' => Len(results'[q]) < Len(job'[q].items)
                /\ stage'[q] = "start" => results'[q] = <<>>
                /\ Len(work'[q].hits) <= K
    <3>1. CASE q = p
      BY <1>1, <2>2, <2>3, <2>4, <2>6, <2>9, <3>1, Shapes DEF Busy
    <3>2. CASE q # p
      BY <1>1, <2>3, <2>4, <2>6, <3>2 DEF ShapeInv, Busy
    <3>3. QED
      BY <3>1, <3>2
  <2>11. QED
    BY <1>1, <2>3, <2>4, <2>5, <2>6, <2>7, <2>8, <2>10 DEF ShapeInv
<1>4. QED
  BY <1>2, <1>3 DEF JobStep

LEMMA SaveShape ==
    ASSUME ShapeInv, Save
    PROVE  /\ ShapeInv' /\ UNCHANGED readers /\ UNCHANGED job
           /\ chroma \subseteq chroma'
<1>1. UNCHANGED readers
  BY DEF Save, SaverStarts, SaverUpserts, SaverOpensIndex, SaverDumpsIndex,
         SaverOpensMeta, SaverDumpsMeta, SaverCrashes
<1>2. opened' \in [Procs -> Opened]
  <2>1. CASE opened' = opened
    BY <2>1 DEF ShapeInv
  <2>2. CASE Disturb
    BY <2>2 DEF Disturb, ShapeInv, Opened
  <2>3. QED
    BY <2>1, <2>2 DEF Save, SaverStarts, SaverUpserts, SaverOpensIndex, SaverDumpsIndex,
         SaverOpensMeta, SaverDumpsMeta, SaverCrashes
<1>3. /\ saver' \in [step : SaverSteps, ids : Saved]
      /\ index' \in Pickles /\ meta' \in Pickles /\ cut' \in BOOLEAN
  <2>1. CASE SaverStarts
    BY <2>1 DEF SaverStarts, ShapeInv, SaverSteps, Saved
  <2>2. CASE SaverUpserts \/ SaverCrashes
    BY <2>2 DEF SaverUpserts, SaverCrashes, ShapeInv, SaverSteps
  <2>3. CASE SaverOpensIndex \/ SaverOpensMeta
    <3>1. Torn \in Pickles
      BY DEF Torn, Pickle, Pickles, Saved
    <3>2. QED
      BY <2>3, <3>1 DEF SaverOpensIndex, SaverOpensMeta, ShapeInv, SaverSteps
  <2>4. CASE SaverDumpsIndex \/ SaverDumpsMeta
    <3>1. saver \in [step : SaverSteps, ids : Saved]
      BY DEF ShapeInv
    <3>2. Pickle(FALSE, saver.ids) \in Pickles
      BY <3>1 DEF Pickle, Pickles
    <3>3. QED
      BY <2>4, <3>1, <3>2 DEF SaverDumpsIndex, SaverDumpsMeta, ShapeInv, SaverSteps
  <2>5. QED
    BY <2>1, <2>2, <2>3, <2>4 DEF Save
<1>4. chroma' \subseteq Ids /\ chroma \subseteq chroma'
  <2>1. CASE SaverUpserts
    <3>1. saver.ids \in Seq(Ids)
      BY SavedType DEF ShapeInv
    <3>2. QED
      BY <2>1, <3>1, FoundFinite DEF SaverUpserts, ShapeInv
  <2>2. CASE chroma' = chroma
    BY <2>2 DEF ShapeInv
  <2>3. QED
    BY <2>1, <2>2 DEF Save, SaverStarts, SaverOpensIndex, SaverDumpsIndex,
         SaverOpensMeta, SaverDumpsMeta, SaverCrashes
<1>5. QED
  BY <1>1, <1>2, <1>3, <1>4 DEF ShapeInv, readers, Busy

LEMMA ShapeStep ==
    ASSUME ShapeInv, [SlackNext]_<<vars, slack>>
    PROVE  ShapeInv'
<1>1. CASE Quiet
  BY <1>1 DEF Quiet, store, ShapeInv, Busy
<1>2. CASE Save
  BY <1>2, SaveShape
<1>3. ASSUME NEW p \in Procs, JobStep(p) PROVE ShapeInv'
  BY <1>3, ShapeJob
<1>4. ASSUME NEW p \in Procs, Skips(p) PROVE ShapeInv'
  <2>1. UNCHANGED <<chroma, index, meta, cut, saver, job, opened, work, results,
                    frames, audit>>
    BY <1>4 DEF Skips, store
  <2>2. stage' = [stage EXCEPT ![p] = "done"]
    BY <1>4 DEF Skips, Goto
  <2>3. stage' \in [Procs -> Stages] /\ stage'[p] = "done"
        /\ \A q \in Procs \ {p} : stage'[q] = stage[q]
    BY <2>2 DEF ShapeInv, Stages
  <2>4. QED
    BY <2>1, <2>3 DEF ShapeInv, Busy
<1>5. QED
  BY <1>1, <1>2, <1>3, <1>4, JobSteps, Steps
-------------------------------------------------------------------------------
(* Every item is answered, and every stream ends once.                     *)

LEMMA Typed == ShapeInv => TypeOK
<1> SUFFICES ASSUME ShapeInv PROVE TypeOK
  OBVIOUS
<1>1. /\ chroma \subseteq Ids /\ job \in [Procs -> Jobs] /\ stage \in [Procs -> Stages]
      /\ {index.torn, meta.torn, cut} \subseteq BOOLEAN
      /\ {index.ids, meta.ids, saver.ids} \subseteq Corpora \cup {<<>>}
  BY DEF ShapeInv, Pickles, Saved
<1>2. ASSUME NEW p \in Procs
      PROVE  /\ {opened[p].corpus, opened[p].meta} \subseteq Corpora \cup {<<>>}
             /\ Len(work[p].hits) <= K /\ ToSet(work[p].hits) \subseteq Ids
             /\ Len(results[p]) <= Len(job[p].items)
             /\ stage[p] \notin {"start", "done"} =>
                   Len(results[p]) < Len(job[p].items)
  <2>1. {opened[p].corpus, opened[p].meta} \subseteq Corpora \cup {<<>>}
    BY DEF ShapeInv, Opened, Saved
  <2>2. ToSet(work[p].hits) \subseteq Ids
    <3>1. work[p].hits \in Seq(Ids)
      BY Same DEF Works
    <3>2. QED
      BY <3>1, FoundFinite
  <2>3. QED
    BY <2>1, <2>2 DEF ShapeInv, Busy
<1>3. \A i \in DOMAIN audit : audit[i].confidence \in 0..100
  <2>1. \A i \in DOMAIN audit : audit[i] \in Records
    BY DEF ShapeInv
  <2>2. QED
    BY <2>1 DEF Records
<1>4. QED
  BY <1>1, <1>2, <1>3 DEF TypeOK

LEMMA WholeStays ==
    ASSUME NEW q, Whole(q), UNCHANGED <<job, stage[q], results[q], frames[q]>>
    PROVE  Whole(q)'
  BY DEF Whole, BatchWhole, StreamFramed, Kind

LEMMA WholeJob ==
    ASSUME ShapeInv, WholeInv, NEW p \in Procs, stage[p] # "done", JobStep(p)
    PROVE  WholeInv'
<1>1. job' = job /\ Whole(p)
  BY DEF JobStep, WholeInv
<1>2. ASSUME NEW q \in Procs \ {p} PROVE Whole(q)'
  BY <1>1, Others, WholeStays DEF WholeInv
<1>3. frames[p] \in Seq(FrameKinds) /\ Kind(p)' = Kind(p)
  BY <1>1 DEF ShapeInv, Kind
<1>4. CASE \E s \in Stages, w \in Works, o \in Opened : Stays(p, s, w, o) /\ Streams(p, s)
  <2>1. PICK s \in Stages, w \in Works, o \in Opened : Stays(p, s, w, o) /\ Streams(p, s)
    BY <1>4
  <2>2. stage'[p] = s /\ results'[p] = results[p]
    BY <2>1 DEF Stays, ShapeInv
  <2>3. BatchWhole(p)'
    <3>1. s = "done" => Len(results[p]) = Len(job[p].items)
      BY <2>1 DEF Stays
    <3>2. QED
      BY <1>1, <2>2, <3>1 DEF BatchWhole
  <2>4. CASE s # "tokens" /\ stage[p] # "tokens" /\ UNCHANGED frames
    <3>1. stage[p] # "done" /\ frames[p] = <<>> /\ frames'[p] = <<>>
      BY <1>1, <2>4 DEF Whole
    <3>2. Whole(p)'
      BY <2>2, <2>3, <2>4, <3>1 DEF Whole, StreamFramed
    <3>3. QED
      BY <1>2, <3>2 DEF WholeInv
  <2>5. CASE /\ s = "tokens" /\ stage[p] = "fetch" /\ Kind(p) = "stream"
             /\ frames' = [frames EXCEPT ![p] = <<"meta">>]
    <3>1. frames'[p] = <<"meta">>
      BY <2>5 DEF ShapeInv
    <3>2. StreamFramed(p)'
      BY <2>2, <2>5, <3>1 DEF StreamFramed
    <3>3. QED
      BY <1>2, <1>3, <2>2, <2>3, <2>5, <3>1, <3>2 DEF Whole, WholeInv
  <2>6. CASE /\ s = "tokens" /\ stage[p] = "tokens"
             /\ frames' = [frames EXCEPT ![p] = Append(@, "token")]
    <3>1. frames'[p] = Append(frames[p], "token") /\ frames[p] # <<>>
      BY <1>1, <2>6 DEF ShapeInv, Whole
    <3>2. \A i \in DOMAIN frames[p] :
             (frames[p][i] = "meta" <=> i = 1) /\ frames[p][i] \notin {"done", "error"}
      BY <1>1, <2>6 DEF Whole, StreamFramed
    <3>3. StreamFramed(p)'
      BY <1>3, <2>2, <2>6, <3>1, <3>2 DEF StreamFramed
    <3>4. frames'[p] # <<>>
      BY <1>3, <3>1
    <3>5. QED
      BY <1>1, <1>2, <1>3, <2>2, <2>3, <2>6, <3>3, <3>4 DEF Whole, WholeInv
  <2>7. QED
    BY <1>2, <2>1, <2>4, <2>5, <2>6 DEF Streams, WholeInv
<1>5. CASE \E r \in Outcomes : Ends(p, r) /\ Closes(p, r)
  <2>1. PICK r \in Outcomes : Ends(p, r) /\ Closes(p, r)
    BY <1>5
  <2>2. PICK s \in {"open", "done"} :
          /\ stage' = [stage EXCEPT ![p] = s]
          /\ s = "open" => Len(results[p]) + 1 < Len(job[p].items)
          /\ s = "done" /\ Kind(p) = "bulk" /\ Len(job[p].items) <= MaxBulk =>
                Len(results[p]) + 1 = Len(job[p].items)
    BY <2>1 DEF Ends
  <2>3. stage'[p] = s /\ results'[p] = Append(results[p], r)
    BY <2>1, <2>2 DEF Ends, ShapeInv
  <2>4. Len(results'[p]) = Len(results[p]) + 1
    BY <2>3, Shapes
  <2>5. BatchWhole(p)'
    BY <1>1, <1>3, <2>2, <2>3, <2>4 DEF BatchWhole
  <2>6. stage[p] = "tokens" => s = "done"
    <3>1. Kind(p) = "stream" => Len(job[p].items) = 1
      BY Shapes DEF Evals
    <3>2. QED
      <4> DEFINE n == Len(results[p])
                 all == Len(job[p].items)
      <4>1. n \in Nat
        BY Shapes
      <4>2. stage[p] = "tokens" => all = 1
        BY <1>1, <3>1 DEF Whole
      <4>3. s = "open" => n + 1 < all
        BY <2>2
      <4> HIDE DEF n, all
      <4>4. all = 1 => ~(n + 1 < all)
        BY <4>1
      <4>5. QED
        BY <4>2, <4>3, <4>4
  <2>7. /\ stage[p] = "tokens" => frames[p] # <<>>
        /\ stage[p] # "tokens" => frames[p] = <<>>
        /\ \A i \in DOMAIN frames[p] :
             (frames[p][i] = "meta" <=> i = 1) /\ frames[p][i] \notin {"done", "error"}
    BY <1>1 DEF Whole, StreamFramed
  <2>8. CASE /\ frames'[p] = frames[p]
             /\ stage[p] = "tokens" => r.status = "closed"
    <3>1. frames'[p] # <<>> => Last(results'[p]).status = "closed"
      BY <2>3, <2>4, <2>7, <2>8, Shapes DEF Last
    <3>2. StreamFramed(p)'
      BY <2>7, <2>8, <3>1 DEF StreamFramed
    <3>3. QED
      BY <1>2, <2>3, <2>5, <2>6, <2>7, <2>8, <3>2 DEF Whole, WholeInv
  <2>9. CASE /\ stage[p] = "tokens"
             /\ \E f \in {"done", "error"} : frames'[p] = Append(frames[p], f)
    <3>1. Last(frames'[p]) \in {"done", "error"}
      BY <1>3, <2>9 DEF Last
    <3>2. StreamFramed(p)'
      BY <1>3, <2>3, <2>6, <2>7, <2>9, <3>1 DEF StreamFramed
    <3>3. QED
      BY <1>2, <2>3, <2>5, <2>6, <2>9, <3>2 DEF Whole, WholeInv
  <2>10. QED
    BY <2>1, <2>8, <2>9 DEF Closes, ShapeInv
<1>6. QED
  BY <1>4, <1>5 DEF JobStep

LEMMA WholeStep ==
    ASSUME ShapeInv, WholeInv, [SlackNext]_<<vars, slack>>
    PROVE  WholeInv'
<1>1. CASE Quiet
  BY <1>1, WholeStays DEF Quiet, WholeInv
<1>2. CASE Save
  BY <1>2, SaveShape, WholeStays DEF readers, WholeInv
<1>3. ASSUME NEW p \in Procs, Skips(p) PROVE WholeInv'
  <2>1. ASSUME NEW q \in Procs \ {p} PROVE Whole(q)'
    BY <1>3, <2>1, Others, WholeStays DEF WholeInv
  <2>2. job' = job /\ frames' = frames /\ results' = results
        /\ stage'[p] = "done" /\ stage[p] = "start" /\ Kind(p)' # "bulk"
    BY <1>3 DEF Skips, Goto, ShapeInv, FromSlack, Kind
  <2>3. frames[p] = <<>>
    BY <2>2 DEF WholeInv, Whole
  <2>4. Whole(p)'
    BY <2>2, <2>3 DEF Whole, BatchWhole, StreamFramed
  <2>5. QED
    BY <2>1, <2>4 DEF WholeInv
<1>4. QED
  BY <1>1, <1>2, <1>3, WholeJob, JobSteps, Working, Steps

LEMMA WholeInit == SlackInit => WholeInv
<1> SUFFICES ASSUME SlackInit, NEW p \in Procs PROVE Whole(p)
  BY DEF WholeInv
<1>1. stage[p] = "start" /\ frames[p] = <<>>
  BY DEF SlackInit, Init
<1>2. QED
  BY <1>1 DEF Whole, BatchWhole, StreamFramed

(* Each item of a bulk query has its answer when the query is done, a       *)
(* stream has its hits first and one frame that ends it, last, unless the   *)
(* client has left, and every variable keeps its shape, whatever fails and *)
(* whatever is indexed on the way (query_bulk, query_stream, event_iter).  *)
THEOREM Complete == SlackSpec => []AnswersWhole
<1>1. SlackInit => ShapeInv /\ WholeInv
  BY ShapeInit, WholeInit
<1>2. ShapeInv /\ WholeInv /\ [SlackNext]_<<vars, slack>> => ShapeInv' /\ WholeInv'
  BY ShapeStep, WholeStep
<1>3. ShapeInv /\ WholeInv => AnswersWhole
  BY Typed DEF WholeInv, Whole, AnswersWhole
<1>4. QED
  BY <1>1, <1>2, <1>3, PTL DEF SlackSpec
-------------------------------------------------------------------------------
(* Each answer of _do_query has its record.                                *)

LEMMA JudgedInit == SlackInit => JudgedInv
  BY DEF SlackInit, Init, JudgedInv, Judged, Fresh, NoVerdict

LEMMA JudgedSame ==
    ASSUME NEW q, Judged(q), UNCHANGED <<job, stage[q], work[q], results[q]>>
    PROVE  Judged(q)'
  BY DEF Judged, Guarded, Kind, Current

(* A step of p itself.                                                     *)
LEMMA JudgedOwn ==
    ASSUME ShapeInv, NEW p \in Procs, Judged(p), Retrieve(p) \/ Generate(p)
    PROVE  Judged(p)'
<1> DEFINE Unjudged == ~work'[p].verdict.ran /\ stage'[p] \notin {"judge", "finish"}
<1>1. Unjudged => Judged(p)'
  BY DEF Judged
<1>2. stage \in [Procs -> Stages] /\ work \in [Procs -> Works] /\ ~Fresh.verdict.ran
  BY DEF ShapeInv, Fresh, NoVerdict
<1>3. ASSUME NEW s \in Stages \ {"judge", "finish"}, Goto(p, s), ~work'[p].verdict.ran
      PROVE  Unjudged
  BY <1>2, <1>3 DEF Goto
<1>4. ASSUME NEW s \in {"open", "done"}, Goto(p, s), work' = [work EXCEPT ![p] = Fresh]
      PROVE  Unjudged
  BY <1>2, <1>4 DEF Goto
<1>5. ASSUME NEW r, Answered(p, r) PROVE Unjudged
  BY <1>4, <1>5 DEF Answered
<1>6. ASSUME NEW status, FailWhole(p, status) PROVE Unjudged
  BY <1>4, <1>6 DEF FailWhole
<1>7. ASSUME NEW status, Fail(p, status) PROVE Unjudged
  BY <1>5, <1>6, <1>7 DEF Fail
<1> HIDE DEF Unjudged
<1>8. stage[p] # "finish" => ~work[p].verdict.ran
  BY DEF Judged
<1>9. CASE Start(p)
  <2>1. stage[p] = "start"
    BY <1>9 DEF Start
  <2>2. CASE UNCHANGED work /\ (Goto(p, "done") \/ Goto(p, "open"))
    BY <1>1, <1>3, <1>8, <2>1, <2>2 DEF Stages
  <2>3. QED
    BY <1>1, <1>6, <1>9, <2>2 DEF Start
<1>10. CASE Open(p)
  <2>1. CASE UNCHANGED work /\ Goto(p, "index") /\ stage[p] = "open"
    BY <1>1, <1>3, <1>8, <2>1 DEF Stages
  <2>2. QED
    BY <1>1, <1>7, <1>10, <2>1 DEF Open
<1>11. CASE EmbedderFails(p) \/ ModelFails(p) \/ JudgeOdd(p)
  BY <1>1, <1>7, <1>11 DEF EmbedderFails, ModelFails, JudgeOdd
<1>12. CASE LoadIndex(p)
  <2>1. CASE UNCHANGED work /\ Goto(p, "meta") /\ stage[p] = "index"
    BY <1>1, <1>3, <1>8, <2>1 DEF Stages
  <2>2. QED
    BY <1>1, <1>7, <1>12, <2>1 DEF LoadIndex
<1>13. CASE LoadMeta(p)
  <2>1. ASSUME NEW order, NEW named, Goto(p, "dense"), stage[p] = "meta",
               work' = [work EXCEPT ![p].order = order, ![p].named = named]
        PROVE  Unjudged
    <3>1. work'[p].verdict = work[p].verdict
      BY <1>2, <2>1 DEF Works
    <3>2. QED
      BY <1>3, <1>8, <2>1, <3>1 DEF Stages
  <2>2. QED
    BY <1>1, <1>7, <1>13, <2>1 DEF LoadMeta
<1>14. CASE Dense(p)
  <2>1. PICK s : work' = [work EXCEPT ![p] = [Fresh EXCEPT !.named = work[p].named,
                                                          !.dense = s]]
    BY <1>14 DEF Dense
  <2>2. ~work'[p].verdict.ran
    BY <1>2, <2>1 DEF Fresh
  <2>3. QED
    BY <1>1, <1>3, <1>14, <2>2 DEF Dense, Stages
<1>15. CASE Fetch(p)
  <2>1. ASSUME NEW hits, NEW texts, Goto(p, "tokens") \/ Goto(p, "answer"),
               work' = [work EXCEPT ![p] = [Fresh EXCEPT !.hits = hits, !.texts = texts]]
        PROVE  Unjudged
    <3>1. ~work'[p].verdict.ran
      BY <1>2, <2>1 DEF Fresh
    <3>2. QED
      BY <1>3, <2>1, <3>1 DEF Stages
  <2>2. QED
    BY <1>1, <1>5, <1>15, <2>1 DEF Fetch
<1>16. CASE Answer(p)
  <2>1. PICK cited \in BOOLEAN : work' = [work EXCEPT ![p].cited = cited]
    BY <1>16 DEF Answer
  <2>2. ~work'[p].verdict.ran
    BY <1>2, <1>8, <1>16, <2>1 DEF Answer, Works
  <2>3. Guarded(p)' <=> Guarded(p)
    BY <1>16 DEF Answer, Guarded, Kind, Current
  <2>4. QED
    BY <1>2, <1>16, <2>2, <2>3 DEF Answer, Goto, Judged
<1>17. CASE Judge(p)
  <2>1. PICK v \in Verdicts : work' = [work EXCEPT ![p].verdict = v]
    BY <1>17 DEF Judge
  <2>2. work'[p].verdict.ran
    BY <1>2, <2>1 DEF Verdicts, Works
  <2>3. Guarded(p)
    BY <1>17 DEF Judge, Judged
  <2>4. Guarded(p)'
    BY <1>17, <2>3 DEF Judge, Guarded, Kind, Current
  <2>5. QED
    BY <1>2, <1>17, <2>2, <2>4 DEF Judge, Goto, Judged
<1>18. CASE Finish(p) \/ FinishCommand(p) \/ FinishRow(p)
  BY <1>1, <1>5, <1>18 DEF Finish, FinishCommand, FinishRow
<1>19. CASE Token(p)
  BY <1>19, JudgedSame DEF Token
<1>20. CASE StreamFails(p) \/ StreamDone(p) \/ StreamCloses(p)
  BY <1>1, <1>5, <1>20 DEF StreamFails, StreamDone, StreamCloses
<1>21. QED
  BY <1>9, <1>10, <1>11, <1>12, <1>13, <1>14, <1>15, <1>16, <1>17, <1>18, <1>19, <1>20
     DEF Retrieve, Generate

LEMMA JudgedStep ==
    ASSUME ShapeInv, JudgedInv, [SlackNext]_<<vars, slack>>
    PROVE  JudgedInv'
<1>1. CASE Quiet
  BY <1>1, JudgedSame DEF Quiet, JudgedInv
<1>2. CASE Save
  BY <1>2, SaveShape, JudgedSame DEF readers, JudgedInv
<1>3. ASSUME NEW p \in Procs, JobStep(p) \/ Skips(p), Judged(p)' PROVE JudgedInv'
  <2>1. ASSUME NEW q \in Procs \ {p} PROVE Judged(q)'
    BY <1>3, <2>1, Others, JudgedSame DEF JudgedInv
  <2>2. QED
    BY <1>3, <2>1 DEF JudgedInv
<1>4. ASSUME NEW p \in Procs, Skips(p) PROVE JudgedInv'
  <2>1. Judged(p)'
    BY <1>4 DEF Skips, Goto, JudgedInv, Judged, ShapeInv
  <2>2. QED
    BY <1>3, <1>4, <2>1
<1>5. ASSUME NEW p \in Procs, Retrieve(p) \/ Generate(p) PROVE JudgedInv'
  BY <1>3, <1>5, JobSteps, JudgedOwn DEF JudgedInv
<1>6. QED
  BY <1>1, <1>2, <1>4, <1>5, Steps

LEMMA AuditStays ==
    ASSUME AuditInv, UNCHANGED <<job, results, audit>>
    PROVE  AuditInv'
<1>1. \A p : Scanned(p)' <=> Scanned(p)
  BY DEF Scanned, Kind
<1>2. \A n : Faithful(n) => Faithful(n)'
  BY <1>1 DEF Faithful
<1>3. \A p, i : Told(p, i) => Told(p, i)'
  BY <1>1 DEF Told, Tells
<1>4. QED
  BY <1>2, <1>3 DEF AuditInv

LEMMA AuditEnds ==
    ASSUME ShapeInv, WholeInv, JudgedInv, AuditInv, NEW p \in Procs, UNCHANGED job,
           NEW r \in Outcomes, Ends(p, r), Closes(p, r)
    PROVE  AuditInv'
<1> DEFINE new == Len(results[p]) + 1
<1>1. \A q : Scanned(q)' <=> Scanned(q)
  BY DEF Scanned, Kind
<1>2. results \in [Procs -> Seq(Outcomes)] /\ audit \in Seq(Records)
  BY DEF ShapeInv
<1>3. results' = [results EXCEPT ![p] = Append(@, r)]
  BY DEF Ends
<1>4. ASSUME NEW q \in Procs, NEW i \in DOMAIN results[q]
      PROVE  i \in DOMAIN results'[q] /\ results'[q][i] = results[q][i]
  <2>1. CASE q = p
    BY <1>2, <1>3, <2>1
  <2>2. CASE q # p
    BY <1>2, <1>3, <2>2
  <2>3. QED
    BY <2>1, <2>2
<1>5. /\ new \in DOMAIN results'[p] /\ results'[p][new] = r
      /\ new \notin DOMAIN results[p]
  BY <1>2, <1>3
<1>6. ASSUME NEW q \in Procs, NEW i \in DOMAIN results'[q] \ DOMAIN results[q]
      PROVE  q = p /\ i = new
  BY <1>2, <1>3
<1> HIDE DEF new
<1>7. CASE UNCHANGED audit /\ ~(Scanned(p) /\ r.status = "200")
  <2>1. ASSUME NEW n \in DOMAIN audit' PROVE Faithful(n)'
    BY <1>1, <1>4, <1>7 DEF AuditInv, Faithful
  <2>2. ASSUME NEW q \in Procs, NEW i \in DOMAIN results'[q] PROVE Told(q, i)'
    <3>1. CASE i \in DOMAIN results[q]
      BY <1>1, <1>4, <1>7, <3>1 DEF AuditInv, Told, Tells
    <3>2. CASE i \notin DOMAIN results[q]
      BY <1>1, <1>5, <1>6, <1>7, <3>2 DEF Told
    <3>3. QED
      BY <3>1, <3>2
  <2>3. QED
    BY <1>7, <2>1, <2>2 DEF AuditInv
<1>8. CASE /\ stage[p] = "finish" /\ r = ResponseOf(p) /\ Scanned(p)
           /\ audit' = Append(audit, Record(p, r))
  <2>0. PICK last \in Nat : last = Len(audit) + 1
    BY <1>2
  <2>1. /\ DOMAIN audit' = DOMAIN audit \cup {last}
        /\ audit'[last] = Record(p, r)
        /\ last \notin DOMAIN audit
        /\ \A n \in DOMAIN audit : audit'[n] = audit[n]
    BY <1>2, <1>8, <2>0
  <2>2. /\ Record(p, r).proc = p /\ Record(p, r).item = new /\ r.status = "200"
        /\ Record(p, r).confidence = r.confidence
        /\ Record(p, r).suspected = r.suspected
        /\ Record(p, r).summary = Recorded(job[p].items[new].guard, r.summary)
    <3>1. work[p].verdict.ran <=> job[p].items[new].guard
      BY <1>8 DEF JudgedInv, Judged, Guarded, Scanned, Evals, Current, new
    <3>2. Recorded(work[p].verdict.ran, r.summary)
            = Recorded(job[p].items[new].guard, r.summary)
      BY <3>1 DEF Recorded
    <3>3. QED
      BY <1>8, <3>2, ResponseType DEF new
  <2>3. ASSUME NEW n \in DOMAIN audit PROVE Faithful(n)' /\ Faithful(n)
    BY <1>1, <1>4, <2>1 DEF AuditInv, Faithful
  <2>4. Faithful(last)'
    <3>1. /\ audit'[last].proc = p /\ audit'[last].item = new
          /\ audit'[last].confidence = r.confidence
          /\ audit'[last].suspected = r.suspected
          /\ audit'[last].summary = Recorded(job[p].items[new].guard, r.summary)
      BY <2>1, <2>2
    <3>2. Scanned(p)' /\ r.status = "200"
      BY <1>1, <1>8, <2>2
    <3>3. QED
      BY <1>5, <3>1, <3>2 DEF Faithful
  <2>5. ASSUME NEW m \in DOMAIN audit', NEW n \in DOMAIN audit',
               audit'[m].proc = audit'[n].proc, audit'[m].item = audit'[n].item
        PROVE  m = n
    <3>1. CASE m \in DOMAIN audit /\ n \in DOMAIN audit
      BY <2>1, <2>5, <3>1 DEF AuditInv
    <3>2. ASSUME NEW k \in DOMAIN audit, audit[k].proc = p PROVE audit[k].item # new
      BY <1>5, <2>3, <3>2 DEF Faithful
    <3>3. CASE ~(m \in DOMAIN audit /\ n \in DOMAIN audit)
      BY <2>1, <2>2, <2>5, <3>2, <3>3
    <3>4. QED
      BY <3>1, <3>3
  <2>6. ASSUME NEW q \in Procs, NEW i \in DOMAIN results'[q] PROVE Told(q, i)'
    <3>1. CASE i \in DOMAIN results[q]
      BY <1>1, <1>4, <2>1, <3>1 DEF AuditInv, Told, Tells
    <3>2. CASE i \notin DOMAIN results[q]
      <4>1. q = p /\ i = new
        BY <1>6, <3>2
      <4>2. last \in DOMAIN audit' /\ audit'[last].proc = q /\ audit'[last].item = i
        BY <2>1, <2>2, <4>1
      <4>3. QED
        BY <4>2 DEF Told, Tells
    <3>3. QED
      BY <3>1, <3>2
  <2>7. QED
    BY <2>1, <2>3, <2>4, <2>5, <2>6 DEF AuditInv
<1>9. QED
  <2>1. stage[p] = "tokens" => ~Scanned(p)
    BY DEF WholeInv, Whole, Scanned
  <2>2. Kind(p) = "cli" => ~Scanned(p)
    BY DEF Scanned
  <2>3. QED
    BY <1>7, <1>8, <2>1, <2>2 DEF Closes

LEMMA AuditStep ==
    ASSUME ShapeInv, WholeInv, JudgedInv, AuditInv, [SlackNext]_<<vars, slack>>
    PROVE  AuditInv'
<1>1. CASE Quiet
  BY <1>1, AuditStays DEF Quiet
<1>2. CASE Save
  BY <1>2, SaveShape, AuditStays DEF readers
<1>3. ASSUME NEW p \in Procs, Skips(p) PROVE AuditInv'
  BY <1>3, AuditStays DEF Skips
<1>4. ASSUME NEW p \in Procs, JobStep(p) PROVE AuditInv'
  <2>1. CASE UNCHANGED <<results, audit>>
    BY <1>4, <2>1, AuditStays DEF JobStep
  <2>2. CASE \E r \in Outcomes : Ends(p, r) /\ Closes(p, r)
    BY <1>4, <2>2, AuditEnds DEF JobStep
  <2>3. QED
    BY <1>4, <2>1, <2>2 DEF JobStep, Stays
<1>5. QED
  BY <1>1, <1>2, <1>3, <1>4, JobSteps, Steps

LEMMA AuditOne ==
    ASSUME AuditInv, NEW p \in Procs, NEW i \in DOMAIN results[p]
    PROVE  LET records == {n \in DOMAIN audit : audit[n].proc = p /\ audit[n].item = i}
               r == results[p][i]
           IN  /\ Cardinality(records) <= 1
               /\ Scanned(p) /\ r.status = "200" => records # {}
               /\ \A n \in records :
                     /\ r.status = "200"
                     /\ audit[n].confidence = r.confidence
                     /\ audit[n].suspected = r.suspected
                     /\ audit[n].summary = Recorded(job[p].items[i].guard, r.summary)
<1> DEFINE records == {n \in DOMAIN audit : audit[n].proc = p /\ audit[n].item = i}
           r == results[p][i]
<1>1. ASSUME NEW n \in records
      PROVE  /\ audit[n].confidence = r.confidence
             /\ audit[n].suspected = r.suspected
             /\ audit[n].summary = Recorded(job[p].items[i].guard, r.summary)
             /\ Scanned(p) /\ r.status = "200"
  BY <1>1 DEF AuditInv, Faithful
<1>2. CASE Scanned(p) /\ r.status = "200"
  <2>1. PICK n \in records : TRUE
    BY <1>2 DEF AuditInv, Told, Tells
  <2>2. records = {n}
    BY <2>1 DEF AuditInv
  <2>3. Cardinality(records) = 1
    BY <2>2, FS_Singleton
  <2>4. QED
    BY <1>1, <1>2, <2>3
<1>3. CASE ~(Scanned(p) /\ r.status = "200")
  <2>1. records = {}
    BY <1>1, <1>3
  <2>2. Cardinality(records) = 0
    BY <2>1, FS_EmptySet
  <2>3. QED
    BY <1>1, <1>3, <2>2
<1>4. QED
  BY <1>2, <1>3

(* Each answer of _do_query that rests on hits has one audit record, which *)
(* says what the response says, for any text of the judge; no item has two *)
(* and none a record of a failure (_schedule_audit).                       *)
THEOREM Audited == SlackSpec => []AuditMatches
<1>1. SlackInit => AuditInv
  <2> SUFFICES ASSUME SlackInit PROVE AuditInv
    OBVIOUS
  <2>1. audit = <<>> /\ \A p \in Procs : results[p] = <<>>
    BY DEF SlackInit, Init
  <2>2. QED
    BY <2>1 DEF AuditInv
<1>2. SlackInit => ShapeInv /\ WholeInv /\ JudgedInv /\ AuditInv
  BY <1>1, ShapeInit, WholeInit, JudgedInit
<1>3. /\ ShapeInv /\ WholeInv /\ JudgedInv /\ AuditInv
      /\ [SlackNext]_<<vars, slack>>
      => ShapeInv' /\ WholeInv' /\ JudgedInv' /\ AuditInv'
  BY ShapeStep, WholeStep, JudgedStep, AuditStep
<1>4. AuditInv => AuditMatches
  BY AuditOne DEF AuditMatches
<1>5. QED
  BY <1>2, <1>3, <1>4, PTL DEF SlackSpec
-------------------------------------------------------------------------------
(* What a step of a job does to its store and to what it knows.            *)

LoadsIndex(p) ==
    /\ opened' = [opened EXCEPT
           ![p].corpus = index.ids,
           ![p].quiet = /\ saver.step \in {"idle", "upsert"} /\ ~cut
                        /\ opened[p].meta = <<>>]
    /\ stage'[p] = "meta" /\ UNCHANGED work

LoadsMeta(p, ids, order) ==
    /\ ids = IF opened[p].meta # <<>> THEN opened[p].meta ELSE meta.ids
    /\ order \in Seq(Nat) /\ \A i \in DOMAIN order : order[i] \in DOMAIN ids
    /\ opened' = [opened EXCEPT ![p].meta = ids]
    /\ work' = [work EXCEPT ![p].order = order,
                            ![p].named = [i \in DOMAIN order |-> ids[order[i]]]]

Rests(p) ==
    /\ opened'[p] \in {opened[p], Unread}
    /\ stage'[p] # "dense"

(* Nothing new comes from Chroma or the pickles.                           *)
Knows(p) ==
    \/ work'[p] = Fresh
    \/ /\ work'[p].named = work[p].named /\ work'[p].dense = work[p].dense
       /\ work'[p].hits = work[p].hits /\ work'[p].texts = work[p].texts

LEMMA AnsweredRests ==
    ASSUME ShapeInv, NEW p \in Procs, NEW r, Answered(p, r)
    PROVE  Rests(p) /\ Knows(p)
<1>1. stage'[p] \in {"done", "open"} /\ work'[p] = Fresh
  BY DEF Answered, Goto, ShapeInv
<1>2. opened'[p] \in {opened[p], Unread}
  BY DEF Answered, Kept, ShapeInv
<1>3. QED
  BY <1>1, <1>2 DEF Rests, Knows

LEMMA FailRests ==
    ASSUME ShapeInv, NEW p \in Procs, NEW status,
           Fail(p, status) \/ FailWhole(p, status)
    PROVE  Rests(p) /\ Knows(p)
<1>1. CASE FailWhole(p, status)
  <2>1. stage'[p] = "done" /\ work'[p] = Fresh
    BY <1>1 DEF FailWhole, Goto, ShapeInv
  <2>2. opened'[p] \in {opened[p], Unread}
    BY <1>1 DEF FailWhole, Kept, ShapeInv
  <2>3. QED
    BY <2>1, <2>2 DEF Rests, Knows
<1>2. QED
  BY <1>1, AnsweredRests DEF Fail

LEMMA RestsOn ==
    ASSUME ShapeInv, NEW p \in Procs, NEW s \in Stages \ {"dense"}, Goto(p, s),
           UNCHANGED opened
    PROVE  Rests(p)
  BY DEF Rests, Goto, ShapeInv

LEMMA LoadIndexReads ==
    ASSUME ShapeInv, NEW p \in Procs, LoadIndex(p)
    PROVE  LoadsIndex(p) \/ (Rests(p) /\ Knows(p))
<1>1. CASE Fail(p, "500")
  BY <1>1, FailRests
<1>2. CASE Goto(p, "meta") /\ UNCHANGED <<opened, work>>
  BY <1>2, RestsOn DEF Stages, Knows
<1>3. CASE Goto(p, "meta") /\ UNCHANGED work /\ opened' # opened /\ ~Fail(p, "500")
  <2>1. stage'[p] = "meta"
    BY <1>3 DEF Goto, ShapeInv
  <2>2. QED
    BY <1>3, <2>1 DEF LoadIndex, LoadsIndex
<1>4. QED
  BY <1>1, <1>2, <1>3 DEF LoadIndex

LEMMA LoadMetaReads ==
    ASSUME ShapeInv, NEW p \in Procs, LoadMeta(p)
    PROVE  (\E ids \in Saved, order \in Seq(Nat) : LoadsMeta(p, ids, order))
              \/ (Rests(p) /\ Knows(p))
<1>1. CASE Fail(p, "500")
  BY <1>1, FailRests
<1>2. CASE ~Fail(p, "500")
  <2> DEFINE ids == IF opened[p].meta # <<>> THEN opened[p].meta ELSE meta.ids
  <2>1. ids \in Saved /\ opened[p].corpus \in Saved
    BY DEF ShapeInv, Opened, Pickles
  <2>2. PICK order \in IF ids = <<>> THEN {<<>>}
                       ELSE Rankings(DOMAIN opened[p].corpus, Pool) :
          /\ ~\E i \in DOMAIN order : order[i] > Len(ids)
          /\ Goto(p, "dense")
          /\ opened' = [opened EXCEPT ![p].meta = ids]
          /\ work' = [work EXCEPT
                 ![p].order = order,
                 ![p].named = [i \in DOMAIN order |-> ids[order[i]]]]
          /\ UNCHANGED <<results, frames, audit>>
    BY <1>2 DEF LoadMeta
  <2>3. ids \in Seq(Ids) /\ opened[p].corpus \in Seq(Ids)
    BY <2>1, SavedType
  <2>4. order \in Seq(DOMAIN opened[p].corpus)
    <3>1. CASE ids = <<>>
      BY <2>2, <3>1
    <3>2. CASE order \in Rankings(DOMAIN opened[p].corpus, Pool)
      BY <3>2, PoolType, RankingType
    <3>3. QED
      BY <2>2, <3>1, <3>2
  <2> HIDE DEF ids
  <2>5. order \in Seq(Nat \ {0}) /\ Len(ids) \in Nat /\ DOMAIN ids = 1..Len(ids)
    BY <2>3, <2>4
  <2>6. \A i \in DOMAIN order : order[i] \in DOMAIN ids
    <3>1. \A i \in DOMAIN order : order[i] \in Nat \ {0}
      BY <2>5
    <3>2. QED
      BY <2>2, <2>5, <3>1
  <2>7. order \in Seq(Nat)
    BY <2>5
  <2>8. LoadsMeta(p, ids, order)
    BY <2>2, <2>6, <2>7 DEF LoadsMeta, ids
  <2>9. QED
    BY <2>1, <2>7, <2>8
<1>3. QED
  BY <1>1, <1>2

LEMMA Reads ==
    ASSUME ShapeInv, NEW p \in Procs, Retrieve(p) \/ Generate(p)
    PROVE  \/ LoadsIndex(p)
           \/ \E ids \in Saved, order \in Seq(Nat) : LoadsMeta(p, ids, order)
           \/ Rests(p) /\ (Dense(p) \/ Fetch(p) \/ Knows(p))
<1>1. CASE Start(p) \/ Open(p)
  BY <1>1, FailRests, RestsOn DEF Start, Open, Stages, Knows
<1>2. CASE EmbedderFails(p) \/ ModelFails(p) \/ JudgeOdd(p)
  BY <1>2, FailRests DEF EmbedderFails, ModelFails, JudgeOdd
<1>3. CASE Dense(p)
  <2>1. stage'[p] = "fetch"
    BY <1>3 DEF Dense, Goto, ShapeInv
  <2>2. opened'[p] \in {opened[p], Unread}
    BY <1>3 DEF Dense, Kept, ShapeInv
  <2>3. QED
    BY <1>3, <2>1, <2>2 DEF Rests
<1>4. CASE Fetch(p)
  <2>1. CASE \E r : Answered(p, r)
    BY <1>4, <2>1, AnsweredRests
  <2>2. CASE ~\E r : Answered(p, r)
    <3>1. /\ UNCHANGED opened
          /\ Goto(p, "tokens") \/ Goto(p, "answer")
      BY <1>4, <2>2 DEF Fetch
    <3>2. QED
      BY <1>4, <3>1, RestsOn DEF Stages
  <2>3. QED
    BY <2>1, <2>2
<1>5. CASE Answer(p)
  <2>1. Knows(p)
    BY <1>5 DEF Answer, Knows, ShapeInv, Works
  <2>2. QED
    BY <1>5, <2>1, RestsOn DEF Answer, Stages
<1>6. CASE Judge(p)
  <2>1. Knows(p)
    BY <1>6 DEF Judge, Knows, ShapeInv, Works
  <2>2. QED
    BY <1>6, <2>1, RestsOn DEF Judge, Stages
<1>7. CASE Finish(p) \/ FinishCommand(p) \/ FinishRow(p)
  BY <1>7, AnsweredRests DEF Finish, FinishCommand, FinishRow
<1>8. CASE StreamFails(p) \/ StreamDone(p) \/ StreamCloses(p)
  BY <1>8, AnsweredRests DEF StreamFails, StreamDone, StreamCloses
<1>9. CASE Token(p)
  BY <1>9 DEF Token, Rests, Knows
<1>10. QED
  BY <1>1, <1>2, <1>3, <1>4, <1>5, <1>6, <1>7, <1>8, <1>9, LoadIndexReads,
     LoadMetaReads DEF Retrieve, Generate
-------------------------------------------------------------------------------
(* The pickles a store reads, and the chunk each place of them names.      *)

LEMMA AgreeInit == SlackInit => AgreeInv
<1> SUFFICES ASSUME SlackInit PROVE AgreeInv
  OBVIOUS
<1>1. /\ index = Pickle(FALSE, <<>>) /\ meta = Pickle(FALSE, <<>>)
      /\ saver.step = "idle"
      /\ \A p \in Procs : ~opened[p].quiet
  BY DEF SlackInit, Init, Unread
<1>2. QED
  BY <1>1 DEF AgreeInv, RightChunk, Pickle

(* What AgreeInv says of one store.                                        *)
Agrees(p) ==
    /\ opened[p].quiet =>
          IF opened[p].meta # <<>> THEN opened[p].corpus = opened[p].meta
          ELSE /\ opened[p].corpus = meta.ids
               /\ saver.step \in {"idle", "upsert", "index"} /\ ~cut
    /\ (stage[p] = "dense" /\ opened[p].quiet) =>
          work[p].named = [i \in DOMAIN work[p].named |->
                              opened[p].corpus[work[p].order[i]]]

LEMMA AgreeJob ==
    ASSUME ShapeInv, AgreeInv, NEW p \in Procs, Retrieve(p) \/ Generate(p)
    PROVE  AgreeInv'
<1>1. UNCHANGED <<index, meta, saver, cut>> /\ JobStep(p)
  BY JobSteps DEF JobStep, store
<1>2. ASSUME NEW q \in Procs \ {p} PROVE Agrees(q)'
  <2>1. UNCHANGED <<stage[q], opened[q], work[q]>>
    BY <1>1, Others
  <2>2. QED
    BY <1>1, <2>1 DEF Agrees, AgreeInv, RightChunk
<1>3. Agrees(p)
  BY DEF Agrees, AgreeInv, RightChunk
<1>4. opened[p] \in Opened /\ work[p] \in Works
  BY Shapes
<1>5. CASE LoadsIndex(p)
  <2>1. /\ opened'[p].corpus = index.ids /\ opened'[p].meta = opened[p].meta
        /\ opened'[p].quiet <=> /\ saver.step \in {"idle", "upsert"} /\ ~cut
                                /\ opened[p].meta = <<>>
        /\ stage'[p] = "meta"
    BY <1>5 DEF LoadsIndex, ShapeInv, Opened
  <2>2. saver.step \in {"idle", "upsert"} /\ ~cut => index = meta
    BY DEF AgreeInv
  <2>3. Agrees(p)'
    BY <1>1, <2>1, <2>2 DEF Agrees
  <2>4. QED
    BY <1>1, <1>2, <2>3 DEF Agrees, AgreeInv, RightChunk
<1>6. CASE \E ids \in Saved, order \in Seq(Nat) : LoadsMeta(p, ids, order)
  <2>1. PICK ids \in Saved, order \in Seq(Nat) : LoadsMeta(p, ids, order)
    BY <1>6
  <2>2. /\ opened'[p].corpus = opened[p].corpus /\ opened'[p].meta = ids
        /\ opened'[p].quiet = opened[p].quiet
    BY <2>1 DEF LoadsMeta, ShapeInv, Opened
  <2>3. /\ work'[p].order = order
        /\ work'[p].named = [i \in DOMAIN order |-> ids[order[i]]]
    BY <2>1 DEF LoadsMeta, ShapeInv, Works
  <2>4. opened[p].quiet => opened[p].corpus = ids
    BY <1>3, <2>1 DEF LoadsMeta, Agrees
  <2>5. opened[p].quiet =>
          IF ids # <<>> THEN opened[p].corpus = ids
          ELSE /\ opened[p].corpus = meta.ids
               /\ saver.step \in {"idle", "upsert", "index"} /\ ~cut
    BY <1>3, <2>1, <2>4 DEF LoadsMeta, Agrees
  <2>6. Agrees(p)'
    BY <1>1, <2>2, <2>3, <2>4, <2>5 DEF Agrees
  <2>7. QED
    BY <1>1, <1>2, <2>6 DEF Agrees, AgreeInv, RightChunk
<1>7. CASE Rests(p)
  <2>1. Agrees(p)'
    BY <1>1, <1>3, <1>7 DEF Rests, Unread, Agrees
  <2>2. QED
    BY <1>1, <1>2, <2>1 DEF Agrees, AgreeInv, RightChunk
<1>8. QED
  BY <1>5, <1>6, <1>7, Reads

LEMMA AgreeSave ==
    ASSUME ShapeInv, AgreeInv, Save
    PROVE  AgreeInv'
<1>1. UNCHANGED <<stage, work>>
  BY SaveShape DEF readers
<1>2. \A p \in Procs : Agrees(p)
  BY DEF Agrees, AgreeInv, RightChunk
<1>3. opened \in [Procs -> Opened] /\ saver \in [step : SaverSteps, ids : Saved]
  BY DEF ShapeInv
<1>4. CASE SaverStarts \/ SaverUpserts \/ SaverCrashes
  <2>0. UNCHANGED <<opened, meta, index>>
    BY <1>4 DEF SaverStarts, SaverUpserts, SaverCrashes
  <2>1. /\ saver'.step \in {"idle", "upsert", "index"}
        /\ ~cut' => saver.step \in {"idle", "upsert", "index"} /\ ~cut
        /\ saver.step \in {"idle", "upsert", "index"} /\ ~cut => ~cut'
    <3>1. CASE SaverStarts \/ SaverUpserts
      BY <1>3, <3>1 DEF SaverStarts, SaverUpserts
    <3>2. CASE SaverCrashes
      <4>1. /\ saver'.step = "idle"
            /\ cut' <=> cut \/ saver.step \in {"index_open", "meta", "meta_open"}
            /\ saver.step \in SaverSteps \ {"idle"}
        BY <1>3, <3>2 DEF SaverCrashes
      <4>2. QED
        BY <4>1 DEF SaverSteps
    <3>3. QED
      BY <1>4, <3>1, <3>2
  <2>2. ASSUME NEW p \in Procs PROVE Agrees(p)'
    BY <1>1, <1>2, <2>0, <2>1 DEF Agrees
  <2>3. QED
    BY <2>0, <2>1, <2>2 DEF Agrees, AgreeInv, RightChunk
<1>5. CASE Disturb /\ ~(SaverStarts \/ SaverUpserts \/ SaverCrashes)
  <2>1. ASSUME NEW p \in Procs PROVE Agrees(p)'
    <3>1. /\ opened'[p].corpus = opened[p].corpus /\ opened'[p].meta = opened[p].meta
          /\ opened'[p].quiet => opened[p].quiet /\ opened[p].meta # <<>>
      BY <1>3, <1>5 DEF Disturb, Opened
    <3>2. QED
      BY <1>1, <1>2, <3>1 DEF Agrees
  <2>2. CASE SaverOpensIndex \/ SaverOpensMeta
    <3>1. /\ saver'.step \in {"index_open", "meta_open"}
          /\ saver'.step = "meta_open" =>
                saver.step = "meta" /\ UNCHANGED index /\ saver'.ids = saver.ids
      BY <1>3, <2>2 DEF SaverOpensIndex, SaverOpensMeta
    <3>2. QED
      BY <2>1, <3>1 DEF Agrees, AgreeInv, RightChunk, Pickle
  <2>3. CASE SaverDumpsIndex
    <3>1. saver'.step = "meta" /\ index' = Pickle(FALSE, saver'.ids)
      BY <1>3, <2>3 DEF SaverDumpsIndex
    <3>2. QED
      BY <2>1, <3>1 DEF Agrees, AgreeInv, RightChunk, Pickle
  <2>4. CASE SaverDumpsMeta
    <3>1. /\ saver'.step = "idle" /\ index = Pickle(FALSE, saver.ids)
          /\ index' = index /\ meta' = index /\ ~index.torn
      BY <1>3, <2>4 DEF SaverDumpsMeta, AgreeInv, Pickle
    <3>2. QED
      BY <2>1, <3>1 DEF Agrees, AgreeInv, RightChunk
  <2>5. QED
    BY <1>5, <2>2, <2>3, <2>4 DEF Save
<1>6. QED
  BY <1>4, <1>5 DEF Save, SaverOpensIndex, SaverDumpsIndex, SaverOpensMeta,
                    SaverDumpsMeta

LEMMA AgreeStep ==
    ASSUME ShapeInv, AgreeInv, [SlackNext]_<<vars, slack>>
    PROVE  AgreeInv'
<1>1. CASE Quiet
  BY <1>1 DEF Quiet, store, AgreeInv, RightChunk, Pickle
<1>2. ASSUME NEW p \in Procs, Skips(p) PROVE AgreeInv'
  <2>1. UNCHANGED <<index, meta, cut, saver, opened, work>>
    BY <1>2 DEF Skips, store
  <2>2. \A q \in Procs : stage'[q] = "dense" => stage[q] = "dense"
    BY <1>2 DEF Skips, Goto, ShapeInv
  <2>3. QED
    BY <2>1, <2>2 DEF AgreeInv, RightChunk, Pickle
<1>3. QED
  BY <1>1, <1>2, AgreeJob, AgreeSave, Steps

(* The chunk scored at a place of the corpus is the one the metadata name   *)
(* there, for every item of every query and evaluation, unless an indexing  *)
(* process wrote or died between the store's two reads (save_bm25,          *)
(* _bm25_with_chunks).                                                     *)
THEOREM Matched == SlackSpec => []RightChunk
<1>1. SlackInit => ShapeInv /\ AgreeInv
  BY ShapeInit, AgreeInit
<1>2. ShapeInv /\ AgreeInv /\ [SlackNext]_<<vars, slack>> => ShapeInv' /\ AgreeInv'
  BY ShapeStep, AgreeStep
<1>3. AgreeInv => RightChunk
  BY DEF AgreeInv
<1>4. QED
  BY <1>1, <1>2, <1>3, PTL DEF SlackSpec
-------------------------------------------------------------------------------
(* Whatever is read of an id is of a chunk that is in Chroma.              *)

LEMMA NoMembers == ToSet(<<>>) = {}
  BY DEF ToSet

LEMMA KnownInit == SlackInit => KnownInv
<1> SUFFICES ASSUME SlackInit PROVE KnownInv
  OBVIOUS
<1>1. /\ index.ids = <<>> /\ meta.ids = <<>> /\ saver.step = "idle"
      /\ opened = [p \in Procs |-> Unread]
      /\ work = [p \in Procs |-> Fresh]
  BY DEF SlackInit, Init, Pickle
<1>2. ASSUME NEW p \in Procs
      PROVE  /\ opened[p].corpus = <<>> /\ opened[p].meta = <<>>
             /\ work[p].named = <<>> /\ work[p].dense = <<>> /\ work[p].hits = <<>>
  BY <1>1 DEF Unread, Fresh
<1>3. QED
  BY <1>1, <1>2, NoMembers DEF KnownInv, TextFound

(* What KnownInv says of one store, for the chunks in base.                *)
Known(p, base) ==
    /\ ToSet(opened[p].corpus) \cup ToSet(opened[p].meta) \subseteq base
    /\ ToSet(work[p].named) \cup ToSet(work[p].dense) \subseteq base
    /\ ToSet(work[p].hits) \subseteq work[p].texts

LEMMA FetchKnows ==
    ASSUME ShapeInv, KnownInv, NEW p \in Procs, Fetch(p)
    PROVE  /\ ToSet(work'[p].named) \cup ToSet(work'[p].dense) \subseteq chroma
           /\ ToSet(work'[p].hits) \subseteq work'[p].texts
<1> DEFINE fused == Fused(work[p].named, work[p].dense)
<1>1. CASE \E r : Answered(p, r)
  BY <1>1, NoMembers DEF Answered, ShapeInv, Fresh
<1>2. CASE ~\E r : Answered(p, r)
  <2>1. PICK hits \in IF API(p) THEN Reranked(fused) ELSE {fused} :
           work' = [work EXCEPT ![p] = [Fresh EXCEPT
                                  !.hits = hits, !.texts = Texts(fused)]]
    BY <1>2 DEF Fetch
  <2>2. /\ work'[p].hits = hits /\ work'[p].texts = Texts(fused)
        /\ work'[p].named = <<>> /\ work'[p].dense = <<>>
    BY <2>1 DEF ShapeInv, Fresh
  <2>3. /\ ToSet(hits) = ToSet(fused)
        /\ ToSet(hits) \subseteq ToSet(work[p].named) \cup ToSet(work[p].dense)
    BY <2>1, HitsType
  <2>4. ToSet(fused) \subseteq chroma
    BY <2>3 DEF KnownInv
  <2> HIDE DEF fused
  <2>5. QED
    BY <2>2, <2>3, <2>4, NoMembers DEF Texts
<1>3. QED
  BY <1>1, <1>2

LEMMA DenseKnows ==
    ASSUME ShapeInv, KnownInv, NEW p \in Procs, Dense(p)
    PROVE  /\ ToSet(work'[p].named) \cup ToSet(work'[p].dense) \subseteq chroma
           /\ ToSet(work'[p].hits) \subseteq work'[p].texts
<1>1. PICK s \in FullRankings(chroma, Pool) :
         work' = [work EXCEPT ![p] = [Fresh EXCEPT !.named = work[p].named, !.dense = s]]
  BY DEF Dense
<1>2. s \in Seq(chroma)
  <2>1. s \in Rankings(chroma, Pool)
    BY <1>1 DEF FullRankings
  <2>2. QED
    BY <2>1, PoolType, RankingType
<1>3. ToSet(s) \subseteq chroma
  BY <1>2 DEF ToSet
<1>4. /\ work'[p].named = work[p].named /\ work'[p].dense = s /\ work'[p].hits = <<>>
  BY <1>1 DEF ShapeInv, Fresh
<1>5. QED
  BY <1>3, <1>4, NoMembers DEF KnownInv

LEMMA KnownJob ==
    ASSUME ShapeInv, KnownInv, NEW p \in Procs, Retrieve(p) \/ Generate(p)
    PROVE  KnownInv'
<1>1. UNCHANGED <<chroma, index, meta, saver>> /\ JobStep(p)
  BY JobSteps DEF JobStep, store
<1>2. ASSUME NEW q \in Procs \ {p}
      PROVE  /\ ToSet(opened'[q].corpus) \cup ToSet(opened'[q].meta) \subseteq chroma
             /\ ToSet(work'[q].named) \cup ToSet(work'[q].dense) \subseteq chroma
             /\ ToSet(work'[q].hits) \subseteq work'[q].texts
  <2>1. UNCHANGED <<opened[q], work[q]>>
    BY <1>1, Others
  <2>2. QED
    BY <2>1 DEF KnownInv, TextFound
<1>3. /\ ToSet(opened[p].corpus) \cup ToSet(opened[p].meta) \subseteq chroma
      /\ ToSet(work[p].named) \cup ToSet(work[p].dense) \subseteq chroma
      /\ ToSet(work[p].hits) \subseteq work[p].texts
      /\ ToSet(index.ids) \cup ToSet(meta.ids) \subseteq chroma
  BY DEF KnownInv, TextFound
<1>4. opened[p] \in Opened /\ work[p] \in Works
  BY Shapes
<1>5. /\ ToSet(opened'[p].corpus) \cup ToSet(opened'[p].meta) \subseteq chroma
      /\ ToSet(work'[p].named) \cup ToSet(work'[p].dense) \subseteq chroma
      /\ ToSet(work'[p].hits) \subseteq work'[p].texts
  <2>1. CASE LoadsIndex(p)
    <3>1. opened'[p].corpus = index.ids /\ opened'[p].meta = opened[p].meta
      BY <2>1 DEF LoadsIndex, ShapeInv, Opened
    <3>2. QED
      BY <1>3, <2>1, <3>1 DEF LoadsIndex
  <2>2. CASE \E ids \in Saved, order \in Seq(Nat) : LoadsMeta(p, ids, order)
    <3>1. PICK ids \in Saved, order \in Seq(Nat) : LoadsMeta(p, ids, order)
      BY <2>2
    <3>2. opened'[p].corpus = opened[p].corpus /\ opened'[p].meta = ids
      BY <3>1 DEF LoadsMeta, ShapeInv, Opened
    <3>3. /\ work'[p].named = [i \in DOMAIN order |-> ids[order[i]]]
          /\ work'[p].dense = work[p].dense /\ work'[p].hits = work[p].hits
          /\ work'[p].texts = work[p].texts
      BY <3>1 DEF LoadsMeta, ShapeInv, Works
    <3>4. ToSet(ids) \subseteq chroma
      BY <1>3, <3>1 DEF LoadsMeta
    <3>5. ToSet(work'[p].named) \subseteq ToSet(ids)
      BY <3>1, <3>3 DEF LoadsMeta, ToSet
    <3>6. QED
      BY <1>3, <3>2, <3>3, <3>4, <3>5
  <2>3. CASE Rests(p) /\ (Dense(p) \/ Fetch(p) \/ Knows(p))
    <3>1. ToSet(opened'[p].corpus) \cup ToSet(opened'[p].meta) \subseteq chroma
      BY <1>3, <2>3, NoMembers DEF Rests, Unread
    <3>2. CASE Knows(p)
      BY <1>3, <3>1, <3>2, NoMembers DEF Knows, Fresh
    <3>3. QED
      BY <2>3, <3>1, <3>2, DenseKnows, FetchKnows
  <2>4. QED
    BY <2>1, <2>2, <2>3, Reads
<1>6. QED
  BY <1>1, <1>2, <1>5 DEF KnownInv, TextFound

LEMMA KnownSave ==
    ASSUME ShapeInv, KnownInv, Save
    PROVE  KnownInv'
<1>1. UNCHANGED work /\ chroma \subseteq chroma'
  BY SaveShape DEF readers
<1>2. opened \in [Procs -> Opened] /\ saver \in [step : SaverSteps, ids : Saved]
  BY DEF ShapeInv
<1>3. ASSUME NEW p \in Procs
      PROVE  opened'[p].corpus = opened[p].corpus /\ opened'[p].meta = opened[p].meta
  <2>1. CASE Disturb
    BY <1>2, <2>1 DEF Disturb, Opened
  <2>2. QED
    BY <2>1 DEF Save, SaverStarts, SaverUpserts, SaverOpensIndex, SaverDumpsIndex,
                SaverOpensMeta, SaverDumpsMeta, SaverCrashes
<1>4. /\ ToSet(index'.ids) \cup ToSet(meta'.ids) \subseteq chroma'
      /\ saver'.step \notin {"idle", "upsert"} => ToSet(saver'.ids) \subseteq chroma'
  <2>1. /\ ToSet(index.ids) \cup ToSet(meta.ids) \subseteq chroma
        /\ saver.step \notin {"idle", "upsert"} => ToSet(saver.ids) \subseteq chroma
    BY DEF KnownInv
  <2>2. CASE SaverStarts
    BY <1>2, <2>1, <2>2 DEF SaverStarts
  <2>3. CASE SaverUpserts \/ SaverCrashes
    BY <1>2, <2>1, <2>3 DEF SaverUpserts, SaverCrashes
  <2>4. CASE SaverOpensIndex \/ SaverOpensMeta
    BY <1>2, <2>1, <2>4, NoMembers DEF SaverOpensIndex, SaverOpensMeta, Torn, Pickle
  <2>5. CASE SaverDumpsIndex \/ SaverDumpsMeta
    BY <1>2, <2>1, <2>5 DEF SaverDumpsIndex, SaverDumpsMeta, Pickle
  <2>6. QED
    BY <2>2, <2>3, <2>4, <2>5 DEF Save
<1>5. QED
  BY <1>1, <1>3, <1>4 DEF KnownInv, TextFound

LEMMA KnownStep ==
    ASSUME ShapeInv, KnownInv, [SlackNext]_<<vars, slack>>
    PROVE  KnownInv'
<1>1. CASE UNCHANGED <<store, opened, work>>
  BY <1>1 DEF store, KnownInv, TextFound
<1>2. QED
  BY <1>1, KnownJob, KnownSave, Steps DEF Quiet, Skips

LEMMA FusionSound ==
    ASSUME ShapeInv, NEW p \in Procs
    PROVE  FusionFair(p) /\ RerankOnlyReorders(p)
<1>1. work[p].named \in Seq(Ids) /\ work[p].dense \in Seq(Ids)
  BY Same DEF Works
<1>2. /\ Fused(work[p].named, work[p].dense) \in Seq(Ids)
      /\ IsInjective(Fused(work[p].named, work[p].dense))
  BY <1>1, FusedPlaces
<1>3. FusionFair(p)
  BY <1>1, FusedPlaces DEF FusionFair, Found
<1>4. RerankOnlyReorders(p)
  BY <1>2, RerankedSame DEF RerankOnlyReorders
<1>5. QED
  BY <1>3, <1>4

(* Nothing goes to the model without its text, whatever is indexed or dies  *)
(* between any two reads; fusion puts no chunk before one that both lists   *)
(* place better; the cross-encoder only re-orders (hybrid_search,           *)
(* reciprocal_rank_fusion, rerank).                                        *)
THEOREM Grounded == SlackSpec => []RetrievalSound
<1>1. SlackInit => ShapeInv /\ KnownInv
  BY ShapeInit, KnownInit
<1>2. ShapeInv /\ KnownInv /\ [SlackNext]_<<vars, slack>> => ShapeInv' /\ KnownInv'
  BY ShapeStep, KnownStep
<1>3. ShapeInv /\ KnownInv => RetrievalSound
  BY FusionSound DEF KnownInv, RetrievalSound
<1>4. QED
  BY <1>1, <1>2, <1>3, PTL DEF SlackSpec
-------------------------------------------------------------------------------
(* What the Slack adapter posts.                                           *)

Chars == {"letter", "space", "line"}
Spans == [from : Int, to : Int]

LEMMA MaxOf ==
    ASSUME NEW S \in SUBSET Int, NEW b \in Int, NEW x \in S, \A y \in S : y <= b
    PROVE  Max(S) \in S /\ \A y \in S : y <= Max(S)
<1> DEFINE T == {n \in Nat : b - n \in S}
<1>1. b - x \in T /\ T \in SUBSET Nat
  OBVIOUS
<1>2. PICK n \in T : \A m \in T : n <= m
  BY <1>1, LeastOf
<1>3. ASSUME NEW y \in S PROVE b - n >= y
  <2>1. b - y \in T
    OBVIOUS
  <2>2. QED
    BY <1>2, <2>1
<1>4. \E z \in S : \A y \in S : z >= y
  BY <1>2, <1>3
<1>5. QED
  BY <1>4 DEF Max

LEMMA MinOf ==
    ASSUME NEW S \in SUBSET Nat, NEW x \in S
    PROVE  Min(S) \in S /\ \A y \in S : Min(S) <= y
<1>1. \E z \in S : \A y \in S : z <= y
  BY LeastOf
<1>2. QED
  BY <1>1 DEF Min

(* A part starts where it should and is short enough, the next one starts   *)
(* behind it, and no letter is between them.                               *)
LEMMA DividedParts ==
    ASSUME NEW t \in Seq(Chars), NEW i \in 1..(Len(t) + 1), Len(t) - i + 1 > SlackLimit
    PROVE  /\ Divided(t, i).part \in Spans
           /\ Divided(t, i).part.from = i
           /\ Divided(t, i).part.to - i < SlackLimit
           /\ Divided(t, i).next \in (i + 1)..(Len(t) + 1)
           /\ Divided(t, i).part.to < Divided(t, i).next
           /\ \A x \in i..(Divided(t, i).next - 1) :
                 t[x] = "letter" => x <= Divided(t, i).part.to
<1> DEFINE N == Len(t)
           L == SlackLimit
           at == Max(Breaks(t, i) \cup {i})
           letters == {j \in i..(at - 1) : t[j] = "letter"}
           to == Max(letters \cup {i - 1})
           others == {j \in at..N : t[j] # "line"} \cup {N + 1}
           next == Min(others)
<1>1. L \in Nat \ {0} /\ N \in Nat
  BY SlackAssumption
<1>2. Breaks(t, i) \subseteq i..(i + L - 1)
  BY DEF Breaks, Within
<1>3. at \in i..(i + L - 1)
  <2>1. Breaks(t, i) \cup {i} \in SUBSET Int
        /\ \A y \in Breaks(t, i) \cup {i} : y <= i + L - 1
    BY <1>1, <1>2
  <2>2. i + L - 1 \in Int
    BY <1>1
  <2>3. at \in Breaks(t, i) \cup {i}
    BY <2>1, <2>2, MaxOf
  <2>4. QED
    BY <1>1, <1>2, <2>3
<1>4. CASE at = i
  <2>1. Divided(t, i) = [part |-> Span(i, i + L - 1), next |-> i + L]
    BY <1>4 DEF Divided, AfterHardCut
  <2>2. Divided(t, i).part = [from |-> i, to |-> i + L - 1] /\ Divided(t, i).next = i + L
    BY <2>1 DEF Span
  <2>3. QED
    BY <1>1, <2>2 DEF Spans
<1>5. CASE at # i
  <2>1. Divided(t, i) = [part |-> Span(i, to), next |-> next]
    BY <1>5 DEF Divided
  <2>2. Divided(t, i).part = [from |-> i, to |-> to] /\ Divided(t, i).next = next
    BY <2>1 DEF Span
  <2> HIDE DEF at
  <2>3. to \in (i - 1)..(at - 1) /\ \A j \in letters : j <= to
    <3>1. letters \cup {i - 1} \in SUBSET Int
          /\ \A y \in letters \cup {i - 1} : y <= at - 1
      BY <1>3
    <3>2. at - 1 \in Int
      BY <1>3
    <3> HIDE DEF letters
    <3>3. to \in letters \cup {i - 1} /\ \A y \in letters \cup {i - 1} : y <= to
      BY <3>1, <3>2, MaxOf
    <3>4. QED
      BY <1>3, <3>1, <3>3 DEF letters
  <2>4. next \in at..(N + 1) /\ \A j \in others : next <= j
    <3>1. others \in SUBSET Nat /\ N + 1 \in others
      BY <1>1, <1>3
    <3>2. others \subseteq at..(N + 1)
      BY <1>1, <1>3
    <3> HIDE DEF others
    <3>3. QED
      BY <3>1, <3>2, MinOf
  <2> HIDE DEF to, next
  <2>5. at > i
    BY <1>3, <1>5
  <2>6. ASSUME NEW x \in i..(next - 1), t[x] = "letter"
        PROVE  x <= to
    <3>1. CASE x < at
      BY <1>3, <2>3, <2>6, <3>1
    <3>2. CASE x >= at
      <4>1. x \in others
        BY <1>1, <1>3, <2>4, <2>6, <3>2
      <4>2. QED
        BY <2>4, <4>1
    <3>3. QED
      BY <1>3, <3>1, <3>2
  <2>7. /\ to - i < L /\ to < next /\ next \in (i + 1)..(N + 1) /\ to \in Int
    BY <1>1, <1>3, <2>3, <2>4, <2>5
  <2>8. QED
    BY <2>2, <2>6, <2>7 DEF Spans
<1>6. QED
  BY <1>4, <1>5

(* The parts s of the text t from i on.                                    *)
Parted(t, i, s) ==
    /\ s \in Seq(Spans)
    /\ \A k \in DOMAIN s : s[k].from >= i /\ s[k].to - s[k].from < SlackLimit
    /\ \A j, k \in DOMAIN s : j < k => s[j].to < s[k].from
    /\ \A x \in i..Len(t) :
          t[x] = "letter" => \E k \in DOMAIN s : x \in s[k].from..s[k].to

LEMMA PartedMore ==
    ASSUME NEW t \in Seq(Chars), NEW i \in 1..(Len(t) + 1),
           NEW next \in (i + 1)..(Len(t) + 1), NEW part \in Spans, part.from = i,
           part.to - i < SlackLimit, part.to < next,
           \A x \in i..(next - 1) : t[x] = "letter" => x <= part.to,
           NEW rest, Parted(t, next, rest)
    PROVE  Parted(t, i, <<part>> \o rest)
<1> DEFINE s == <<part>> \o rest
<1>1. rest \in Seq(Spans) /\ Len(rest) \in Nat
  BY DEF Parted
<1>2. /\ s \in Seq(Spans) /\ DOMAIN s = 1..(Len(rest) + 1) /\ s[1] = part
      /\ \A k \in 2..(Len(rest) + 1) : s[k] = rest[k - 1] /\ k - 1 \in DOMAIN rest
      /\ \A k \in DOMAIN rest : k + 1 \in DOMAIN s /\ s[k + 1] = rest[k]
  BY <1>1
<1>3. \A k \in DOMAIN rest : rest[k] \in Spans
  BY <1>1
<1> HIDE DEF s
<1>4. ASSUME NEW k \in DOMAIN s
      PROVE  s[k].from >= i /\ s[k].to - s[k].from < SlackLimit
  <2>1. CASE k = 1
    BY <1>2, <2>1 DEF Spans
  <2>2. CASE k # 1
    <3>1. k - 1 \in DOMAIN rest /\ s[k] = rest[k - 1]
      BY <1>1, <1>2, <2>2
    <3>2. rest[k - 1].from >= next /\ rest[k - 1].to - rest[k - 1].from < SlackLimit
      BY <3>1 DEF Parted
    <3>3. rest[k - 1].from \in Int
      BY <1>3, <3>1 DEF Spans
    <3>4. QED
      BY <3>1, <3>2, <3>3
  <2>3. QED
    BY <2>1, <2>2
<1>5. ASSUME NEW j \in DOMAIN s, NEW k \in DOMAIN s, j < k
      PROVE  s[j].to < s[k].from
  <2>1. k - 1 \in DOMAIN rest /\ s[k] = rest[k - 1]
    BY <1>1, <1>2, <1>5
  <2>2. CASE j = 1
    <3>1. rest[k - 1].from >= next /\ rest[k - 1].from \in Int
      BY <1>3, <2>1 DEF Parted, Spans
    <3>2. part.to \in Int
      BY DEF Spans
    <3>3. QED
      BY <1>2, <2>1, <2>2, <3>1, <3>2
  <2>3. CASE j # 1
    <3>1. j - 1 \in DOMAIN rest /\ s[j] = rest[j - 1] /\ j - 1 < k - 1
      BY <1>1, <1>2, <1>5, <2>3
    <3>2. QED
      BY <2>1, <3>1 DEF Parted
  <2>4. QED
    BY <2>2, <2>3
<1>6. ASSUME NEW x \in i..Len(t), t[x] = "letter"
      PROVE  \E k \in DOMAIN s : x \in s[k].from..s[k].to
  <2>1. CASE x < next
    <3>1. x <= part.to
      BY <1>6, <2>1
    <3>2. part.from = i /\ part.to \in Int
      BY DEF Spans
    <3>3. x \in s[1].from..s[1].to /\ 1 \in DOMAIN s
      BY <1>1, <1>2, <3>1, <3>2
    <3>4. QED
      BY <3>3
  <2>2. CASE x >= next
    <3>1. x \in next..Len(t)
      BY <2>2
    <3>2. PICK k \in DOMAIN rest : x \in rest[k].from..rest[k].to
      BY <1>6, <3>1 DEF Parted
    <3>3. QED
      BY <1>2, <3>2
  <2>3. QED
    BY <2>1, <2>2
<1>7. QED
  BY <1>2, <1>4, <1>5, <1>6 DEF Parted, s

(* The parts of a whole text.                                              *)
LEMMA SplitParts ==
    ASSUME NEW t \in Seq(Chars)
    PROVE  Parted(t, 1, Split(t))
<1> DEFINE N == Len(t)
           g(h, i) == IF N - i + 1 <= SlackLimit
                      THEN IF i > N THEN <<>> ELSE <<Span(i, N)>>
                      ELSE <<Divided(t, i).part>> \o h[Divided(t, i).next]
           Built == {n \in Nat : n <= N =>
                        \E h : h = [i \in (N + 1 - n)..(N + 1) |-> g(h, i)]}
<1>1. N \in Nat /\ SlackLimit \in Nat \ {0}
  BY SlackAssumption
<1>2. 0 \in Built
  <2> DEFINE h == [i \in (N + 1)..(N + 1) |-> <<>>]
  <2>1. h = [i \in (N + 1)..(N + 1) |-> g(h, i)]
    BY <1>1
  <2> HIDE DEF h
  <2>2. QED
    BY <1>1, <2>1
<1>3. ASSUME NEW n \in Built PROVE n + 1 \in Built
  <2> DEFINE lo == N - n
  <2> SUFFICES ASSUME n + 1 <= N
               PROVE  \E h : h = [i \in lo..(N + 1) |-> g(h, i)]
    BY <1>1
  <2>1. PICK h : h = [i \in (lo + 1)..(N + 1) |-> g(h, i)]
    BY <1>1
  <2> DEFINE k == [i \in lo..(N + 1) |-> IF i = lo THEN g(h, lo) ELSE h[i]]
  <2>2. ASSUME NEW i \in lo..(N + 1) PROVE k[i] = g(k, i)
    <3>1. g(k, i) = g(h, i)
      <4>1. CASE N - i + 1 <= SlackLimit
        BY <4>1
      <4>2. CASE N - i + 1 > SlackLimit
        <5>1. i \in 1..(N + 1)
          BY <1>1
        <5>2. Divided(t, i).next \in (i + 1)..(N + 1)
          BY <4>2, <5>1, DividedParts
        <5>3. k[Divided(t, i).next] = h[Divided(t, i).next]
          BY <1>1, <5>2
        <5> HIDE DEF k
        <5>4. ~(N - i + 1 <= SlackLimit)
          BY <1>1, <4>2
        <5>5. QED
          BY <5>3, <5>4
      <4>3. QED
        BY <1>1, <4>1, <4>2
    <3>2. CASE i = lo
      BY <3>1, <3>2
    <3>3. CASE i # lo
      <4>1. i \in (lo + 1)..(N + 1) /\ k[i] = h[i]
        BY <1>1, <3>3
      <4>2. h[i] = g(h, i)
        BY <2>1, <4>1
      <4>3. QED
        BY <3>1, <4>1, <4>2
    <3>4. QED
      BY <3>2, <3>3
  <2>3. k = [i \in lo..(N + 1) |-> g(k, i)]
    BY <2>2
  <2> HIDE DEF k
  <2>4. QED
    BY <2>3
<1>4. Built = Nat
  <2> HIDE DEF Built
  <2>1. Built \in SUBSET Nat
    BY DEF Built
  <2>2. QED
    BY <1>2, <1>3, <2>1, Induction
<1>5. \E h : h = [i \in 1..(N + 1) |-> g(h, i)]
  BY <1>1, <1>4
<1> DEFINE from == CHOOSE h : h = [i \in 1..(N + 1) |-> g(h, i)]
<1>6. from = [i \in 1..(N + 1) |-> g(from, i)]
  BY <1>5
<1>7. Split(t) = from[1]
  BY DEF Split
<1> HIDE DEF from
<1> DEFINE Bad == {n \in 0..N : ~Parted(t, N + 1 - n, from[N + 1 - n])}
<1>8. Bad = {}
  <2> SUFFICES ASSUME NEW b \in Bad PROVE FALSE
    OBVIOUS
  <2>1. PICK n \in Bad : \A m \in Bad : n <= m
    <3>1. Bad \in SUBSET Nat
      OBVIOUS
    <3> HIDE DEF Bad
    <3>2. QED
      BY <3>1, LeastOf
  <2> DEFINE i == N + 1 - n
  <2>2. i \in 1..(N + 1)
    BY <1>1
  <2>3. from[i] = g(from, i)
    BY <1>6, <2>2
  <2>4. Parted(t, i, from[i])
    <3> HIDE DEF i
    <3>1. CASE N - i + 1 <= SlackLimit /\ i > N
      <4>1. from[i] = <<>> /\ i..N = {}
        BY <1>1, <2>2, <2>3, <3>1
      <4>2. QED
        BY <4>1 DEF Parted
    <3>2. CASE N - i + 1 <= SlackLimit /\ i <= N
      <4>1. from[i] = <<[from |-> i, to |-> N]>>
        BY <1>1, <2>2, <2>3, <3>2 DEF Span
      <4>2. [from |-> i, to |-> N] \in Spans
        BY <1>1, <2>2 DEF Spans
      <4>3. QED
        BY <1>1, <2>2, <3>2, <4>1, <4>2 DEF Parted
    <3>3. CASE N - i + 1 > SlackLimit
      <4> DEFINE part == Divided(t, i).part
                 next == Divided(t, i).next
      <4>1. /\ part \in Spans /\ part.from = i /\ part.to - i < SlackLimit
            /\ next \in (i + 1)..(N + 1) /\ part.to < next
            /\ \A x \in i..(next - 1) : t[x] = "letter" => x <= part.to
        BY <2>2, <3>3, DividedParts
      <4>2. from[i] = <<part>> \o from[next]
        BY <1>1, <2>2, <2>3, <3>3
      <4> HIDE DEF part, next
      <4>3. N + 1 - next \in 0..N /\ ~(n <= N + 1 - next)
            /\ N + 1 - (N + 1 - next) = next
        BY <1>1, <2>2, <4>1 DEF i
      <4>4. Parted(t, next, from[next])
        BY <2>1, <4>3
      <4> HIDE DEF N
      <4>5. QED
        BY <2>2, <4>1, <4>2, <4>4, PartedMore DEF N
    <3>4. QED
      BY <1>1, <2>2, <3>1, <3>2, <3>3
  <2>5. QED
    BY <2>4
<1>9. N \notin Bad /\ N + 1 - N = 1
  BY <1>1, <1>8
<1>10. QED
  BY <1>1, <1>7, <1>9

(* A channel has the parts of what the handler had to say, or nothing yet.  *)
Delivered(p) ==
    /\ bot[p] \in {"handling", "raised"} => posted[p] = <<>>
    /\ \/ text[p] = <<>> /\ posted[p] = <<>>
       \/ text[p] \in Seq(Chars) /\ posted[p] = Split(text[p])

DeliveredInv ==
    /\ DOMAIN bot = Procs /\ DOMAIN text = Procs /\ DOMAIN posted = Procs
    /\ \A p \in Procs : Delivered(p)

LEMMA SaysDelivers ==
    ASSUME DeliveredInv, NEW p \in Procs, NEW t \in Seq(Chars), Says(p, t)
    PROVE  DeliveredInv'
<1>1. /\ bot' = [bot EXCEPT ![p] = "replied"]
      /\ text' = [text EXCEPT ![p] = t]
      /\ posted' = [posted EXCEPT ![p] = Split(t)]
  BY DEF Says
<1>2. DOMAIN bot' = Procs /\ DOMAIN text' = Procs /\ DOMAIN posted' = Procs
  BY <1>1 DEF DeliveredInv
<1>3. ASSUME NEW q \in Procs PROVE Delivered(q)'
  <2>1. CASE q = p
    <3>1. bot'[q] = "replied" /\ text'[q] = t /\ posted'[q] = Split(t)
      BY <1>1, <2>1 DEF DeliveredInv
    <3>2. posted'[q] = Split(text'[q])
      BY <3>1
    <3>3. QED
      BY <3>1, <3>2 DEF Delivered
  <2>2. CASE q # p
    <3>1. UNCHANGED <<bot[q], text[q], posted[q]>>
      BY <1>1, <2>2 DEF DeliveredInv
    <3>2. QED
      BY <3>1 DEF Delivered, DeliveredInv
  <2>3. QED
    BY <2>1, <2>2
<1>4. QED
  BY <1>2, <1>3 DEF DeliveredInv

LEMMA DeliveredStep ==
    ASSUME DeliveredInv, [SlackNext]_<<vars, slack>>
    PROVE  DeliveredInv'
<1>1. CASE UNCHANGED slack
  BY <1>1 DEF slack, DeliveredInv, Delivered
<1>2. ASSUME NEW p \in Procs, NotAsked(p) PROVE DeliveredInv'
  <2>1. CASE UNCHANGED <<text, posted>> /\ bot' = [bot EXCEPT ![p] = "replied"]
    <3>1. \A q \in Procs : bot'[q] \in {"handling", "raised"} => bot'[q] = bot[q]
      BY <2>1 DEF DeliveredInv
    <3>2. DOMAIN bot' = Procs
      BY <2>1 DEF DeliveredInv
    <3>3. QED
      BY <2>1, <3>1, <3>2 DEF DeliveredInv, Delivered
  <2>2. CASE Says(p, Error)
    <3>1. Error \in Seq(Chars)
      BY DEF Error, Chars
    <3>2. QED
      BY <2>2, <3>1, SaysDelivers
  <2>3. QED
    BY <1>2, <2>1, <2>2 DEF NotAsked
<1>3. ASSUME NEW p \in Procs, Replies(p) PROVE DeliveredInv'
  <2>1. ASSUME NEW answer \in Answers, NEW header \in BOOLEAN, NEW cited \in BOOLEAN
        PROVE  Text(header, answer, cited) \in Seq(Chars)
    <3>1. answer \in Seq(Chars)
      BY SlackAssumption DEF Chars
    <3>2. /\ <<"letter", "line">> \in Seq(Chars)
          /\ <<"line", "line", "letter", "space", "letter">> \in Seq(Chars)
          /\ <<>> \in Seq(Chars)
      BY DEF Chars
    <3>3. QED
      BY <3>1, <3>2 DEF Text
  <2>2. Error \in Seq(Chars)
    BY DEF Error, Chars
  <2>3. QED
    BY <1>3, <2>1, <2>2, SaysDelivers DEF Replies
<1>4. ASSUME NEW p \in Procs, TimesOut(p) PROVE DeliveredInv'
  <2>1. /\ bot' = [bot EXCEPT ![p] = "raised"] /\ bot[p] = "handling"
        /\ UNCHANGED <<text, posted>>
    BY <1>4 DEF TimesOut
  <2>2. posted[p] = <<>>
    BY <2>1 DEF DeliveredInv, Delivered
  <2>3. DOMAIN bot' = Procs /\ \A q \in Procs \ {p} : bot'[q] = bot[q]
    BY <2>1 DEF DeliveredInv
  <2>4. QED
    BY <2>1, <2>2, <2>3 DEF DeliveredInv, Delivered
<1>5. QED
  BY <1>1, <1>2, <1>3, <1>4 DEF SlackNext, Handles

(* A text in parts has each letter in just one message.                    *)
LEMMA DeliveredWhole ==
    ASSUME NEW t \in Seq(Chars), NEW s, Parted(t, 1, s)
    PROVE  /\ \A k \in DOMAIN s : s[k].to - s[k].from < SlackLimit
           /\ \A i \in DOMAIN t : t[i] = "letter" =>
                 Cardinality({k \in DOMAIN s : i \in s[k].from..s[k].to}) = 1
           /\ \A j, k \in DOMAIN s : j < k => s[j].to < s[k].from
<1>1. ASSUME NEW i \in DOMAIN t, t[i] = "letter"
      PROVE  Cardinality({k \in DOMAIN s : i \in s[k].from..s[k].to}) = 1
  <2>1. PICK k \in DOMAIN s : i \in s[k].from..s[k].to
    BY <1>1 DEF Parted
  <2>2. ASSUME NEW j \in DOMAIN s, i \in s[j].from..s[j].to
        PROVE  j = k
    <3>1. /\ j < k => s[j].to < s[k].from
          /\ k < j => s[k].to < s[j].from
      BY DEF Parted
    <3>2. /\ s[j].from \in Int /\ s[j].to \in Int /\ s[k].from \in Int
          /\ s[k].to \in Int /\ j \in Nat /\ k \in Nat /\ i \in Int
      <4>1. s \in Seq(Spans)
        BY DEF Parted
      <4>2. s[j] \in Spans /\ s[k] \in Spans /\ j \in Nat /\ k \in Nat
        BY <4>1
      <4>3. QED
        BY <4>2 DEF Spans
    <3>3. QED
      BY <2>1, <2>2, <3>1, <3>2
  <2>3. {j \in DOMAIN s : i \in s[j].from..s[j].to} = {k}
    BY <2>1, <2>2
  <2>4. QED
    BY <2>3, FS_Singleton
<1>2. QED
  BY <1>1 DEF Parted

(* What the handler has to say reaches the channel, whatever the text and   *)
(* the limit are: each letter in just one message, in order, no message     *)
(* longer than the limit, and nothing from a handler that gave up           *)
(* (handle_message, _split_text).                                          *)
THEOREM Posted == SlackSpec => []Replied
<1>1. SlackInit => DeliveredInv
  BY DEF SlackInit, DeliveredInv, Delivered
<1>2. DeliveredInv /\ [SlackNext]_<<vars, slack>> => DeliveredInv'
  BY DeliveredStep
<1>3. DeliveredInv => Replied
  <2> SUFFICES ASSUME DeliveredInv, NEW p \in Procs
               PROVE  /\ bot[p] = "raised" => posted[p] = <<>>
                      /\ \A k \in DOMAIN posted[p] :
                            posted[p][k].to - posted[p][k].from < SlackLimit
                      /\ \A i \in DOMAIN text[p] : text[p][i] = "letter" =>
                            Cardinality({k \in DOMAIN posted[p] :
                               i \in posted[p][k].from..posted[p][k].to}) = 1
                      /\ \A j, k \in DOMAIN posted[p] :
                            j < k => posted[p][j].to < posted[p][k].from
    BY DEF Replied
  <2>1. Delivered(p)
    BY DEF DeliveredInv
  <2>2. CASE text[p] = <<>> /\ posted[p] = <<>>
    BY <2>1, <2>2 DEF Delivered
  <2>3. CASE text[p] \in Seq(Chars) /\ posted[p] = Split(text[p])
    BY <2>1, <2>3, SplitParts, DeliveredWhole DEF Delivered
  <2>4. QED
    BY <2>1, <2>2, <2>3 DEF Delivered
<1>4. QED
  BY <1>1, <1>2, <1>3, PTL DEF SlackSpec
===============================================================================
