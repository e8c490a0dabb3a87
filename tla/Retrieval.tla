------------------------------- MODULE Retrieval -------------------------------
(***************************************************************************)
(* Hybrid retrieval (firm_bot/retrieve): two rankings of chunk ids, one by *)
(* keyword (BM25) and one by vector distance (Chroma), are fused by        *)
(* reciprocal rank, cut to the k best, and their head is re-ordered by a   *)
(* cross-encoder when one is configured.                                   *)
(*                                                                         *)
(* A ranking is a sequence without repetition, the best first.  Scores are *)
(* exact here; the code's floats round after some sixteen digits.          *)
(***************************************************************************)
EXTENDS Integers, Sequences, FiniteSets, SequencesExt, Functions

CONSTANTS
    Ids,           \* chunk ids
    K,             \* chunks that go to the model (answer_k)
    MinPool,       \* the least size of the candidate pool (16)
    KRRF,          \* the constant of the reciprocal rank (60)
    BM25Weight,    \* the weights, as whole numbers of the same unit
    DenseWeight,
    RerankTop      \* hits the cross-encoder scores; 0: all of them

ASSUME RetrievalAssumption ==
    /\ {K, MinPool, KRRF} \subseteq Nat \ {0}
    /\ {BM25Weight, DenseWeight, RerankTop} \subseteq Nat

LOCAL Smaller(m, n) == IF m < n THEN m ELSE n
LOCAL Larger(m, n) == IF m > n THEN m ELSE n

Pool == Larger(2 * K, MinPool)

Cut(s, n) == SubSeq(s, 1, Smaller(n, Len(s)))

(* Every order of some members of S, at most n of them.                    *)
Rankings(S, n) ==
    UNION {{s \in [1..m -> S] : IsInjective(s)} :
              m \in 0..Smaller(n, Cardinality(S))}

(* Every order of the best n members of S, or of all where it has fewer.   *)
FullRankings(S, n) == {s \in Rankings(S, n) : Len(s) = Smaller(n, Cardinality(S))}

(* The place of id in a ranking; 0 when it is not there (-1 in the code,   *)
(* whose ranks start at 0).                                                *)
Place(s, id) == IF \E i \in DOMAIN s : s[i] = id
                THEN CHOOSE i \in DOMAIN s : s[i] = id ELSE 0

(* A common denominator of all reciprocal ranks.                           *)
Unit == LET f[n \in 0..Pool] == IF n = 0 THEN 1 ELSE (KRRF + n) * f[n - 1]
        IN  f[Pool]

Share(weight, place) ==
    IF place = 0 THEN 0 ELSE weight * (Unit \div (KRRF + place))

Score(bm25, dense, id) ==
    Share(BM25Weight, Place(bm25, id)) + Share(DenseWeight, Place(dense, id))

(* When an id was put in the dictionary "scores": the keyword hits come     *)
(* first, then the dense ones that are new.                                *)
Entered(bm25, dense, id) ==
    IF Place(bm25, id) # 0 THEN Place(bm25, id)
    ELSE Len(bm25) + Place(dense, id)

(* sorted() is stable, with reverse=True too.                              *)
Ahead(bm25, dense, a, b) ==
    LET sa == Score(bm25, dense, a)
        sb == Score(bm25, dense, b)
    IN  sa > sb \/ (sa = sb /\ Entered(bm25, dense, a) < Entered(bm25, dense, b))

(* Reciprocal rank fusion: the K best.                                     *)
Fused(bm25, dense) ==
    LET ids == ToSet(bm25) \cup ToSet(dense)
    IN  Cut([i \in 1..Cardinality(ids) |->
                CHOOSE id \in ids :
                    Cardinality({o \in ids : Ahead(bm25, dense, o, id)}) = i - 1],
            K)

(* Deviation: what the cross-encoder did not score is forgotten.           *)
RerankedHead(fused) ==
    LET n == IF RerankTop = 0 THEN Len(fused) ELSE Smaller(RerankTop, Len(fused))
    IN  FullRankings(ToSet(Cut(fused, n)), n)

(* rerank(): any order of the head, by the scores the model gives; the     *)
(* tail keeps its order.                                                   *)
Reranked(fused) ==
    LET n == IF RerankTop = 0 THEN Len(fused) ELSE Smaller(RerankTop, Len(fused))
    IN  {head \o SubSeq(fused, n + 1, Len(fused)) :
            head \in FullRankings(ToSet(Cut(fused, n)), n)}

(* a is placed better than b wherever either is placed.                    *)
Dominates(bm25, dense, a, b) ==
    /\ a # b
    /\ \A s \in {bm25, dense} :
          Place(s, b) = 0 \/ (Place(s, a) # 0 /\ Place(s, a) < Place(s, b))
===============================================================================
