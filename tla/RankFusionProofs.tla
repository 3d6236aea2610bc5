--------------------------- MODULE RankFusionProofs ---------------------------
(***************************************************************************)
(* Proofs about RankFusion, for any number of chunks, any depth of the     *)
(* rankings and any rrf_k.  Reciprocals of ranks strictly decrease, so a   *)
(* chunk that both rankings prefer has the greater score, and no tie is    *)
(* involved; what is sorted before what is then read off from IsTop.       *)
(***************************************************************************)
EXTENDS RankFusion, FiniteSetTheorems, SequenceTheorems, TLAPS

\* What the proofs use of the inputs: two rankings without repetition.
IsRanking(s) ==
    /\ s \in Seq(Chunks)
    /\ Len(s) <= Depth
    /\ \A i, j \in 1 .. Len(s) : s[i] = s[j] => i = j

InputsOK == IsRanking(dense) /\ IsRanking(sparse) /\ rrfK \in RrfKs

LEMMA DepthBounds ==
  Depth \in Nat \ {0} /\ DenseDepth <= Depth /\ SparseDepth <= Depth
BY LimitsAssumption DEF Depth

LEMMA RankingIsSequence ==
  ASSUME NEW n \in 0 .. Depth, NEW s \in Rankings(Chunks, n)
  PROVE  IsRanking(s) /\ Len(s) = n
<1>1. n \in Nat /\ n <= Depth
  BY DepthBounds
<1>2. s \in [1 .. n -> Chunks]
  BY DEF Rankings
<1>3. s \in Seq(Chunks)
  BY <1>1, <1>2, SeqDef
<1>4. Len(s) = n
  BY <1>1, <1>2, <1>3, LenProperties
<1> QED
  BY <1>1, <1>3, <1>4 DEF IsRanking, Rankings

LEMMA TypedInputs == TypeOK => InputsOK
<1> SUFFICES ASSUME TypeOK PROVE InputsOK
  OBVIOUS
<1>1. PICK m \in 0 .. DenseDepth : dense \in Rankings(Chunks, m)
  BY DEF TypeOK
<1>2. PICK n \in 0 .. SparseDepth : sparse \in Rankings(Chunks, n)
  BY DEF TypeOK
<1>3. m \in 0 .. Depth /\ n \in 0 .. Depth
  BY <1>1, <1>2, DepthBounds, LimitsAssumption
<1>4. IsRanking(dense) /\ IsRanking(sparse)
  BY <1>1, <1>2, <1>3, RankingIsSequence
<1> QED
  BY <1>4 DEF TypeOK, InputsOK

-----------------------------------------------------------------------------
(* Ranks and reciprocals *)

\* The rank of a chunk is where the ranking has it; otherwise it exceeds every rank.
LEMMA RankOf ==
  ASSUME InputsOK, NEW s \in {dense, sparse}, NEW c \in Chunks
  PROVE  /\ RankIn(s, c) \in Nat \ {0}
         /\ In(s, c) => RankIn(s, c) \in 1 .. Len(s) /\ s[RankIn(s, c)] = c
         /\ ~In(s, c) => RankIn(s, c) = Infinity
         /\ Len(s) < Infinity /\ Infinity \in Nat
<1>1. s \in Seq(Chunks) /\ DOMAIN s = 1 .. Len(s) /\ Len(s) \in Nat
  BY DEF InputsOK, IsRanking
<1>2. Len(s) < Infinity /\ Infinity \in Nat
  BY DEF InputsOK, IsRanking, Infinity
<1>3. CASE In(s, c)
  <2>1. RankIn(s, c) = CHOOSE i \in DOMAIN s : s[i] = c
    BY <1>3 DEF RankIn
  <2>2. \E i \in DOMAIN s : s[i] = c
    BY <1>3 DEF In
  <2>3. RankIn(s, c) \in DOMAIN s /\ s[RankIn(s, c)] = c
    BY <2>1, <2>2
  <2> QED
    BY <1>1, <1>2, <1>3, <2>3
<1>4. CASE ~In(s, c)
  BY <1>2, <1>4 DEF RankIn, Infinity
<1> QED
  BY <1>3, <1>4

LEMMA ProductsOrder ==
  ASSUME NEW a \in Nat, NEW b \in Nat, NEW v \in Nat, NEW w \in Nat,
         a < b, v * a = w * b, v * a > 0
  PROVE  v > w
<1>1. SUFFICES ASSUME v <= w PROVE FALSE
  OBVIOUS
<1>2. v * a <= w * a
  BY <1>1
<1>3. w > 0
  BY <1>1
<1>4. w * a < w * b
  BY <1>3
<1>5. v * a \in Nat /\ w * a \in Nat /\ w * b \in Nat
  OBVIOUS
<1> QED
  BY <1>2, <1>4, <1>5

\* A better rank has a greater reciprocal, and all of them count.
LEMMA ReciprocalsDecrease ==
  ASSUME NEW rrf \in RrfKs, NEW q \in 1 .. Depth, NEW r \in 1 .. Depth
  PROVE  /\ Scale \div (rrf + r) \in Nat \ {0}
         /\ q < r => Scale \div (rrf + q) > Scale \div (rrf + r)
<1> DEFINE v == Scale \div (rrf + q)
           w == Scale \div (rrf + r)
<1>1. rrf \in Nat /\ Scale \in Nat /\ Scale > 0 /\ Depth \in Nat
  BY LimitsAssumption, DepthBounds
<1>2. v \in Nat /\ Scale = v * (rrf + q)
  BY ScaleAssumption
<1>3. w \in Nat /\ Scale = w * (rrf + r)
  BY ScaleAssumption
<1> HIDE DEF v, w
<1>4. w # 0
  BY <1>1, <1>3
<1>5. ASSUME q < r PROVE v > w
  <2>1. rrf + q \in Nat /\ rrf + r \in Nat /\ rrf + q < rrf + r
    BY <1>1, <1>5
  <2> QED
    BY <1>1, <1>2, <1>3, <2>1, ProductsOrder
<1> QED
  BY <1>3, <1>4, <1>5 DEF v, w

LEMMA ReciprocalOf ==
  ASSUME InputsOK, NEW s \in {dense, sparse}, NEW c \in Chunks
  PROVE  /\ Reciprocal(s, c) \in Nat
         /\ In(s, c) => Reciprocal(s, c) > 0
         /\ ~In(s, c) => Reciprocal(s, c) = 0
<1>1. CASE In(s, c)
  <2>1. RankIn(s, c) \in 1 .. Depth
    BY <1>1, RankOf, LimitsAssumption, DepthBounds DEF InputsOK, IsRanking
  <2> QED
    BY <1>1, <2>1, ReciprocalsDecrease DEF Reciprocal, InputsOK
<1>2. CASE ~In(s, c)
  BY <1>2 DEF Reciprocal
<1> QED
  BY <1>1, <1>2

\* What one ranking contributes to a chunk it prefers.
LEMMA PreferredCountsMore ==
  ASSUME InputsOK, NEW s \in {dense, sparse}, NEW c \in Chunks, NEW d \in Chunks,
         d # c, RankIn(s, d) <= RankIn(s, c)
  PROVE  /\ Reciprocal(s, d) >= Reciprocal(s, c)
         /\ In(s, c) => Reciprocal(s, d) > Reciprocal(s, c)
<1>1. CASE ~In(s, c)
  BY <1>1, ReciprocalOf
<1>2. CASE In(s, c)
  <2>1. RankIn(s, c) \in 1 .. Len(s) /\ s[RankIn(s, c)] = c
    BY <1>2, RankOf
  <2>2. In(s, d) /\ RankIn(s, d) \in 1 .. Len(s) /\ s[RankIn(s, d)] = d
    BY <2>1, RankOf DEF InputsOK, IsRanking
  <2>3. RankIn(s, d) < RankIn(s, c)
    BY <2>1, <2>2
  <2>4. RankIn(s, d) \in 1 .. Depth /\ RankIn(s, c) \in 1 .. Depth
    BY <2>1, <2>2, LimitsAssumption, DepthBounds DEF InputsOK, IsRanking
  <2>5. Scale \div (rrfK + RankIn(s, d)) > Scale \div (rrfK + RankIn(s, c))
    BY <2>3, <2>4, ReciprocalsDecrease DEF InputsOK
  <2>6. Reciprocal(s, d) > Reciprocal(s, c)
    BY <1>2, <2>2, <2>5 DEF Reciprocal
  <2> QED
    BY <2>6, ReciprocalOf
<1> QED
  BY <1>1, <1>2

LEMMA DominatingScoresMore ==
  ASSUME InputsOK, NEW c \in Candidates, NEW d \in Candidates, Dominates(d, c)
  PROVE  Score(d) > Score(c)
<1>1. c \in Chunks /\ d \in Chunks /\ d # c /\ (In(dense, c) \/ In(sparse, c))
  BY DEF Candidates, Dominates
<1>2. RankIn(dense, d) <= RankIn(dense, c) /\ RankIn(sparse, d) <= RankIn(sparse, c)
  BY DEF Dominates
<1>3. /\ Reciprocal(dense, d) >= Reciprocal(dense, c)
      /\ In(dense, c) => Reciprocal(dense, d) > Reciprocal(dense, c)
  BY <1>1, <1>2, PreferredCountsMore
<1>4. /\ Reciprocal(sparse, d) >= Reciprocal(sparse, c)
      /\ In(sparse, c) => Reciprocal(sparse, d) > Reciprocal(sparse, c)
  BY <1>1, <1>2, PreferredCountsMore
<1>5. /\ Reciprocal(dense, c) \in Nat /\ Reciprocal(dense, d) \in Nat
      /\ Reciprocal(sparse, c) \in Nat /\ Reciprocal(sparse, d) \in Nat
  BY <1>1, ReciprocalOf
<1> QED
  BY <1>1, <1>3, <1>4, <1>5 DEF Score

\* A chunk of a greater score stands before one that is among the results.
LEMMA GreaterScoreFirst ==
  ASSUME InputsOK, NEW n \in Nat, fused \in [1 .. n -> Candidates], IsTop(fused),
         NEW i \in DOMAIN fused, NEW d \in Candidates, Score(d) > Score(fused[i])
  PROVE  \E j \in DOMAIN fused : j < i /\ fused[j] = d
<1>1. fused[i] \in Candidates /\ i \in 1 .. n
  OBVIOUS
<1>2. Score(d) \in Nat /\ Score(fused[i]) \in Nat
  BY <1>1, ReciprocalOf DEF Score, Candidates
<1>3. ~Before(fused[i], d)
  BY <1>2 DEF Before, SameKey
<1>4. In(fused, d)
  BY <1>3 DEF IsTop
<1>5. PICK j \in DOMAIN fused : fused[j] = d
  BY <1>4 DEF In
<1>6. ~(i < j)
  BY <1>3, <1>5 DEF IsTop
<1>7. i # j
  BY <1>2, <1>5
<1> QED
  BY <1>1, <1>5, <1>6, <1>7

-----------------------------------------------------------------------------
(* The specification *)

LEMMA CutIsBounded ==
  ASSUME k \in Nat
  PROVE  CutSize \in 0 .. k
<1>1. IsFiniteSet(Candidates)
  BY ChunksAssumption, FS_Subset DEF Candidates
<1>2. Cardinality(Candidates) \in Nat
  BY <1>1, FS_CardinalityType
<1> QED
  BY <1>2 DEF CutSize, Smaller

\* The results are the beginning of the sorted candidates, and the hits are those of
\* them that are live.
FusionInv ==
    /\ TypeOK
    /\ pc = "fuse" => fused = <<>>
    /\ pc # "fuse" => IsTop(fused) /\ \E n \in Nat : fused \in [1 .. n -> Candidates]
    /\ pc # "done" => hits = {}
    /\ pc = "done" => hits = {c \in live : In(fused, c)}

LEMMA InitFusion == Init => FusionInv
<1> SUFFICES ASSUME Init PROVE FusionInv
  OBVIOUS
<1>1. /\ Smaller(DenseDepth, Cardinality(Chunks)) \in 0 .. DenseDepth
      /\ Smaller(SparseDepth, Cardinality(Chunks)) \in 0 .. SparseDepth
  BY ChunksAssumption, LimitsAssumption, DepthBounds, FS_CardinalityType DEF Smaller
<1>2. \E n \in 0 .. DenseDepth : dense \in Rankings(Chunks, n)
  BY <1>1 DEF Init
<1>3. \E n \in 0 .. SparseDepth : sparse \in Rankings(Chunks, n)
  BY <1>1, LimitsAssumption, DepthBounds DEF Init
<1>4. k \in Ks /\ k \in Nat
  BY LimitsAssumption, DepthBounds DEF Init
<1>5. <<>> \in [1 .. 0 -> Chunks]
  OBVIOUS
<1>6. \E n \in 0 .. k : fused \in [1 .. n -> Chunks]
  BY <1>4, <1>5 DEF Init
<1> QED
  BY <1>2, <1>3, <1>4, <1>6 DEF Init, FusionInv, TypeOK

\* The order of the candidates does not change while the inputs do not.
LEMMA SameOrder ==
  ASSUME UNCHANGED inputs
  PROVE  /\ Candidates' = Candidates
         /\ \A c, d : Before(c, d)' <=> Before(c, d)
BY DEF inputs, Candidates, Before, SameKey, Score, BestRank, TieBreaker, Reciprocal,
       RankIn, Infinity, In

LEMMA SameTop ==
  ASSUME UNCHANGED inputs, NEW s, fused' = s
  PROVE  IsTop(fused)' <=> IsTop(s)
BY SameOrder DEF IsTop, In

LEMMA FusionStep == FusionInv /\ [Next]_vars => FusionInv'
<1> SUFFICES ASSUME FusionInv, [Next]_vars PROVE FusionInv'
  OBVIOUS
<1>1. CASE Fuse
  <2>1. PICK s \in [1 .. CutSize -> Candidates] : IsTop(s) /\ fused' = s
    BY <1>1 DEF Fuse, Rankings
  <2>2. CutSize \in 0 .. k
    BY CutIsBounded, LimitsAssumption, DepthBounds DEF FusionInv, TypeOK
  <2>3. s \in [1 .. CutSize -> Chunks]
    BY <2>1 DEF Candidates
  <2>4. UNCHANGED <<inputs, live, hits>> /\ pc = "fuse" /\ pc' = "hydrate"
    BY <1>1 DEF Fuse
  <2>5. TypeOK'
    BY <2>1, <2>2, <2>3, <2>4 DEF FusionInv, TypeOK, inputs
  <2>6. IsTop(fused)' /\ Candidates' = Candidates
    BY <2>1, <2>4, SameOrder, SameTop
  <2>7. \E n \in Nat : fused' \in [1 .. n -> Candidates']
    BY <2>1, <2>2, <2>6
  <2> QED
    BY <2>4, <2>5, <2>6, <2>7 DEF FusionInv
<1>2. CASE Hydrate
  <2>1. UNCHANGED <<inputs, fused>> /\ UNCHANGED live
    BY <1>2 DEF Hydrate
  <2>2. hits' = {c \in live' : In(fused, c)'}
    BY <1>2, <2>1 DEF Hydrate, In
  <2>3. TypeOK'
    BY <1>2, <2>1 DEF Hydrate, FusionInv, TypeOK, inputs
  <2> QED
    BY <1>2, <2>1, <2>2, <2>3, SameOrder, SameTop DEF Hydrate, FusionInv
<1>3. ASSUME NEW c \in Chunks, DeleteChunk(c)
      PROVE  FusionInv'
  <2>1. UNCHANGED <<inputs, fused>> /\ UNCHANGED <<pc, hits>> /\ pc # "done"
    BY <1>3 DEF DeleteChunk
  <2>2. TypeOK'
    BY <1>3, <2>1 DEF DeleteChunk, FusionInv, TypeOK, inputs
  <2> QED
    BY <2>1, <2>2, SameOrder, SameTop DEF FusionInv
<1>4. CASE UNCHANGED vars
  <2>1. UNCHANGED <<inputs, fused>> /\ UNCHANGED <<pc, live, hits>>
    BY <1>4 DEF vars, inputs
  <2>2. TypeOK'
    BY <2>1 DEF FusionInv, TypeOK, inputs
  <2> QED
    BY <2>1, <2>2, SameOrder, SameTop DEF FusionInv, In
<1> QED
  BY <1>1, <1>2, <1>3, <1>4 DEF Next, Finished

LEMMA FusionInvariant == Spec => []FusionInv
BY InitFusion, FusionStep, PTL DEF Spec

-----------------------------------------------------------------------------
(* Theorems *)

\* Every variable keeps its type and no more than k results are returned, for any
\* rankings, k and rrf_k.
THEOREM TypeCorrect == Spec => []TypeOK
<1>1. FusionInv => TypeOK
  BY DEF FusionInv
<1> QED
  BY <1>1, FusionInvariant, PTL

\* The fused order never puts a chunk before one that both rankings prefer, whatever
\* rrf_k is; neither the cut nor the filter loses the preferred one.
THEOREM DominancePreserved == Spec => []DominanceRespected
<1>1. ASSUME FusionInv
      PROVE  DominanceRespected
  <2>1. InputsOK
    BY <1>1, TypedInputs DEF FusionInv
  <2>2. ASSUME NEW d \in Candidates, NEW i \in DOMAIN fused, Dominates(d, fused[i])
        PROVE  \E j \in DOMAIN fused : j < i /\ fused[j] = d
    <3>1. PICK n \in Nat : fused \in [1 .. n -> Candidates]
      BY <1>1, <2>2 DEF FusionInv
    <3>2. IsTop(fused)
      BY <1>1, <2>2 DEF FusionInv
    <3>3. Score(d) > Score(fused[i])
      BY <2>1, <2>2, <3>1, DominatingScoresMore
    <3> QED
      BY <2>1, <3>1, <3>2, <3>3, GreaterScoreFirst
  <2>3. ASSUME NEW c \in hits, NEW d \in Candidates \cap live, Dominates(d, c)
        PROVE  d \in hits
    <3>1. hits = {x \in live : In(fused, x)}
      BY <1>1, <2>3 DEF FusionInv
    <3>2. PICK i \in DOMAIN fused : fused[i] = c
      BY <2>3, <3>1 DEF In
    <3>3. \E j \in DOMAIN fused : fused[j] = d
      BY <2>2, <2>3, <3>2
    <3> QED
      BY <2>3, <3>1, <3>3 DEF In
  <2> QED
    BY <2>2, <2>3 DEF DominanceRespected
<1> QED
  BY <1>1, FusionInvariant, PTL

\* Sorting needs no chunk id: score, best rank and dense rank tell any two candidates
\* apart, however the reciprocals add up.
THEOREM OrderOfRankings == Spec => []IdsNeverDecide
<1>1. ASSUME FusionInv
      PROVE  IdsNeverDecide
  <2>1. InputsOK
    BY <1>1, TypedInputs DEF FusionInv
  <2>2. SUFFICES ASSUME NEW c \in Candidates, NEW d \in Candidates, SameKey(c, d)
                 PROVE  c = d
    BY DEF IdsNeverDecide
  <2>3. c \in Chunks /\ d \in Chunks
    BY DEF Candidates
  <2>4. /\ RankIn(dense, c) = RankIn(dense, d)
        /\ Smaller(RankIn(dense, c), RankIn(sparse, c))
             = Smaller(RankIn(dense, d), RankIn(sparse, d))
    BY <2>2 DEF SameKey, TieBreaker, BestRank
  <2>5. CASE In(dense, c)
    <3>1. RankIn(dense, c) \in 1 .. Len(dense) /\ dense[RankIn(dense, c)] = c
      BY <2>1, <2>3, <2>5, RankOf
    <3>2. dense[RankIn(dense, d)] = d
      BY <2>1, <2>3, <2>4, <3>1, RankOf
    <3> QED
      BY <2>4, <3>1, <3>2
  <2>6. CASE ~In(dense, c)
    <3>1. RankIn(dense, c) = Infinity /\ RankIn(dense, d) = Infinity
      BY <2>1, <2>3, <2>4, <2>6, RankOf
    <3>2. ~In(dense, d)
      BY <2>1, <2>3, <3>1, RankOf
    <3>3. In(sparse, c) /\ In(sparse, d)
      BY <2>6, <3>2 DEF Candidates
    <3>4. /\ RankIn(sparse, c) \in 1 .. Len(sparse) /\ sparse[RankIn(sparse, c)] = c
          /\ RankIn(sparse, d) \in 1 .. Len(sparse) /\ sparse[RankIn(sparse, d)] = d
          /\ Len(sparse) < Infinity /\ Infinity \in Nat
      BY <2>1, <2>3, <3>3, RankOf
    <3>5. RankIn(sparse, c) = RankIn(sparse, d)
      BY <2>4, <3>1, <3>4 DEF Smaller
    <3> QED
      BY <3>4, <3>5
  <2> QED
    BY <2>5, <2>6
<1> QED
  BY <1>1, FusionInvariant, PTL

\* Two reciprocals of any rank up to rrf_k + 1 exceed one of rank 1.
LEMMA TwoExceedOne ==
  ASSUME InputsOK, Depth <= rrfK + 1
  PROVE  2 * (Scale \div (rrfK + Depth)) > Scale \div (rrfK + 1)
<1> DEFINE v == Scale \div (rrfK + 1)
           w == Scale \div (rrfK + Depth)
<1>1. rrfK \in Nat \ {0} /\ Depth \in Nat \ {0} /\ Scale \in Nat \ {0}
  BY LimitsAssumption, DepthBounds DEF InputsOK
<1>2. v \in Nat /\ Scale = v * (rrfK + 1)
  BY <1>1, ScaleAssumption DEF InputsOK
<1>3. w \in Nat /\ Scale = w * (rrfK + Depth)
  <2>1. Depth \in 1 .. Depth
    BY <1>1
  <2> QED
    BY <2>1, ScaleAssumption DEF InputsOK
<1> HIDE DEF v, w
<1>4. SUFFICES ASSUME 2 * w <= v PROVE FALSE
  BY <1>2, <1>3 DEF v, w
<1>5. w > 0
  BY <1>1, <1>3
<1>6. (2 * w) * (rrfK + 1) <= v * (rrfK + 1)
  BY <1>1, <1>2, <1>3, <1>4
<1>7. w * (2 * (rrfK + 1)) <= w * (rrfK + Depth)
  BY <1>1, <1>2, <1>3, <1>6
<1>8. rrfK + Depth < 2 * (rrfK + 1)
  BY <1>1
<1>9. w * (rrfK + Depth) < w * (2 * (rrfK + 1))
  BY <1>1, <1>3, <1>5, <1>8
<1> QED
  BY <1>1, <1>3, <1>7, <1>9

\* Every reciprocal lies between that of the last rank and that of the first.
LEMMA ReciprocalBounds ==
  ASSUME InputsOK, NEW s \in {dense, sparse}, NEW c \in Chunks, In(s, c)
  PROVE  /\ Scale \div (rrfK + Depth) <= Reciprocal(s, c)
         /\ Reciprocal(s, c) <= Scale \div (rrfK + 1)
<1>1. RankIn(s, c) \in 1 .. Depth /\ 1 \in 1 .. Depth /\ Depth \in 1 .. Depth
  BY RankOf, LimitsAssumption, DepthBounds DEF InputsOK, IsRanking
<1>2. Reciprocal(s, c) = Scale \div (rrfK + RankIn(s, c))
  BY DEF Reciprocal
<1>3. \A q, r \in 1 .. Depth :
         /\ Scale \div (rrfK + r) \in Nat
         /\ q < r => Scale \div (rrfK + q) > Scale \div (rrfK + r)
  BY ReciprocalsDecrease DEF InputsOK
<1>4. RankIn(s, c) = Depth \/ RankIn(s, c) < Depth
  BY <1>1
<1>5. RankIn(s, c) = 1 \/ 1 < RankIn(s, c)
  BY <1>1
<1>6. Scale \div (rrfK + Depth) <= Reciprocal(s, c)
  BY <1>1, <1>2, <1>3, <1>4
<1>7. Reciprocal(s, c) <= Scale \div (rrfK + 1)
  BY <1>1, <1>2, <1>3, <1>5
<1> QED
  BY <1>6, <1>7

\* With no more than rrf_k + 1 candidates per ranking, being found twice beats being
\* found once, at whatever ranks.
THEOREM FoundTwiceFirst == Spec => []BothBeatOne
<1>1. ASSUME FusionInv
      PROVE  BothBeatOne
  <2>1. InputsOK
    BY <1>1, TypedInputs DEF FusionInv
  <2>2. SUFFICES ASSUME Depth <= rrfK + 1, NEW c \in Candidates, NEW d \in Candidates,
                        NEW i \in DOMAIN fused, In(dense, c), In(sparse, c),
                        ~(In(dense, d) /\ In(sparse, d)), fused[i] = d
                 PROVE  \E j \in DOMAIN fused : j < i /\ fused[j] = c
    BY DEF BothBeatOne
  <2>3. c \in Chunks /\ d \in Chunks
    BY DEF Candidates
  <2>4. IsTop(fused) /\ \E n \in Nat : fused \in [1 .. n -> Candidates]
    BY <1>1, <2>2 DEF FusionInv
  <2>5. /\ Reciprocal(dense, c) >= Scale \div (rrfK + Depth)
        /\ Reciprocal(sparse, c) >= Scale \div (rrfK + Depth)
    BY <2>1, <2>2, <2>3, ReciprocalBounds
  <2>6. Score(d) <= Scale \div (rrfK + 1)
    <3>1. CASE In(dense, d) /\ ~In(sparse, d)
      BY <2>1, <2>3, <3>1, ReciprocalOf, ReciprocalBounds DEF Score
    <3>2. CASE ~In(dense, d) /\ In(sparse, d)
      BY <2>1, <2>3, <3>2, ReciprocalOf, ReciprocalBounds DEF Score
    <3> QED
      BY <2>2, <3>1, <3>2 DEF Candidates
  <2>7. Scale \div (rrfK + Depth) \in Nat /\ Scale \div (rrfK + 1) \in Nat
    BY <2>1, LimitsAssumption, DepthBounds, ReciprocalsDecrease DEF InputsOK
  <2>8. Score(c) > Score(d)
    BY <2>1, <2>2, <2>3, <2>5, <2>6, <2>7, TwoExceedOne, ReciprocalOf DEF Score
  <2> QED
    BY <2>1, <2>2, <2>4, <2>8, GreaterScoreFirst
<1> QED
  BY <1>1, FusionInvariant, PTL
=============================================================================
