------------------------------ MODULE RankFusion ------------------------------
(***************************************************************************)
(* Hybrid search, RetrievalService.search_hybrid: the dense and the sparse *)
(* ranking of a snapshot are fused by reciprocal ranks, cut to k and then  *)
(* filtered through PostgreSQL, while documents are deleted.               *)
(*                                                                         *)
(* Raw scores only order the two rankings, which are inputs here.  A       *)
(* reciprocal 1 / (rrf_k + rank) is counted in units of 1 / Scale, which   *)
(* makes it whole: sums of the code's floating-point numbers are compared  *)
(* exactly.                                                                *)
(***************************************************************************)
EXTENDS Integers, Sequences, FiniteSets

CONSTANTS
    Chunks,        \* chunks of the snapshot: numbers, in the order of their ids
    DenseDepth,    \* dense_candidate_k
    SparseDepth,   \* sparse_candidate_k
    Ks,            \* values of k
    RrfKs,         \* values of rrf_k a snapshot may carry
    Scale          \* a multiple of every rrf_k + rank

Smaller(m, n) == IF m <= n THEN m ELSE n

\* No rank exceeds it.
Depth == IF DenseDepth <= SparseDepth THEN SparseDepth ELSE DenseDepth

ASSUME ChunksAssumption == Chunks \subseteq Nat /\ IsFiniteSet(Chunks)
ASSUME LimitsAssumption ==
    /\ DenseDepth \in Nat \ {0} /\ SparseDepth \in Nat \ {0} /\ Scale \in Nat \ {0}
    /\ Ks \subseteq Nat \ {0} /\ RrfKs \subseteq Nat \ {0}
ASSUME ScaleAssumption ==
    \A rrf \in RrfKs : \A r \in 1 .. Depth :
        /\ Scale \div (rrf + r) \in Nat
        /\ Scale = (Scale \div (rrf + r)) * (rrf + r)

VARIABLES
    dense, sparse,   \* the two rankings, best first
    rrfK, k,
    live,            \* chunks of documents that are not deleted
    pc,
    fused,           \* the fused ranking, cut to k
    hits             \* what is left of it after hydration, in the same order

vars == <<dense, sparse, rrfK, k, live, pc, fused, hits>>
inputs == <<dense, sparse, rrfK, k>>

\* n of the chunks in an order, none of them twice: a store returns each position
\* once, and so does the fusion.
Rankings(chunks, n) ==
    {s \in [1 .. n -> chunks] : \A i, j \in 1 .. n : s[i] = s[j] => i = j}

\* The dense store ranks every chunk, the sparse one those that share a term with
\* the query.
Init ==
    /\ dense \in Rankings(Chunks, Smaller(DenseDepth, Cardinality(Chunks)))
    /\ \E n \in 0 .. Smaller(SparseDepth, Cardinality(Chunks)) :
          sparse \in Rankings(Chunks, n)
    /\ rrfK \in RrfKs
    /\ k \in Ks
    /\ live = Chunks
    /\ pc = "fuse"
    /\ fused = <<>>
    /\ hits = {}

-----------------------------------------------------------------------------
(* reciprocal_rank_fusion *)

In(ranking, c) == \E i \in DOMAIN ranking : ranking[i] = c
Candidates == {c \in Chunks : In(dense, c) \/ In(sparse, c)}

Infinity == Len(dense) + Len(sparse) + 1
RankIn(ranking, c) ==
    IF In(ranking, c) THEN CHOOSE i \in DOMAIN ranking : ranking[i] = c ELSE Infinity

Reciprocal(ranking, c) ==
    IF In(ranking, c) THEN Scale \div (rrfK + RankIn(ranking, c)) ELSE 0

-----------------------------------------------------------------------------
(* Mutated forms of definitions below: plausible bugs of this code.         *)

\* The sparse ranking only counts for chunks the dense one does not have.
FirstRankingOnly(c) ==
    IF In(dense, c) THEN Reciprocal(dense, c) ELSE Reciprocal(sparse, c)
\* Ties are broken by the best rank alone.
TieByBestRank(c) == Smaller(RankIn(dense, c), RankIn(sparse, c))
\* The cut is forgotten.
KeepAll == Cardinality(Candidates)

-----------------------------------------------------------------------------

Score(c) == Reciprocal(dense, c) + Reciprocal(sparse, c)
BestRank(c) == Smaller(RankIn(dense, c), RankIn(sparse, c))
TieBreaker(c) == RankIn(dense, c)

SameKey(c, d) ==
    Score(c) = Score(d) /\ BestRank(c) = BestRank(d) /\ TieBreaker(c) = TieBreaker(d)

\* c sorts before d.
Before(c, d) ==
    LET score == Score(c)
        other == Score(d)
    IN  \/ score > other
        \/ /\ score = other
           /\ \/ BestRank(c) < BestRank(d)
              \/ BestRank(c) = BestRank(d) /\ TieBreaker(c) < TieBreaker(d)
              \/ SameKey(c, d) /\ c < d

CutSize == Smaller(k, Cardinality(Candidates))

\* s is the beginning of the sorted candidates.
IsTop(s) ==
    /\ \A i, j \in DOMAIN s : i < j => Before(s[i], s[j])
    /\ \A c \in Candidates : In(s, c) \/ \A i \in DOMAIN s : Before(s[i], c)

Fuse ==
    /\ pc = "fuse"
    /\ \E s \in Rankings(Candidates, CutSize) : IsTop(s) /\ fused' = s
    /\ pc' = "hydrate"
    /\ UNCHANGED <<inputs, live, hits>>

\* _hydrate, after the cut: chunks that are gone are skipped and not replaced.
Hydrate ==
    /\ pc = "hydrate"
    /\ hits' = {c \in live : In(fused, c)}
    /\ pc' = "done"
    /\ UNCHANGED <<inputs, live, fused>>

DeleteChunk(c) ==
    /\ pc # "done"
    /\ c \in live
    /\ live' = live \ {c}
    /\ UNCHANGED <<inputs, pc, fused, hits>>

Finished == pc = "done" /\ UNCHANGED vars

Next == Fuse \/ Hydrate \/ (\E c \in Chunks : DeleteChunk(c)) \/ Finished
Spec == Init /\ [][Next]_vars

-----------------------------------------------------------------------------
(* Properties                                                               *)

\* Every variable has its type, and no more than k results are returned.
TypeOK ==
    /\ \E n \in 0 .. DenseDepth : dense \in Rankings(Chunks, n)
    /\ \E n \in 0 .. SparseDepth : sparse \in Rankings(Chunks, n)
    /\ rrfK \in RrfKs /\ k \in Ks
    /\ live \subseteq Chunks
    /\ pc \in {"fuse", "hydrate", "done"}
    /\ \E n \in 0 .. k : fused \in [1 .. n -> Chunks]
    /\ hits \subseteq Chunks

\* d is ranked at least as high as c by both rankings.
Dominates(d, c) ==
    /\ d # c
    /\ RankIn(dense, d) <= RankIn(dense, c)
    /\ RankIn(sparse, d) <= RankIn(sparse, c)

\* What both rankings agree on survives the fusion, the cut and the filter: a chunk
\* that both prefer to a result comes before it, and is a result itself while its
\* document is not deleted.
DominanceRespected ==
    /\ \A d \in Candidates : \A i \in DOMAIN fused :
          Dominates(d, fused[i]) => \E j \in DOMAIN fused : j < i /\ fused[j] = d
    /\ \A c \in hits : \A d \in Candidates \cap live : Dominates(d, c) => d \in hits

\* With fewer candidates in either ranking than rrf_k + 2, as configured (20, 20 and
\* 60), a chunk that both rankings found comes before every chunk that one of them missed.
BothBeatOne ==
    Depth <= rrfK + 1 =>
        \A c, d \in Candidates : \A i \in DOMAIN fused :
            /\ In(dense, c) /\ In(sparse, c)
            /\ ~(In(dense, d) /\ In(sparse, d))
            /\ fused[i] = d
            => \E j \in DOMAIN fused : j < i /\ fused[j] = c

\* Two candidates never agree in score, best rank and dense rank: the order, and so
\* the cut, is decided by the rankings alone and never by the random chunk ids.
IdsNeverDecide == \A c, d \in Candidates : SameKey(c, d) => c = d
=============================================================================
