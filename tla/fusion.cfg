\* Four chunks, three candidates of the dense ranking and up to four of the sparse
\* one, every pair of rankings, a cut to three results, deletions before the filter.
SPECIFICATION Spec
CONSTANTS
    Chunks = {1, 2, 3, 4}
    DenseDepth = 3
    SparseDepth = 4
    Ks = {3}
    RrfKs = {1, 3}
    Scale = 420
INVARIANTS TypeOK DominanceRespected BothBeatOne IdsNeverDecide
