\* Two cases over four chunks, the three best results of each call, one rebuild, and
\* deletions at any moment.
SPECIFICATION Spec
CONSTANTS
    Chunks = {1, 2, 3, 4}
    NameOf <- SourceNames
    Cases <- Dataset
    K = 3
    MaxContext = 1
    Scale = 6
    None = None
    MaxRebuilds = 1
INVARIANTS AveragesAgree CitedWasRetrieved DeletedAreExcluded
