\* Every list of at most three candidates of four chunks, every answer of at
\* most two tokens, deletions and a disconnect at any moment; every query ends
\* while the server keeps running.
SPECIFICATION FairSpec
CONSTANTS
    Chunks = {1, 2, 3, 4}
    K = 3
    Blank = {4}
    Length <- ChunkLengths
    MaxContextChunks = 2
    MaxContextChars = 12
    MaxLabel = 3
    MaxTokens = 2
INVARIANTS TypeOK ContextFits DeletedStayOut SuccessIsGrounded EventOrder UpstreamReleased
PROPERTY QueriesEnd
