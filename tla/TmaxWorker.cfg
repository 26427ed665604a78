CONSTANTS
    s1 = s1
    s2 = s2
    Workers = {w1, w2}
    Snippets = {s1, s2}
    File <- Files
    BufferSize <- Buffers
    RES_CHUNK_SIZE = 2
    Garbage <- WildChunk
    MaxFd = 5
    MaxFailures = 1
    MaxReadErrors = 1
SPECIFICATION FairSpec
INVARIANTS
    WrittenInOrder
    BigChunkHolds
    ChunksCountedOnce
    WorkingIdsAreCurrent
    NoDescriptorLeaks
PROPERTY SnippetIsAnswered
CHECK_DEADLOCK FALSE
