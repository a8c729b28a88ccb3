SPECIFICATION MCSpec
CONSTANTS
    s1 = s1
    Documents = {d1}
    Sources = {s1}
    Workers = {w1, w2}
    Searches = {q1}
    SourceOf <- OneSource
    NoDocument = NoDocument
    MaxAttempts = 3
    Characters <- Letters
    Uploads <- Files
    ChunkSize = 6
    Overlap = 4
    MinimumChars = 2
    MaxLine = 9
    MaxPage = 4
    MaxLast = 2
    MaxMessages = 3
    MaxCharacters = 4
    MaxReferenced = 5
    MaxHistory = 4
    MaxResults = 3
    Requests <- Asked
INVARIANTS
    ReadyHasChunksOnce
    HitsExist
    ChunksKeepText
    ChunksCiteTheirPages
    ContextIsNewestHistory
    ReferencesCiteTheirText
PROPERTIES
    IngestionEnds
CHECK_DEADLOCK FALSE
