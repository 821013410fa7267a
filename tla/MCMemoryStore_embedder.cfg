\* The process is started again with another embedding model.
SPECIFICATION MemorySpec
CONSTANTS
    project = project
    user = user
    blank = blank
    short = short
    long = long
    old = old
    new = new
    other = other
    Scopes <- Projects
    Readable <- Narrowing
    Rendered <- Rendering
    Uris = {uri}
    Contents <- Texts
    Size <- Chunked
    Models = {old, new}
    Dimension <- Lengths
    MaxRecords = 2
    MaxCrashes = 1
INVARIANTS
    ComparesLikeWithLike
CHECK_DEADLOCK FALSE
