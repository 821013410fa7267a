\* Writes, indexing and recall in three scopes, with failures, crashes and a new model.
SPECIFICATION MemorySpec
CONSTANTS
    project = project
    user = user
    blank = blank
    short = short
    long = long
    old = old
    new = new
    other = other
    Scopes <- Projects
    Readable <- Narrowing
    Rendered <- Rendering
    Uris = {uri}
    Contents <- Texts
    Size <- Chunked
    Models = {old, other}
    Dimension <- Lengths
    MaxRecords = 4
    MaxCrashes = 1
INVARIANTS
    MemoryTypeOK
    DocumentsWhole
    OneSuccessor
    IndexIsOfIds
PROPERTIES
    KeepsVersions
CHECK_DEADLOCK FALSE
