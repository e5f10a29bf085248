\* Three elements in windows of two; reading any of them, or what follows them, may fail.
CONSTANTS
    Items = 3
    ChunkSize = 2
    MaxWorkers = 1
    ReadErrors = TRUE
SPECIFICATION Spec
INVARIANT MalformedSourceFails
