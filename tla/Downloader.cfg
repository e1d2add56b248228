SPECIFICATION DownloadSpec
CONSTANTS
    Length = 9
    PartSize = 2
    Concurrency = 3
    Limit = 2
    MaxRetries = 1
    MaxStatus = 2
    MaxTroubles = 2
INVARIANTS SendNeverBlocks FailsForCause
PROPERTIES ReaderPromise ReaderReturns WorkersEnd
CHECK_DEADLOCK FALSE
