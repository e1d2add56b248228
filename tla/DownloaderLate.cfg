SPECIFICATION DownloadSpec
CONSTANTS
    Length = 9
    PartSize = 2
    Concurrency = 2
    Limit = 2
    MaxRetries = 3
    MaxStatus = 0
    MaxTroubles = 1
INVARIANTS RetriesSuffice BytesTrue
CHECK_DEADLOCK FALSE
