SPECIFICATION FairSpec
CONSTANTS
    GB = 60
    PartsPerGB = 3
    Steps = 10
    MinPart = 4
    MinMultipart = 6
    MaxSize = 1000
    FileSize = 20
    Readers = {r1, r2}
    QueueMax = 2
    MaxTries = 2
    MaxRefresh = 1
    MayCancel = TRUE
    r1 = r1
    r2 = r2
INVARIANTS PartsAccepted CompleteHasAll MemoryBound SignedTogether
PROPERTIES UploadPromise Returns WorkersExit
