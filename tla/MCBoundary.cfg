SPECIFICATION MCSpec
CONSTANTS
    c1 = c1
    c2 = c2
    Absent = Absent
    Contents = {c1, c2}
    Paths = {1, 2}
    MaxWrites = 3
    MaxBatches = 1
    Files = {1, 2}
    Flagged = {2}
    BatchSize = 1
    MaxPubs = 2
    MaxVersions = 2
    Clients = {"c1", "c2"}
    MostLimit = 2
    Minute = 2
    HeaderTime = 1
    ConnectTime = 1
    IdleTime = 1
    Lifetime = 2
    TunnelBytes = 1
INVARIANTS
    FailedBatchUndone
    DoneBatchPublished
    PublicationIsExact
    CountsAreRight
PROPERTIES
    ReplacedIsCopied
    CrossingsEnd
CHECK_DEADLOCK FALSE
