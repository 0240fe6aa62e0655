SPECIFICATION MCSpec
CONSTANTS
    c1 = c1
    c2 = c2
    Absent = Absent
    Contents = {c1, c2}
    Paths = {1}
    NeverPublish = {}
    MaxOps = 1
    MaxWrites = 3
    MaxIds = 3
    MaxOffers = 1
    IoErrors = TRUE
    Restores = FALSE
    PaneFiles = {1, 2}
    MaxListed = 1
    MaxAgentRuns = 2
    MaxRequests = 2
INVARIANTS
    TypeOK
    BaselineWasOnHost
    NothingInvented
    
    
    OnlyReviewedIsPublished
PROPERTIES
    RebaseIsSafe
CHECK_DEADLOCK FALSE
