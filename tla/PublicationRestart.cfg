SPECIFICATION MCSpec
CONSTANTS
    c1 = c1
    c2 = c2
    Absent = Absent
    Contents = {c1, c2}
    Paths = {1, 2}
    NeverPublish = {}
    MaxOps = 2
    MaxWrites = 2
    MaxIds = 3
    MaxOffers = 1
    IoErrors = FALSE
    Restores = FALSE
    MaxBatches = 1
    RestartsInBatch = TRUE
PROPERTY
    WorkFollowsUser
CHECK_DEADLOCK FALSE
