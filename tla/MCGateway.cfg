SPECIFICATION Spec
CONSTANTS
    Runs = {"r1"}
    MaxEvents = 3
    Limit = 3
    AskBudget = TRUE
    ChatAttempts = 2
    MaxIds = 3
    MaxFaults = 1
    MaxTasks = 2
INVARIANTS
    RestIsReal
PROPERTIES
    EndIsFinal
    CancelHitsItsTask
    StreamInOrder
    KeepsProtocol
    RestIsReached
CHECK_DEADLOCK FALSE
