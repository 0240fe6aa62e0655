SPECIFICATION MCSpec
CONSTANTS
    Keep = 2
    MaxStored = 3
    MaxWrites = 2
    MaxRuns = 1
    MaxFaults = 1
    ParentCost = 8
    ParentIterations = 7
    ParentToolCalls = 8
    MaxChildIterations = 6
    MaxChildToolCalls = 7
    MinCost = 1
    MaxTurnCost = 3
    MaxCallsPerTurn = 2
    Attempts = 3
    FragmentsPerCall = 2
    MaxCalls = 2
    MaxText = 2
    StreamMax = 1
    MaxTurns = 2
INVARIANTS
    
    InvestigationPays
    TurnsAreWhole
PROPERTIES
    AllWorkEnds
CHECK_DEADLOCK FALSE
