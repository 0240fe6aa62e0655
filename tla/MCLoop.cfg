SPECIFICATION MCSpec
CONSTANTS
    MaxIterations = 3
    MaxToolCalls = 4
    MaxParallel = 2
    NoProgress = 2
    CallLists <- MCCallLists
    MaxRounds = 2
    MaxEvents = 1
    Requests <- MCRequests
    Specs <- MCSpecs
    MaxRules = 2
    MaxGrants = 2
    Files = {f}
    GuardedSize = 3
    Initial = 3
    Sizes = {1, 2}
    MaxBytes = 5
    Patches <- MCPatches
    Window = 64
    MaxOutput = 8
    Threshold = 12
    Prefix = 3
    Schema = 2
    MaxOverhead = 2
    Growths = {0, 1, 4, 9}
    Handoffs = {1, 3, 6, 10, 14, 30}
INVARIANTS
    CallsAreAnswered
    
    ApprovalsAreExact
PROPERTIES
    OnlyReadsFollowTheEnd
    LoopKeepsProtocol
    ReadsGuardWrites
    CompactionSettles
CHECK_DEADLOCK FALSE
