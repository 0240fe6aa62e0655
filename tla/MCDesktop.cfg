SPECIFICATION MCSpec
CONSTANTS
    Convs = {"a", "b"}
    MaxRunsStarted = 3
    MaxClicks = 5
    MaxQueued = 2
    Folders = {"a", "b"}
    Saved = "a"
    OpenFolders = {"a"}
    MaxBoots = 3
    MaxActs = 2
    MaxHostEdits = 1
    MaxMessages = 4
    MaxConvs = 2
    MaxContext = 2
    FileLength = 3
INVARIANTS
    
    AutoIsTrusted
    RuntimeAtHome
    
PROPERTIES
    
    RuntimeConverges
    HistorySurvives
CHECK_DEADLOCK FALSE
