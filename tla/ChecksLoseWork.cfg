SPECIFICATION CommandsSpec
CONSTANTS
  Keep = 2
  MaxStored = 3
  MaxWrites = 2
  MaxRuns = 1
  MaxFaults = 1
INVARIANT ChecksKeepWork
CHECK_DEADLOCK FALSE
