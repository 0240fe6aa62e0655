SPECIFICATION GuardSpec
CONSTANTS
  Files = {f}
  GuardedSize = 3
  Initial = 4
  Sizes = {1, 2}
  MaxBytes = 6
  Patches <- MCPatches

PROPERTY ConflictMeansStale
CHECK_DEADLOCK FALSE
