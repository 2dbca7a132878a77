SPECIFICATION FairSpec
CONSTANTS
  Records = 5
  BufferMax = 3
  BatchSize = 2
  Oversize <- OneOversize
  MaxTimeouts = 1
INVARIANTS OldestAreLost
PROPERTIES StoresInOrder RecordsShip
CHECK_DEADLOCK FALSE
